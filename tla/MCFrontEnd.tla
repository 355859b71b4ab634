----------------------------- MODULE MCFrontEnd -----------------------------
(***************************************************************************)
(* Projects for TLC: a main template whose body is two statements of a     *)
(* pool after the declarations; one with a function of a pool; and         *)
(* projects of several files.                                              *)
(***************************************************************************)
EXTENDS FrontEnd, CircomMeaning
LOCAL INSTANCE Naturals
LOCAL INSTANCE Sequences
LOCAL INSTANCE SequencesExt
LOCAL INSTANCE TLC

MCAlphabet  == <<"e", "in", "v", "w", "x">>
MCLibraries == <<"lib">>
MCCompiler  == <<2, 2, 2>>

---------------------------------------------------------------------------
(* Short ways to write a program *)

a == Named("a")
x == Named("x")
y == "y"
Index(n, i)    == Variable(n, <<Array(i)>>)
Out(n, w)      == Variable(n, <<Dot(w)>>)
Plus(l, r)     == Infix("Add", l, r)
Set(n, e)      == Substitution(n, <<>>, "=", e)
SetAt(n, i, e) == Substitution(n, <<Array(i)>>, "=", e)
Give(n, e)     == Substitution(n, <<>>, "<==", e)
GiveAt(n, i, e) == Substitution(n, <<Array(i)>>, "<==", e)
Feed(n, w, e)  == Substitution(n, <<Dot(w)>>, "<==", e)
Both(l, r)     == MultSubstitution(Tuple(l), "<==", r)
If(c, s)       == IfThenElse(c, Block(s), Block(<<>>))
Plain(n)       == <<Symbol(n, <<>>, <<>>)>>
Equals(n, e)   == <<Symbol(n, <<>>, <<e>>)>>
Vars(symbols)  == Declare(VarType, symbols, "=")
Wire(io, n, dims, tags) == Declare(SignalType(io, tags), <<Symbol(n, dims, <<>>)>>, "<==")
Input(n, dims)  == Wire("input", n, dims, {})
Output(n, dims) == Wire("output", n, dims, {})
Upto(i, n, body, place) ==
    For(Vars(Equals(i, Num(0))), Infix("Lesser", Named(i), Num(n)),
        AssignWith("Add", i, <<>>, Num(1)), Block(body), place)
AnonA(e, place) == Anonymous("A", <<a>>, <<e>>, <<>>, place)
AnonB(l, r, place) == Anonymous("B", <<>>, <<l, r>>, <<>>, place)

---------------------------------------------------------------------------
(* The library: A adds n; B has its inputs against the alphabet and a tag  *)

LibraryOf(function) ==
  << DefineTemplate("A", <<"n">>, FALSE, Block(<<Input("in", <<>>), Output("out", <<>>),
        Give("out", Plus(Named("in"), Named("n")))>>)),
     DefineTemplate("B", <<>>, FALSE, Block(<<Input("w", <<>>), Input("e", <<>>),
        Output("s", <<>>), Wire("output", "d", <<>>, {"m"}),
        Give("s", Plus(Named("w"), Named("e"))), Substitution("d", <<Dot("m")>>, "=", Num(3)),
        Give("d", Infix("Sub", Named("w"), Named("e")))>>)),
     DefineFunction("f", <<"n">>, function) >>

Declarations ==
  << Input("x", <<>>), Input("v", <<Num(2)>>), Output("y", <<>>),
     Wire("output", "z", <<Num(2)>>, {"t"}),
     Vars(<<Symbol("a", <<>>, <<Num(1)>>), Symbol("b", <<Num(2)>>, <<>>)>>),
     Declare(ComponentType, <<Symbol("c", <<>>, <<>>), Symbol("d", <<Num(2)>>, <<>>)>>, "=") >>

\* k makes the places of the two statements different.
Pool(k) ==
  << \* anonymous components and tuples
     Give(y, AnonA(x, k)),
     Both(<<Named(y), Index("z", Num(0))>>, AnonB(x, Index("v", Num(1)), k)),
     Both(<<Named(y), Index("z", Num(0))>>,
          Anonymous("B", <<>>, <<x, Index("v", Num(1))>>, << <<"e", "<==">>, <<"w", "<==">> >>, k)),
     Give(y, AnonA(AnonA(x, k \o "in"), k)),
     Upto("i", 2, <<GiveAt("z", Named("i"), AnonA(Index("v", Named("i")), k \o "in"))>>, k),
     Upto("i", 2, <<Upto("j", 1, <<GiveAt("z", Named("i"), AnonA(x, k \o "in"))>>, k \o "j")>>, k),
     MultSubstitution(Tuple(<<a, Index("b", Num(1))>>), "=",
                      Tuple(<<Plus(Index("b", Num(1)), Num(2)), a>>)),
     Both(<<Tuple(<<Named("_"), Named(y)>>), Index("z", Num(1))>>,
          Tuple(<<AnonB(x, x, k), x>>)),
     Give("_", AnonA(x, k)),
     Give(y, Parallel(AnonA(x, k))),
     Substitution(y, <<>>, "<--", AnonA(x, k)),
     Give(y, Plus(x, AnonA(x, k))),
     Give(y, Parallel(Anonymous("A", <<AnonA(x, k \o "in")>>, <<x>>, <<>>, k))),
     Give(y, AnonB(x, x, k)),
     Give(y, Anonymous("A", <<a>>, <<x, x>>, <<>>, k)),
     Give(y, Anonymous("A", <<a>>, <<x>>, << <<"w", "<==">> >>, k)),
     Both(<<a, Num(1)>>, AnonB(x, x, k)),
     DeclareTuple(SignalType("intermediate", {}), Plain("p" \o k) \o Plain("q" \o k), "<==",
                  <<AnonB(x, a, k)>>),
     If(Infix("Eq", a, Num(1)), <<Give(y, AnonA(x, k))>>),
     \* components
     Block(<<Set("c", Call("A", <<Num(3)>>)), Feed("c", "in", x), Give(y, Out("c", "out"))>>),
     Upto("i", 2, <<SetAt("d", Named("i"), Call("A", <<Named("i")>>)),
                    Substitution("d", <<Array(Named("i")), Dot("in")>>, "<==", Index("v", Named("i")))>>, k),
     GiveAt("z", a, Variable("d", <<Array(a), Dot("out")>>)),
     Block(<<Set("c", Parallel(Call("A", <<Num(3)>>))), Feed("c", "in", x)>>),
     Block(<<SetAt("d", Num(0), Call("A", <<a>>)), SetAt("d", Num(1), Call("B", <<>>))>>),
     Set("c", Switch(a, Call("A", <<Num(1)>>), Call("A", <<Num(2)>>))),
     Give(y, Out("c", "out")),
     Feed("c", "in", x),
     Set("c", Call("f", <<Num(1)>>)),
     Declare(ComponentType, Equals("h" \o k, Call("B", <<>>)), "="),
     Block(<<Declare(ComponentType, Equals("h" \o k, Call("B", <<>>)), "="),
             Feed("h" \o k, "w", x), Feed("h" \o k, "e", a),
             Set("a", Variable("h" \o k, <<Dot("d"), Dot("m")>>))>>),
     Upto("i", 2, <<Declare(ComponentType, Plain("h"), "=")>>, k),
     \* signals and tags
     Give(y, x),
     Give("z", Named("v")),
     GiveAt("z", Num(0), Named("v")),
     Substitution("z", <<Dot("t")>>, "=", a),
     Set("a", Out("z", "t")),
     Set("a", Out("x", "t")),
     Set("a", x),
     ConstraintEquality(x, Index("v", Num(0))),
     ConstraintEquality(x, Named("v")),
     \* variables
     Set("a", Call("f", <<Num(2)>>)),
     Set("b", Call("f", <<Num(2)>>)),
     Set("a", Call("f", <<Named("b")>>)),
     Set("a", Call("f", <<>>)),
     AssignWith("Add", "a", <<>>, Num(2)),
     SetAt("b", a, Num(5)),
     Set("b", ArrayInLine(<<a, Num(4)>>)),
     Set("b", Uniform(a, Num(2))),
     Vars(<<Symbol("p" \o k, <<Num(2), Num(2)>>, <<>>), Symbol("q" \o k, <<>>, <<a>>)>>),
     IfThenElse(Infix("Eq", a, Num(1)), Block(<<Give(y, x)>>), Block(<<Set("a", Num(1))>>)),
     If(a, <<Vars(Equals("a", Num(3))), Set("a", Plus(a, Num(1)))>>),
     While(Infix("Lesser", a, Num(3)), Block(<<Set("a", Plus(a, Num(1)))>>), k),
     Set("a", Named("i")),
     Set("a", Parallel(Num(3))),
     Log(<<a, Tuple(<<x, Num(1)>>)>>),
     AssertThat(Infix("Eq", a, Num(1))),
     Return(a) >>

Functions ==
  << Block(<<Vars(Equals("m", Plus(Named("n"), Num(1)))), Return(Named("m"))>>),
     Block(<<IfThenElse(Infix("Eq", Named("n"), Num(0)), Block(<<Return(Num(0))>>),
                        Block(<<Return(Plus(Call("f", <<Infix("Sub", Named("n"), Num(1))>>), Num(2)))>>))>>),
     Block(<<Vars(Equals("m", Num(2))), Vars(<<Symbol("t", <<Named("m")>>, <<>>)>>),
             SetAt("t", Num(0), Named("n")), Return(Named("t"))>>),
     Block(<<Vars(<<Symbol("t", <<Named("n")>>, <<>>)>>), Return(Named("t"))>>),
     Block(<<Vars(Equals("m", Num(1))), Set("m", Plus(Named("m"), Named("n"))), Return(Named("m"))>>),
     Block(<<Vars(Equals("m", Num(1))),
             If(Named("n"), <<Vars(Equals("m", Named("n"))), Return(Named("m"))>>),
             Return(Named("m"))>>),
     Block(<<Vars(Equals("p", Num(1))), Vars(Equals("m", Named("p"))),
             If(Named("n"), <<Set("m", Num(4))>>), Return(Named("m"))>>),
     Block(<<While(Infix("Lesser", Named("n"), Num(5)), Block(<<Set("n", Plus(Named("n"), Num(1)))>>), "f"),
             Return(Named("n"))>>),
     Block(<<While(Infix("Lesser", Num(5), Named("n")), Block(<<Return(Num(1))>>), "f")>>),
     Block(<<If(Named("n"), <<Return(Num(1))>>)>>),
     Block(<<If(Named("n"), <<Return(Num(1))>>), Return(ArrayInLine(<<Num(1), Named("n")>>))>>),
     Block(<<Return(Index("n", Num(0)))>>),
     Block(<<Return(Call("A", <<Named("n")>>))>>),
     Block(<<Input("n2", <<>>), Return(Named("n"))>>),
     Block(<<Return(Switch(Named("n"), Named("n"), Call("f", <<Num(1)>>)))>>),
     Block(<<Return(Call("f", <<Named("n")>>))>>) >>

---------------------------------------------------------------------------
(* Projects *)

MainOf(call) == <<[main |-> call, public |-> {"x"}]>>
SourceFile(version, pragma, includes, definitions, main) ==
  [version |-> version, pragma |-> pragma, includes |-> includes,
   definitions |-> definitions, main |-> main]

MainFile(body) ==
  SourceFile(<<2, 1, 0>>, FALSE, <<"gates">>,
             <<DefineTemplate("Main", <<>>, FALSE, Block(Declarations \o body))>>,
             MainOf(Call("Main", <<>>)))

WithBody(id, body, function) ==
  [id |-> id, main |-> <<"src", "main">>,
   files |-> (<<"src", "main">> :> MainFile(body)
              @@ <<"lib", "gates">> :> SourceFile(<<>>, FALSE, <<>>, LibraryOf(function), <<>>))]

Pairs == {WithBody(<<i, j>>, <<Pool("1")[i], Pool("2")[j]>>, Functions[1]) :
             i, j \in DOMAIN Pool("")}

\* What a function does to a number, to an array, and where an array is due.
Uses == <<Give(y, Call("f", <<Num(2)>>)), Give("z", Call("f", <<Num(6)>>)),
          Give(y, Call("f", <<Named("b")>>)), Give(y, Call("f", <<Num(0)>>))>>
FunctionUses ==
    {WithBody(<<"f", i, j>>, <<Uses[j]>>, Functions[i]) : i \in DOMAIN Functions, j \in DOMAIN Uses}

\* Three files that include each other in all ways; the program is in the
\* first or the second, a template in the third, custom or not.
Copy(name, custom, op) ==
    DefineTemplate(name, <<>>, custom, Block(<<Input("in", <<>>), Output("out", <<>>),
        Substitution("out", <<>>, op, Named("in"))>>))
Content(home, name, here, custom) ==
    [definitions |-> (IF here THEN <<Copy("Top", FALSE, "<==")>> ELSE <<>>)
                        \o IF name = "r" THEN <<Copy("Gate", custom, "<--")>> ELSE <<>>,
     main |-> IF here THEN <<[main |-> Call("Top", <<>>), public |-> {}]>> ELSE <<>>]

Sets == <<<<>>, <<1>>, <<2>>, <<1, 2>>>>
Webs ==
  LET others == ("p" :> <<"q", "r">> @@ "q" :> <<"r", "p">> @@ "r" :> <<"q", "p">>)
      file(n, includes, pragmas, home, custom) ==
        LET c == Content(home, n, n = home, custom)
        IN SourceFile(<<>>, n \in pragmas, [i \in DOMAIN Sets[includes[n]] |->
                                   others[n][Sets[includes[n]][i]]], c.definitions, c.main)
  IN {[id |-> <<"web", includes, pragmas, home, custom>>, main |-> <<".", "p">>,
       files |-> [at \in {<<".", "p">>, <<".", "q">>, <<".", "r">>} |->
                    file(at[2], includes, pragmas, home, custom)]] :
      includes \in [{"p", "q", "r"} -> 1..4], home \in {"p", "q"},
      custom \in BOOLEAN, pragmas \in {{}, {"r"}, {"p", "r"}, {"p", "q", "r"}}}

\* Other main components, versions, custom templates, libraries.
Single(id, version, pragma, includes, definitions, main) ==
  [id |-> id, main |-> <<"src", "main">>,
   files |-> (<<"src", "main">> :> SourceFile(version, pragma, includes, definitions, main)
              @@ <<"src", "near">> :> SourceFile(<<2, 2, 2>>, FALSE, <<>>,
                    <<Copy("Near", FALSE, "<==")>>, <<>>)
              @@ <<"lib", "near">> :> SourceFile(<<>>, FALSE, <<>>, <<Copy("Far", FALSE, "<==")>>, <<>>)
              @@ <<"lib", "gates">> :> SourceFile(<<>>, FALSE, <<"near">>,
                                            LibraryOf(Functions[1]), <<>>))]

MainCalls ==
  << Call("Near", <<>>), Call("Far", <<>>), Call("A", <<Num(1)>>), Call("A", <<>>),
     Call("A", <<ArrayInLine(<<Num(1)>>)>>), Call("f", <<Num(1)>>), Anonymous("B", <<>>, <<>>, <<>>, "m"),
     Call("Gate", <<>>), Call("Wrong", <<>>), Call("Tagged", <<>>), Call("Twice", <<Num(1), Num(2)>>),
     Parallel(Call("A", <<Num(1)>>)), Num(1) >>
MainDefinitions ==
  << Copy("Gate", TRUE, "<--"), Copy("Wrong", TRUE, "<=="),
     DefineTemplate("Tagged", <<>>, FALSE, Block(<<Wire("input", "in", <<>>, {"t"})>>)) >>
Mains_ ==
  {Single(<<"main", i, includes, version, pragma, public>>, version, pragma, includes,
          MainDefinitions \o IF i = 11 THEN <<DefineTemplate("Twice", <<"n", "n">>, FALSE, Block(<<>>))>>
                             ELSE <<>>,
          <<[main |-> MainCalls[i], public |-> public]>>) :
      i \in DOMAIN MainCalls, includes \in {<<"near">>, <<"gates">>, <<"near", "gates">>, <<"none">>},
      version \in {<<2, 0, 5>>, <<2, 2, 3>>, <<>>, <<1, 0, 0>>}, pragma \in BOOLEAN,
      public \in {{}, {"in"}}}

MCProjects == Pairs \union FunctionUses \union Webs \union Mains_
=============================================================================
