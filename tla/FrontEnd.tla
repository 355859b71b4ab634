------------------------------ MODULE FrontEnd ------------------------------
(***************************************************************************)
(* The front end of circom from the files of a project to a typed program: *)
(* parser/src/lib.rs and include_logic.rs read and merge the files,        *)
(* apply_syntactic_sugar rewrites the definitions, and check_types         *)
(* (type_analysis/src/check_types.rs) runs its phases, each of which may   *)
(* reject the program.                                                     *)
(*                                                                         *)
(* A project has a directory and a name for every file; a file is          *)
(* [version, pragma, includes, definitions, main].                         *)
(***************************************************************************)
EXTENDS FileReading, SyntaxSugar, ComponentTypes, ConstantsHandler, TypeCheck
LOCAL INSTANCE Naturals
LOCAL INSTANCE Sequences
LOCAL INSTANCE SequencesExt
LOCAL INSTANCE Functions
LOCAL INSTANCE FiniteSets

CONSTANTS
    Meaning(_)      \* what a program computes, [status, ..] (CircomMeaning)

VARIABLES
    archive,    \* the ProgramArchive
    written     \* the same program as its files have it (history)
vars == <<files, archive, written, phase>>

---------------------------------------------------------------------------
(* The program *)

DefineTemplate(name, params, custom, body) ==
    [kind |-> "template", name |-> name, params |-> params, custom |-> custom, body |-> body]
DefineFunction(name, params, body) ==
    [kind |-> "function", name |-> name, params |-> params, custom |-> FALSE, body |-> body]

TemplateData(d) ==
    LET body == Parsed(d.body)
    IN [params |-> d.params, body |-> body, custom |-> d.custom,
        inputs |-> Wires(body, "input"), outputs |-> Wires(body, "output")]
FunctionData(d) == [params |-> d.params, body |-> Parsed(d.body)]

OfKind(kind) == {Definitions[i] : i \in {j \in DOMAIN Definitions : Definitions[j].kind = kind}}
DefinitionOf(n) == Definitions[SelectInSeq(Definitions, LAMBDA d : d.name = n)]

Merged ==
    [templates |-> [n \in {d.name : d \in OfKind("template")} |-> TemplateData(DefinitionOf(n))],
     functions |-> [n \in {d.name : d \in OfKind("function")} |-> FunctionData(DefinitionOf(n))],
     main |-> Mains[1].main, public |-> Mains[1].public]

\* The program with the bodies that the files have.
Unparsed ==
    [Merged EXCEPT
        !.templates = [t \in DOMAIN @ |-> [@[t] EXCEPT !.body = DefinitionOf(t).body]],
        !.functions = [f \in DOMAIN @ |-> [@[f] EXCEPT !.body = DefinitionOf(f).body]]]

\* A phase ends in the next one, or the compiler stops.
Proceed(from, to, panic, ok, new) ==
    /\ phase = from
    /\ phase' = CASE panic -> "panicked" [] ~panic /\ ok -> to [] OTHER -> "rejected"
    /\ archive' = IF ~panic /\ ok THEN new ELSE archive
    /\ UNCHANGED <<files, written>>

Merge ==
    /\ EndReading
    /\ IF FilesAccepted THEN archive' = Merged /\ written' = Unparsed
       ELSE UNCHANGED <<archive, written>>

\* The templates as they were, for the names of their signals.
Signatures ==
    [t \in DOMAIN archive.templates |->
        [inputs |-> WireNames(archive.templates[t].inputs),
         outputs |-> WireNames(archive.templates[t].outputs)]]

WithBodies(ds, bodies) == [n \in DOMAIN ds |-> [ds[n] EXCEPT !.body = bodies[n].body]]

SugarFree(templates, functions) ==
    Proceed("desugaring", "naming", FALSE,
            /\ archive.main.expr # "AnonymousComp"
            /\ AllOk(templates) /\ AllOk(functions),
            [archive EXCEPT !.templates = WithBodies(@, templates),
                            !.functions = WithBodies(@, functions)])

Desugar ==
    LET templates == archive.templates
        functions == archive.functions
    IN SugarFree([t \in DOMAIN templates |-> SugarFreeTemplate(Signatures, templates[t].body)],
                 [f \in DOMAIN functions |-> SugarFreeFunction(functions[f].body)])

\* The walk of the names does not expect an anonymous component.
CheckNames ==
    Proceed("naming", "templates",
            \E t \in DOMAIN archive.templates :
                StatementContainsAnonymous(archive.templates[t].body),
            CheckNamingCorrectness(archive), archive)

CheckTemplates ==
    Proceed("templates", "functions", FALSE,
            \A t \in DOMAIN archive.templates :
                LET body == archive.templates[t].body
                IN FreeOfReturns(body) /\ SignalsCorrect(body, TRUE),
            archive)

CheckFunctions ==
    Proceed("functions", "template decorators", FALSE,
            \A f \in DOMAIN archive.functions :
                LET body == archive.functions[f].body
                IN FreeOfTemplateElements(archive, body) /\ AllPathsReturn(body),
            archive)

Decorated(rs) == \A n \in DOMAIN rs : rs[n].walk.ok
Broke(rs)     == \E n \in DOMAIN rs : rs[n].walk.panic
Bodies(rs)    == [n \in DOMAIN rs |-> [body |-> rs[n].stmt]]

TemplatesDecorated(rs) ==
    Proceed("template decorators", "function decorators", Broke(rs), Decorated(rs),
            [archive EXCEPT !.templates = WithBodies(@, Bodies(rs))])

ReduceTemplates(inferred) ==
    TemplatesDecorated([t \in DOMAIN inferred.templates |->
                            ReduceDefinition(inferred, inferred.templates[t])])

DecorateTemplates ==
    LET names == DOMAIN archive.templates
    IN ReduceTemplates([archive EXCEPT !.templates =
                          [t \in names |-> [@[t] EXCEPT !.body = Inference(names, @)]]])

FunctionsDecorated(constantsOk, rs) ==
    Proceed("function decorators", "typing", Broke(rs), constantsOk /\ Decorated(rs),
            [archive EXCEPT !.functions = WithBodies(@, Bodies(rs))])

ReduceFunctions(handled) ==
    FunctionsDecorated(AllOk(handled),
                       [f \in DOMAIN handled |-> ReduceDefinition(archive, handled[f].definition)])

DecorateFunctions ==
    ReduceFunctions([f \in DOMAIN archive.functions |-> HandleConstants(archive.functions[f])])

\* What the main component does not reach is removed.
Typing(info) ==
    Proceed("typing", "custom gates", info.panic, info.ok,
            [archive EXCEPT
               !.templates = RestrictDomain(@, LAMBDA t : t \in info.reached),
               !.functions = RestrictDomain(@, LAMBDA f : f \in info.reached)])
Type == Typing(TypeProgram(archive))

CheckCustomGates ==
    Proceed("custom gates", "accepted", FALSE,
            \A t \in DOMAIN archive.templates :
                archive.templates[t].custom => CustomGateCorrect(archive.templates[t].body),
            archive)

Ended == phase \in {"accepted", "rejected", "panicked"} /\ UNCHANGED vars

Init ==
    /\ ReadingInit
    /\ archive = [templates |-> <<>>, functions |-> <<>>, main |-> Num(0), public |-> {}]
    /\ written = archive

Next ==
    \/ ReadFile /\ UNCHANGED <<archive, written>>
    \/ Merge \/ Desugar \/ CheckNames \/ CheckTemplates \/ CheckFunctions
    \/ DecorateTemplates \/ DecorateFunctions \/ Type \/ CheckCustomGates \/ Ended

Spec == Init /\ [][Next]_vars

---------------------------------------------------------------------------
(* Properties *)

\* Two habits that the compiler does not enforce, on the parsed body of a
\* definition: components are created in the text before their wires are
\* used, and no declaration hides another.
RECURSIVE NamesWithWires(_)
NamesWithWires(e) ==
    (IF e.expr = "Variable" /\ ~FreeAccess(e.access) THEN {e.name} ELSE {})
        \union UNION {NamesWithWires(Operands(e)[i]) : i \in DOMAIN Operands(e)}

RECURSIVE ComponentsDeclared(_), CreatedFirst(_, _), NothingHidden(_, _)
ComponentsDeclared(s) ==
    IF s.stmt = "Declaration" THEN IF IsComponentType(s.xtype) THEN {s.name} ELSE {}
    ELSE UNION {ComponentsDeclared(Statements(s)[i]) : i \in DOMAIN Statements(s)}

CreatedFirst(s, acc) ==
    LET es      == Expressions(s)
        wired   == UNION {NamesWithWires(es[i]) : i \in DOMAIN es}
                      \union IF s.stmt = "Substitution" /\ ~FreeAccess(s.access) THEN {s.var} ELSE {}
        creates == s.stmt = "Substitution" /\ FreeAccess(s.access) /\ ReductionOf(s.rhe) # Unreduced
        here    == [acc EXCEPT !.ok = @ /\ wired \intersect acc.components \subseteq acc.created,
                               !.created = IF creates THEN @ \union {s.var} ELSE @]
    IN FoldLeft(LAMBDA c, t : IF c.ok THEN CreatedFirst(t, c) ELSE c, here, Statements(s))

NothingHidden(s, known) ==
    LET step(acc, t) ==
            IF ~acc.ok THEN acc
            ELSE CASE t.stmt = "Declaration" ->
                         Checked(acc.known \union {t.name}, t.name \notin acc.known)
                   [] t.stmt = "InitializationBlock" -> NothingHidden(t, acc.known)
                   [] OTHER -> Checked(acc.known, NothingHidden(t, acc.known).ok)
    IN FoldLeft(step, Checked(known, TRUE), Statements(s))

Tidy(d) ==
    LET body == Parsed(d.body)
    IN /\ NothingHidden(body, Range(d.params)).ok
       /\ CreatedFirst(body, [components |-> ComponentsDeclared(body), created |-> {}, ok |-> TRUE]).ok

AllTidy ==
    /\ \A t \in DOMAIN written.templates : Tidy(written.templates[t])
    /\ \A f \in DOMAIN written.functions : Tidy(written.functions[f])

\* AcceptedMeans: the definitions that the front end hands on, after the
\* shortcuts, the removal of anonymous components and tuples, the inference
\* of component types, the type reductions and the expansion of constants,
\* compute the signals and constraints of the definitions in the files (the
\* reference interpreter, CircomMeaning, runs both).
AcceptedMeans ==
    phase = "accepted" /\ AllTidy =>
        LET source == Meaning(written)
            compiled == Meaning(archive)
        IN /\ compiled.status = source.status
           /\ source.status = "ok" => compiled = source

\* AcceptedRuns: an accepted program never does what the type analysis exists
\* to exclude when it runs: a name that is not in scope, a function that ends
\* without a value, a value of the wrong shape or kind.
AcceptedRuns == phase = "accepted" /\ AllTidy => Meaning(archive).status # "wrong"
=============================================================================
