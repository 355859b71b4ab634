------------------------------ MODULE R1CSFile ------------------------------
(***************************************************************************)
(* The bytes of a .r1cs file (constraint_writers): a writer that fills in  *)
(* the size of a section when it ends it, and a reader that finds the      *)
(* sections by these sizes, whatever their order.  A number takes at least *)
(* its width in bytes, the lowest first; the size of a section is counted  *)
(* beside the bytes, not measured.                                         *)
(***************************************************************************)
LOCAL INSTANCE Integers
LOCAL INSTANCE Sequences
LOCAL INSTANCE FiniteSets
LOCAL INSTANCE SequencesExt
LOCAL INSTANCE FiniteSetsExt

Byte == 256
Magic == <<114, 49, 99, 115>>
Version == <<1, 0, 0, 0>>
SectionType == [header |-> 1, constraints |-> 2, wires |-> 3, gatesUsed |-> 4, gatesApplied |-> 5]
PlaceHolder == [i \in 1..8 |-> 3]

RECURSIVE ToBytes(_)
ToBytes(n) == IF n < Byte THEN <<n>> ELSE <<n % Byte>> \o ToBytes(n \div Byte)

FromBytes(bytes) == FoldRight(LAMBDA b, n : Byte * n + b, bytes, 0)

\* Short numbers are padded; long ones keep all their bytes.
IntoFormat(bytes, width) == bytes \o [i \in 1..(width - Len(bytes)) |-> 0]
AsBytes(n, width) == IntoFormat(ToBytes(n), width)

\* Whole 64-bit words.
FieldSize(prime) == LET words(n) == (n + 7) \div 8 IN 8 * words(Len(ToBytes(prime)))

---------------------------------------------------------------------------
(* The writer: [bytes, goBack, size, fieldSize] *)

Put(w, stream) == [w EXCEPT !.bytes = @ \o stream, !.size = @ + Len(stream)]
PutNumber(w, n, width) == Put(w, AsBytes(n, width))
PutAll(w, items, PutOne(_, _)) == FoldLeft(PutOne, w, items)

Initialized(fieldSize, customGates) ==
    [bytes |-> Magic \o Version \o <<IF customGates THEN 5 ELSE 3, 0, 0, 0>>,
     goBack |-> 0, size |-> 0, fieldSize |-> fieldSize]

StartSection(w, type) ==
    LET started == w.bytes \o <<type, 0, 0, 0>>
    IN [w EXCEPT !.bytes = started \o PlaceHolder, !.goBack = Len(started), !.size = 0]

EndSection(w) ==
    LET size == AsBytes(w.size, 8)
    IN [w EXCEPT !.bytes = [i \in DOMAIN @ |->
           IF i - w.goBack \in DOMAIN size THEN size[i - w.goBack] ELSE @[i]]]

\* Signals are sorted as their bytes are: 256 comes before 1.
BytesBefore(a, b) ==
    \E i \in DOMAIN b :
        /\ i <= Len(a) + 1 /\ SubSeq(a, 1, i - 1) = SubSeq(b, 1, i - 1)
        /\ i <= Len(a) => a[i] < b[i]

PutFactors(w, map, order) ==
    LET factor(v, s) == PutNumber(PutNumber(v, s, 4), map[s], v.fieldSize)
    IN PutAll(PutNumber(w, Len(order), 4), order, factor)

PutCombination(w, map) ==
    PutFactors(w, map, SetToSortSeq(DOMAIN map, LAMBDA s, t : BytesBefore(ToBytes(s), ToBytes(t))))

PutConstraint(w, con) == PutAll(w, <<con.a, con.b, con.c>>, PutCombination)

WriteConstraints(w, constraints) ==
    EndSection(PutAll(StartSection(w, SectionType.constraints), constraints, PutConstraint))

WriteHeader(w, d) ==
    LET number(v, field) == PutNumber(v, field[1], field[2])
    IN EndSection(PutAll(StartSection(w, SectionType.header),
           <<<<w.fieldSize, 4>>, <<d.field, w.fieldSize>>, <<d.wires, 4>>, <<d.outputs, 4>>,
             <<d.publics, 4>>, <<d.privates, 4>>, <<d.labels, 8>>, <<d.count, 4>>>>, number))

WriteSignals(w, signals) ==
    LET signal(v, s) == PutNumber(v, s, 8)
    IN EndSection(PutAll(StartSection(w, SectionType.wires), signals, signal))

\* Names end with a zero.
WriteGatesUsed(w, gates) ==
    LET parameter(v, p) == PutNumber(v, p, v.fieldSize)
        gate(v, g) == PutAll(PutNumber(Put(v, g.name \o <<0>>), Len(g.parameters), 4),
                             g.parameters, parameter)
    IN EndSection(PutAll(PutNumber(StartSection(w, SectionType.gatesUsed), Len(gates), 4), gates, gate))

WriteGatesApplied(w, applied) ==
    LET signal(v, s) == PutNumber(v, s, 8)
        gate(v, g) == PutAll(PutNumber(PutNumber(v, g.index, 4), Len(g.signals), 4), g.signals, signal)
    IN EndSection(PutAll(PutNumber(StartSection(w, SectionType.gatesApplied), Len(applied), 4), applied, gate))

\* The order in which both portings write the sections.
FileOf(d) ==
    LET plain == WriteSignals(WriteHeader(WriteConstraints(
                     Initialized(FieldSize(d.field), d.customGates), d.constraints), d), d.signals)
    IN IF d.customGates THEN WriteGatesApplied(WriteGatesUsed(plain, d.used), d.applied).bytes
       ELSE plain.bytes

---------------------------------------------------------------------------
(* The reader: [at, ok, got], got being what was read last *)

At(offset) == [at |-> offset, ok |-> TRUE, got |-> 0]

Take(file, r, n) ==
    IF r.ok /\ r.at + n <= Len(file)
    THEN [at |-> r.at + n, ok |-> TRUE, got |-> SubSeq(file, r.at + 1, r.at + n)]
    ELSE [r EXCEPT !.ok = FALSE, !.got = <<>>]

ReadNumber(file, r, width) ==
    LET taken == Take(file, r, width) IN [taken EXCEPT !.got = FromBytes(@)]

Expect(file, r, bytes) ==
    LET taken == Take(file, r, Len(bytes)) IN [taken EXCEPT !.ok = @ /\ taken.got = bytes]

\* n items in a row; each takes a byte at least, so that the file ends any count.
ReadMany(file, r, n, ReadOne(_)) ==
    LET next(acc, i) ==
            IF ~ acc.ok THEN acc
            ELSE LET one == ReadOne(acc) IN [one EXCEPT !.got = Append(acc.got, one.got)]
    IN FoldLeft(next, [r EXCEPT !.got = <<>>], [i \in 1..Min({n, Len(file) + 1}) |-> i])

\* A count, then as many items.
ReadCounted(file, r, ReadOne(_)) ==
    LET count == ReadNumber(file, r, 4) IN ReadMany(file, count, count.got, ReadOne)

Paired(id, value) == [value EXCEPT !.got = <<id.got, @>>]
ReadFactor(file, id, fieldSize) == Paired(id, ReadNumber(file, id, fieldSize))
AsMap(pairs) == [s \in {p[1] : p \in pairs} |-> (CHOOSE p \in pairs : p[1] = s)[2]]

ReadCombination(file, r, fieldSize) ==
    LET factor(q) == ReadFactor(file, ReadNumber(file, q, 4), fieldSize)
        read == ReadCounted(file, r, factor)
    IN [read EXCEPT !.got = AsMap(ToSet(@))]

ReadConstraint(file, r, fieldSize) ==
    LET combination(q) == ReadCombination(file, q, fieldSize)
        read == ReadMany(file, r, 3, combination)
        part(i) == IF read.ok THEN read.got[i] ELSE <<>>
    IN [read EXCEPT !.got = [a |-> part(1), b |-> part(2), c |-> part(3)]]

\* Past the type and the size of a section.
Enter(file, start, type) == Take(file, Expect(file, At(start), <<type, 0, 0, 0>>), Len(PlaceHolder))

ReadNumbers(file, r, widths) ==
    LET next(acc, width) == [ReadNumber(file, acc, width) EXCEPT !.got = Append(acc.got, @)]
    IN FoldLeft(next, [r EXCEPT !.got = <<>>], widths)

HeaderAfter(file, size) ==
    LET read == ReadNumbers(file, size, <<size.got, 4, 4, 4, 4, 8, 4>>)
    IN [read EXCEPT !.got =
           [fieldSize |-> size.got, field |-> @[1], wires |-> @[2], outputs |-> @[3],
            publics |-> @[4], privates |-> @[5], labels |-> @[6], count |-> @[7]]]

ReadHeader(file, start) ==
    HeaderAfter(file, ReadNumber(file, Enter(file, start, SectionType.header), 4))

ReadConstraints(file, start, h) ==
    LET con(q) == ReadConstraint(file, q, h.fieldSize)
    IN ReadMany(file, Enter(file, start, SectionType.constraints), h.count, con)

\* As many labels as there are wires.
ReadSignals(file, start, h) ==
    LET signal(q) == ReadNumber(file, q, 8)
    IN ReadMany(file, Enter(file, start, SectionType.wires), h.wires, signal)

ReadName(file, r) ==
    LET ends == {i \in (r.at + 1)..Len(file) : file[i] = 0}
    IN IF ~ r.ok \/ ends = {} THEN [r EXCEPT !.ok = FALSE, !.got = <<>>]
       ELSE Take(file, r, Min(ends) - r.at)

\* The terminator is no part of the name.
ReadGate(file, name, fieldSize) ==
    LET parameter(q) == ReadNumber(file, q, fieldSize)
    IN [ReadCounted(file, name, parameter) EXCEPT
           !.got = [name |-> SelectSeq(name.got, LAMBDA b : b # 0), parameters |-> @]]

ReadGatesUsed(file, start, h) ==
    LET gate(q) == ReadGate(file, ReadName(file, q), h.fieldSize)
    IN ReadCounted(file, Enter(file, start, SectionType.gatesUsed), gate)

ReadApplication(file, index) ==
    LET signal(q) == ReadNumber(file, q, 8)
    IN [ReadCounted(file, index, signal) EXCEPT !.got = [index |-> index.got, signals |-> @]]

ReadGatesApplied(file, start) ==
    LET gate(q) == ReadApplication(file, ReadNumber(file, q, 4))
    IN ReadCounted(file, Enter(file, start, SectionType.gatesApplied), gate)

\* Where each section starts: the size of one leads to the next.
StartAdded(starts, type, size, last) ==
    IF ~ size.ok \/ type.got[1] \notin 1..last THEN [starts EXCEPT !.ok = FALSE]
    ELSE [at |-> size.at + size.got, ok |-> starts.ok,
          got |-> [t \in DOMAIN starts.got \union {type.got[1]} |->
                      IF t = type.got[1] THEN starts.at ELSE starts.got[t]]]

StartsAfter(file, count) ==
    LET added(starts, type) == StartAdded(starts, type, ReadNumber(file, type, 8), count.got[1])
        next(starts, i) == added(starts, Take(file, starts, 4))
    IN IF ~ count.ok THEN count
       ELSE FoldLeft(next, [count EXCEPT !.got = <<>>], [i \in 1..count.got[1] |-> i])

SectionStarts(file) == StartsAfter(file, Take(file, Expect(file, Expect(file, At(0), Magic), Version), 4))

NoGates == [ok |-> TRUE, got |-> <<>>]
Failed == [ok |-> FALSE]

Assembled(h, cons, wires, gates, used, applied) ==
    IF ~ (cons.ok /\ wires.ok /\ used.ok /\ applied.ok) THEN Failed
    ELSE [ok |-> TRUE, header |-> h, constraints |-> cons.got, signals |-> wires.got,
          customGates |-> gates, used |-> used.got, applied |-> applied.got]

ReadSections(file, starts, gates, header) ==
    IF ~ header.ok THEN Failed
    ELSE Assembled(header.got, ReadConstraints(file, starts[2], header.got),
                   ReadSignals(file, starts[3], header.got), gates,
                   IF gates THEN ReadGatesUsed(file, starts[4], header.got) ELSE NoGates,
                   IF gates THEN ReadGatesApplied(file, starts[5]) ELSE NoGates)

\* What read_r1cs returns: an error without all the sections it needs.
ReadStarts(file, starts, gates) ==
    IF ~ starts.ok \/ ~ (IF gates THEN 1..5 ELSE 1..3) \subseteq DOMAIN starts.got THEN Failed
    ELSE ReadSections(file, starts.got, gates, ReadHeader(file, starts.got[1]))

ReadFile(file) == ReadStarts(file, SectionStarts(file), file[9] = 5)

\* What was given to the writer comes out of the reader.
ReadsBack(d, file) ==
    ReadFile(file) =
        [ok |-> TRUE,
         header |-> [fieldSize |-> FieldSize(d.field), field |-> d.field, wires |-> d.wires,
                     outputs |-> d.outputs, publics |-> d.publics, privates |-> d.privates,
                     labels |-> d.labels, count |-> d.count],
         constraints |-> d.constraints, signals |-> d.signals, customGates |-> d.customGates,
         used |-> d.used, applied |-> d.applied]
=============================================================================
