------------------------- MODULE FileReadingProofs -------------------------
(***************************************************************************)
(* For any files and any includes among them: the front end reads what the *)
(* main file leads to and nothing else, once, and rejects the project when *)
(* the pragma for custom templates is missing anywhere above them.         *)
(***************************************************************************)
EXTENDS FileReading, SequenceTheorems, TLAPS

Elements(s) == {s[i] : i \in 1 .. Len(s)}

-----------------------------------------------------------------------------
(* NotIn keeps the paths that are not known. *)

filterStart(p) == <<>>
filterStep(p, n, kept) == IF p.paths[n] \in p.known THEN kept ELSE Append(kept, p.paths[n])
Filter == INSTANCE Recursion WITH Start <- filterStart, Step <- filterStep

Filtering(kept, paths, known) ==
    /\ NotIn(paths, known) = kept[Len(paths)]
    /\ kept[0] = <<>>
    /\ \A n \in Nat : kept[n + 1] = IF paths[n + 1] \in known THEN kept[n]
                                    ELSE Append(kept[n], paths[n + 1])

LEMMA FilterValues ==
    ASSUME NEW paths, NEW known
    PROVE  \E kept : Filtering(kept, paths, known)
<1> DEFINE F(at) == [n \in Nat |-> IF n = 0 THEN <<>>
                                   ELSE IF paths[n] \in known THEN at[n - 1]
                                   ELSE Append(at[n - 1], paths[n])]
           value == CHOOSE at : at = F(at)
           p == [paths |-> paths, known |-> known]
<1>1. Filter!iterate(p) = F(Filter!iterate(p))
  BY Filter!Iterates DEF filterStart, filterStep
<1>2. value = F(value)
  BY <1>1
<1>3. NotIn(paths, known) = value[Len(paths)]
  BY DEF NotIn
<1> HIDE DEF value
<1>4. value[0] = <<>>
  BY <1>2
<1>5. ASSUME NEW n \in Nat
      PROVE  value[n + 1] = IF paths[n + 1] \in known THEN value[n]
                            ELSE Append(value[n], paths[n + 1])
  <2>1. \A m \in Nat : value[m] = IF m = 0 THEN <<>>
                                   ELSE IF paths[m] \in known THEN value[m - 1]
                                   ELSE Append(value[m - 1], paths[m])
    BY <1>2, Zenon
  <2>2. n + 1 \in Nat /\ n + 1 # 0 /\ (n + 1) - 1 = n
    OBVIOUS
  <2> QED BY <2>1, <2>2, Zenon
<1> WITNESS value
<1> QED BY <1>3, <1>4, <1>5 DEF Filtering

LEMMA Appended ==
    ASSUME NEW P, NEW old \in Seq(P), NEW x \in P
    PROVE  /\ Append(old, x) \in Seq(P) /\ Len(Append(old, x)) = Len(old) + 1
           /\ \A i \in 1 .. Len(old) : Append(old, x)[i] = old[i]
           /\ Append(old, x)[Len(old) + 1] = x
           /\ {Append(old, x)[i] : i \in 1 .. Len(Append(old, x))} =
                 {old[i] : i \in 1 .. Len(old)} \union {x}
<1>1. PICK new : new = Append(old, x)
  OBVIOUS
<1>2. /\ new \in Seq(P) /\ Len(new) = Len(old) + 1 /\ Len(old) \in Nat
      /\ \A i \in 1 .. Len(old) : new[i] = old[i]
      /\ new[Len(old) + 1] = x
  BY <1>1
<1>3. PICK n \in Nat : n = Len(old)
  BY <1>2
<1>4. 1 .. n + 1 = (1 .. n) \union {n + 1}
  OBVIOUS
<1>5. {new[i] : i \in 1 .. n + 1} = {new[i] : i \in 1 .. n} \union {new[n + 1]}
  BY <1>4
<1>6. {new[i] : i \in 1 .. n} = {old[i] : i \in 1 .. n}
  BY <1>2, <1>3
<1> QED BY <1>1, <1>2, <1>3, <1>5, <1>6

(* What is kept of the first n paths. *)
Keeps(P, kept, paths, n, known) ==
    kept \in Seq(P) /\ {kept[i] : i \in 1 .. Len(kept)} = {paths[k] : k \in 1 .. n} \ known

LEMMA KeepsMore ==
    ASSUME NEW P, NEW kept, NEW longer, NEW paths \in Seq(P), NEW n \in Nat, n + 1 <= Len(paths), NEW known,
           Keeps(P, kept, paths, n, known),
           longer = IF paths[n + 1] \in known THEN kept ELSE Append(kept, paths[n + 1])
    PROVE  Keeps(P, longer, paths, n + 1, known)
<1>1. kept \in Seq(P) /\ {kept[i] : i \in 1 .. Len(kept)} = {paths[k] : k \in 1 .. n} \ known
  BY DEF Keeps
<1>2. paths[n + 1] \in P
  OBVIOUS
<1>3. {paths[k] : k \in 1 .. n + 1} = {paths[k] : k \in 1 .. n} \union {paths[n + 1]}
  <2>1. 1 .. n + 1 = (1 .. n) \union {n + 1}
    OBVIOUS
  <2> QED BY <2>1
<1>4. CASE paths[n + 1] \in known
  <2>1. longer = kept
    BY <1>4
  <2> QED BY <1>1, <1>3, <1>4, <2>1 DEF Keeps
<1>5. CASE paths[n + 1] \notin known
  <2>1. longer = Append(kept, paths[n + 1])
    BY <1>5
  <2>2. longer \in Seq(P)
    BY <1>1, <1>2, <2>1, Appended
  <2>3. {longer[i] : i \in 1 .. Len(longer)} = {kept[i] : i \in 1 .. Len(kept)} \union {paths[n + 1]}
    BY <1>1, <1>2, <2>1, Appended
  <2> QED BY <1>1, <1>3, <1>5, <2>2, <2>3 DEF Keeps
<1> QED BY <1>4, <1>5

LEMMA Filtered ==
    ASSUME NEW P, NEW paths \in Seq(P), NEW known
    PROVE  NotIn(paths, known) \in Seq(P) /\ Elements(NotIn(paths, known)) = Elements(paths) \ known
<1>0. PICK kept : Filtering(kept, paths, known)
  BY FilterValues
<1>1. /\ NotIn(paths, known) = kept[Len(paths)]
      /\ kept[0] = <<>>
      /\ \A n \in Nat : kept[n + 1] = IF paths[n + 1] \in known THEN kept[n]
                                      ELSE Append(kept[n], paths[n + 1])
  BY <1>0, Zenon DEF Filtering
<1> DEFINE S == {n \in Nat : n <= Len(paths) => Keeps(P, kept[n], paths, n, known)}
<1>2. 0 \in S
  <2>1. Keeps(P, <<>>, paths, 0, known)
    BY DEF Keeps
  <2> QED BY <1>1, <2>1
<1>3. ASSUME NEW n \in Nat, n \in S PROVE n + 1 \in S
  <2> SUFFICES ASSUME n + 1 <= Len(paths) PROVE Keeps(P, kept[n + 1], paths, n + 1, known)
    OBVIOUS
  <2>1. Len(paths) \in Nat
    OBVIOUS
  <2>2. Keeps(P, kept[n], paths, n, known)
    BY <1>3, <2>1
  <2>3. kept[n + 1] = IF paths[n + 1] \in known THEN kept[n] ELSE Append(kept[n], paths[n + 1])
    BY <1>1
  <2> QED BY <2>2, <2>3, KeepsMore
<1> HIDE DEF S
<1>4. Nat \subseteq S
  BY <1>2, <1>3, Filter!Induction
<1>5. Keeps(P, kept[Len(paths)], paths, Len(paths), known)
  <2>1. Len(paths) \in Nat
    OBVIOUS
  <2> QED BY <1>4, <2>1 DEF S
<1>6. PICK last : last = kept[Len(paths)]
  OBVIOUS
<1>7. last \in Seq(P) /\ Elements(last) = Elements(paths) \ known
  BY <1>5, <1>6 DEF Keeps, Elements
<1> QED BY <1>1, <1>6, <1>7

-----------------------------------------------------------------------------
(* Where the includes of a file lead to. *)

LEMMA Leads ==
    ASSUME NEW at, NEW name, Places(at[1], name) # {}
    PROVE  /\ LeadsTo(at, name) = {Included(at[1], name)}
           /\ Included(at[1], name) \in DOMAIN project.files
<1> DEFINE P == Places(at[1], name)
           m == CHOOSE i \in P : \A j \in P : i <= j
<1>0. Len(Libraries) \in Nat
  BY FilesAssumption DEF IsList
<1>1. P \in SUBSET Nat /\ P \subseteq 0 .. Len(Libraries)
  BY <1>0 DEF Places
<1>2. \E i \in P : \A j \in P : i <= j
  BY <1>1, Filter!LeastNumber
<1>3. m \in P /\ \A j \in P : m <= j
  BY <1>2
<1>4. Included(at[1], name) = <<Directory(at[1], m), name>>
  BY DEF Included
<1> HIDE DEF m
<1>5. <<Directory(at[1], m), name>> \in DOMAIN project.files
  BY <1>3 DEF Places
<1>6. \A j \in 0 .. Len(Libraries) : <<Directory(at[1], j), name>> \in DOMAIN project.files => m <= j
  BY <1>3 DEF Places
<1>7. CASE m = 0
  <2>1. Directory(at[1], m) = at[1]
    BY <1>7 DEF Directory
  <2> QED BY <1>4, <1>5, <2>1 DEF LeadsTo
<1>8. CASE m # 0
  <2>1. m \in 1 .. Len(Libraries)
    BY <1>0, <1>1, <1>3, <1>8
  <2>2. \A j \in 1 .. Len(Libraries) : Directory(at[1], j) = Libraries[j]
    BY DEF Directory
  <2>3. <<at[1], name>> \notin DOMAIN project.files
    <3>1. 0 \in 0 .. Len(Libraries) /\ ~(m <= 0)
      BY <1>0, <2>1
    <3>2. Directory(at[1], 0) = at[1]
      BY DEF Directory
    <3> QED BY <1>6, <3>1, <3>2
  <2>4. <<Libraries[m], name>> \in DOMAIN project.files
    BY <1>5, <2>1, <2>2
  <2>5. \A j \in 1 .. m - 1 : <<Libraries[j], name>> \notin DOMAIN project.files
    <3> SUFFICES ASSUME NEW j \in 1 .. m - 1 PROVE <<Libraries[j], name>> \notin DOMAIN project.files
      OBVIOUS
    <3>1. j \in 1 .. Len(Libraries) /\ j \in 0 .. Len(Libraries) /\ ~(m <= j)
      BY <1>0, <2>1
    <3> QED BY <1>6, <2>2, <3>1
  <2>6. {k \in 1 .. Len(Libraries) : /\ <<Libraries[k], name>> \in DOMAIN project.files
                                     /\ \A j \in 1 .. k - 1 : <<Libraries[j], name>> \notin DOMAIN project.files}
        = {m}
    <3> SUFFICES ASSUME NEW k \in 1 .. Len(Libraries), k # m,
                        <<Libraries[k], name>> \in DOMAIN project.files,
                        \A j \in 1 .. k - 1 : <<Libraries[j], name>> \notin DOMAIN project.files
                 PROVE  FALSE
      BY <2>1, <2>4, <2>5
    <3>1. m \in 1 .. k - 1 \/ k \in 1 .. m - 1
      BY <1>0, <2>1
    <3> QED BY <2>4, <2>5, <3>1
  <2>7. LeadsTo(at, name) = {<<Libraries[l], name>> : l \in {m}}
    BY <2>3, <2>6 DEF LeadsTo
  <2> QED BY <1>4, <2>1, <2>2, <2>4, <2>7
<1> QED BY <1>7, <1>8

LEMMA TargetsExist == \A at : Targets(at) \subseteq DOMAIN project.files
<1> SUFFICES ASSUME NEW at, NEW name PROVE LeadsTo(at, name) \subseteq DOMAIN project.files
  BY DEF Targets
<1> QED BY DEF LeadsTo

LEMMA TargetsRead ==
    ASSUME project \in Projects, NEW path, Readable(path)
    PROVE  /\ IncludesOf(path) \in Seq(Paths)
           /\ DOMAIN IncludesOf(path) = 1 .. Len(IncludesOf(path))
           /\ {IncludesOf(path)[k] : k \in DOMAIN IncludesOf(path)} = {Canonical(at) : at \in Targets(path.at)}
<1> DEFINE names == project.files[path.at].includes
<1>1. Len(names) \in Nat /\ DOMAIN names = 1 .. Len(names)
  BY FilesAssumption DEF IsList, Readable
<1>2. \A k \in DOMAIN names : Places(path.at[1], names[k]) # {}
  BY DEF Readable, File
<1>3. \A k \in DOMAIN names : /\ LeadsTo(path.at, names[k]) = {Included(path.at[1], names[k])}
                              /\ Included(path.at[1], names[k]) \in DOMAIN project.files
  BY <1>2, Leads
<1>4. IncludesOf(path) = [k \in 1 .. Len(names) |-> Canonical(Included(path.at[1], names[k]))]
  BY <1>1 DEF IncludesOf, File
<1>5. \A k \in 1 .. Len(names) : Canonical(Included(path.at[1], names[k])) \in Paths
  BY <1>1, <1>3 DEF Paths
<1>6. Targets(path.at) = {Included(path.at[1], names[k]) : k \in 1 .. Len(names)}
  <2>1. \A x : x \in Targets(path.at) <=> \E k \in 1 .. Len(names) : x \in LeadsTo(path.at, names[k])
    BY <1>1 DEF Targets
  <2>2. \A k \in 1 .. Len(names) : \A x : x \in LeadsTo(path.at, names[k]) <=> x = Included(path.at[1], names[k])
    BY <1>1, <1>3
  <2> HIDE DEF names
  <2>3. \A x : x \in Targets(path.at) <=> \E k \in 1 .. Len(names) : x = Included(path.at[1], names[k])
    BY <2>1, <2>2, Zenon
  <2> QED BY <2>3
<1> HIDE DEF names
<1>7. IncludesOf(path) \in Seq(Paths) /\ Len(IncludesOf(path)) = Len(names)
  BY <1>1, <1>4, <1>5
<1> QED BY <1>4, <1>6, <1>7

-----------------------------------------------------------------------------
(* What a set of files leads to. *)

LEMMA Leading ==
    ASSUME NEW ats
    PROVE  /\ IncludedBy(ats) \subseteq DOMAIN project.files
           /\ ats \subseteq DOMAIN project.files => ats \subseteq IncludedBy(ats)
           /\ Closed(IncludedBy(ats))
           /\ \A S \in SUBSET DOMAIN project.files : ats \subseteq S /\ Closed(S) => IncludedBy(ats) \subseteq S
<1>1. ASSUME NEW at \in IncludedBy(ats), NEW target \in Targets(at)
      PROVE  target \in IncludedBy(ats)
  <2>1. target \in DOMAIN project.files
    BY TargetsExist
  <2>2. ASSUME NEW S \in SUBSET DOMAIN project.files, ats \subseteq S, Closed(S)
        PROVE  target \in S
    <3>1. at \in S
      BY <2>2 DEF IncludedBy
    <3> QED BY <2>2, <3>1 DEF Closed
  <2> QED BY <2>1, <2>2 DEF IncludedBy
<1>2. Closed(IncludedBy(ats))
  BY <1>1 DEF Closed
<1> QED BY <1>2 DEF IncludedBy

LEMMA SameProject ==
    ASSUME project' = project
    PROVE  /\ \A at : Targets(at)' = Targets(at)
           /\ \A ats : IncludedBy(ats)' = IncludedBy(ats)
<1>1. \A at : Targets(at)' = Targets(at)
  BY DEF Targets, LeadsTo
<1>2. \A ats : Closed(ats)' <=> Closed(ats)
  BY <1>1 DEF Closed
<1>3. \A ats : IncludedBy(ats)' = IncludedBy(ats)
  BY <1>2 DEF IncludedBy
<1> QED BY <1>1, <1>3

-----------------------------------------------------------------------------
(* Reading a file. *)

LEMMA Joined ==
    ASSUME NEW P, NEW s \in Seq(P), NEW t \in Seq(P)
    PROVE  s \o t \in Seq(P) /\ Elements(s \o t) = Elements(s) \union Elements(t)
<1>1. PICK n \in Nat, l \in Nat : n = Len(s) /\ l = Len(t)
  OBVIOUS
<1>2. PICK all : all = s \o t
  OBVIOUS
<1>3. /\ all \in Seq(P) /\ Len(all) = n + l
      /\ \A i \in 1 .. n + l : all[i] = IF i <= n THEN s[i] ELSE t[i - n]
  BY <1>1, <1>2, ConcatProperties
<1>4. \A i \in 1 .. n : i \in 1 .. n + l /\ all[i] = s[i]
  BY <1>3
<1>5. \A i \in 1 .. l : n + i \in 1 .. n + l /\ all[n + i] = t[i]
  <2>1. \A i \in 1 .. l : n + i \in 1 .. n + l /\ ~(n + i <= n) /\ (n + i) - n = i
    OBVIOUS
  <2> QED BY <1>3, <2>1
<1>6. \A i \in 1 .. n + l : all[i] \in {s[k] : k \in 1 .. n} \union {t[k] : k \in 1 .. l}
  <2> SUFFICES ASSUME NEW i \in 1 .. n + l
               PROVE  all[i] \in {s[k] : k \in 1 .. n} \union {t[k] : k \in 1 .. l}
    OBVIOUS
  <2>1. CASE i <= n
    BY <1>3, <2>1
  <2>2. CASE i > n
    <3>1. i - n \in 1 .. l /\ ~(i <= n)
      BY <2>2
    <3>2. all[i] = t[i - n]
      BY <1>3, <3>1
    <3> QED BY <3>1, <3>2
  <2> QED BY <2>1, <2>2
<1>7. {all[i] : i \in 1 .. n + l} = {s[i] : i \in 1 .. n} \union {t[i] : i \in 1 .. l}
  <2>1. {all[i] : i \in 1 .. n + l} \subseteq {s[i] : i \in 1 .. n} \union {t[i] : i \in 1 .. l}
    BY <1>6
  <2>2. {s[i] : i \in 1 .. n} \subseteq {all[i] : i \in 1 .. n + l}
    BY <1>4
  <2>3. {t[i] : i \in 1 .. l} \subseteq {all[i] : i \in 1 .. n + l}
    BY <1>5
  <2> QED BY <2>1, <2>2, <2>3
<1>8. Elements(all) = Elements(s) \union Elements(t)
  BY <1>1, <1>3, <1>7 DEF Elements
<1> QED BY <1>2, <1>3, <1>8

LEMMA Beginning ==
    ASSUME NEW P, NEW s \in Seq(P), NEW n \in 0 .. Len(s)
    PROVE  SubSeq(s, 1, n) \in Seq(P) /\ Elements(SubSeq(s, 1, n)) = {s[i] : i \in 1 .. n}
<1>1. PICK start : start = SubSeq(s, 1, n)
  OBVIOUS
<1>2. start \in Seq(P) /\ Len(start) = n /\ \A i \in 1 .. n : start[i] = s[i]
  BY <1>1
<1>3. Elements(start) = {s[i] : i \in 1 .. n}
  BY <1>2 DEF Elements
<1> QED BY <1>1, <1>2, <1>3

Taken(path) ==
    /\ project' = project /\ phase' = phase
    /\ path \in Waiting /\ path \notin seen /\ path \in Paths
    /\ path.at \in DOMAIN project.files
    /\ stack' \in Seq(Paths) /\ read' \in Seq(Paths)
    /\ seen' = seen \union {path}
    /\ Waiting' \union seen' = Waiting \union seen \union {Canonical(at) : at \in Targets(path.at)}
    /\ Len(read') = Len(read) + 1 /\ read'[Len(read) + 1] = path
    /\ \A i \in 1 .. Len(read) : read'[i] = read[i]
    /\ edges' = edges \union {<<Canonical(at), Len(read) + 1>> : at \in Targets(path.at)}

LEMMA TakeEffect ==
    ASSUME ReadingTypeOK, NEW top \in Unread, \A i \in Unread : i <= top,
           Readable(stack[top]), Take(top, stack[top])
    PROVE  Taken(stack[top])
<1> DEFINE path == stack[top]
           inc == IncludesOf(path)
           pushed == NotIn(inc, seen')
<1>0. /\ project \in Projects /\ stack \in Seq(Paths) /\ read \in Seq(Paths)
      /\ Len(stack) \in Nat /\ top \in 1 .. Len(stack)
      /\ path \in Paths /\ path \in Waiting /\ path \notin seen
  BY DEF ReadingTypeOK, Unread, Waiting
<1>1. /\ inc \in Seq(Paths)
      /\ DOMAIN inc = 1 .. Len(inc)
      /\ {inc[k] : k \in DOMAIN inc} = {Canonical(at) : at \in Targets(path.at)}
  BY <1>0, TargetsRead
<1>2. /\ seen' = seen \union {path}
      /\ read' = Append(read, path)
      /\ edges' = edges \union {<<inc[k], Len(read) + 1>> : k \in DOMAIN inc}
      /\ stack' = SubSeq(stack, 1, top - 1) \o pushed
      /\ project' = project /\ phase' = phase
  BY DEF Take
<1>3. path.at \in DOMAIN project.files
  BY DEF Readable
<1> HIDE DEF inc
<1>4. pushed \in Seq(Paths) /\ Elements(pushed) = Elements(inc) \ seen'
  BY <1>1, Filtered
<1> HIDE DEF pushed
<1>5. /\ stack' \in Seq(Paths)
      /\ Waiting' = {stack[i] : i \in 1 .. top - 1} \union Elements(pushed)
  <2>1. top - 1 \in 0 .. Len(stack)
    BY <1>0
  <2>2. Waiting' = {stack'[i] : i \in 1 .. Len(stack')}
    BY DEF Waiting
  <2>3. /\ SubSeq(stack, 1, top - 1) \in Seq(Paths)
        /\ Elements(SubSeq(stack, 1, top - 1)) = {stack[i] : i \in 1 .. top - 1}
    BY <1>0, <2>1, Beginning
  <2>4. PICK start : start = SubSeq(stack, 1, top - 1)
    OBVIOUS
  <2>5. start \in Seq(Paths) /\ Elements(start) = {stack[i] : i \in 1 .. top - 1}
    BY <2>3, <2>4
  <2>6. start \o pushed \in Seq(Paths) /\ Elements(start \o pushed) = Elements(start) \union Elements(pushed)
    BY <1>4, <2>5, Joined
  <2>7. Waiting' = Elements(stack')
    BY <2>2 DEF Elements
  <2>8. stack' = start \o pushed
    BY <1>2, <2>4
  <2> QED BY <2>5, <2>6, <2>7, <2>8, Zenon
<1>6. Waiting \subseteq {stack[i] : i \in 1 .. top - 1} \union seen'
  <2> SUFFICES ASSUME NEW i \in 1 .. Len(stack), stack[i] \notin seen'
               PROVE  i \in 1 .. top - 1
    BY DEF Waiting
  <2>1. i \in Unread /\ i # top
    BY <1>2 DEF Unread
  <2> QED BY <1>0, <2>1
<1>7. {stack[i] : i \in 1 .. top - 1} \subseteq Waiting
  <2>1. 1 .. top - 1 \subseteq 1 .. Len(stack)
    BY <1>0
  <2> QED BY <2>1 DEF Waiting
<1>8. Waiting' \union seen' = Waiting \union seen \union {Canonical(at) : at \in Targets(path.at)}
  <2>1. Elements(inc) = {Canonical(at) : at \in Targets(path.at)}
    BY <1>1 DEF Elements
  <2>2. Waiting' = {stack[i] : i \in 1 .. top - 1} \union ({Canonical(at) : at \in Targets(path.at)} \ seen')
    BY <1>4, <1>5, <2>1
  <2> QED BY <1>0, <1>2, <1>6, <1>7, <2>2
<1>9. /\ read' \in Seq(Paths) /\ Len(read') = Len(read) + 1 /\ read'[Len(read) + 1] = path
      /\ \A i \in 1 .. Len(read) : read'[i] = read[i]
  BY <1>0, <1>2
<1>10. {<<inc[k], Len(read) + 1>> : k \in DOMAIN inc} = {<<Canonical(at), Len(read) + 1>> : at \in Targets(path.at)}
  BY <1>1
<1> QED BY <1>0, <1>2, <1>3, <1>5, <1>8, <1>9, <1>10 DEF Taken

(* Every part of the invariant after it. *)
LEMMA TakenKeeps ==
    ASSUME ReadingInv, NEW path, Taken(path), phase = "reading"
    PROVE  ReadingInv'
<1> DEFINE n == Len(read)
<1>0. /\ ReadingTypeOK /\ ReadOnce /\ FromMain /\ NothingLost /\ EdgesRight
      /\ read \in Seq(Paths) /\ n \in Nat /\ DOMAIN read = 1 .. n
  BY DEF ReadingInv, ReadingTypeOK
<1>1. /\ project' = project /\ phase' = phase
      /\ stack' \in Seq(Paths) /\ read' \in Seq(Paths) /\ DOMAIN read' = 1 .. n + 1
      /\ read'[n + 1] = path /\ \A i \in 1 .. n : read'[i] = read[i]
  BY <1>0 DEF Taken
<1>2. /\ \A at : Targets(at)' = Targets(at)
      /\ \A ats : IncludedBy(ats)' = IncludedBy(ats)
  BY <1>1, SameProject
<1>3. 1 .. n + 1 = (1 .. n) \union {n + 1} /\ n + 1 \notin 1 .. n
  BY <1>0
<1>4. ReadingTypeOK'
  <2>1. Paths' = Paths
    BY <1>1 DEF Paths, Given
  <2> QED BY <1>0, <1>1, <2>1 DEF ReadingTypeOK
<1>5. ReadOnce'
  <2>1. {read'[i] : i \in 1 .. n + 1} = {read[i] : i \in 1 .. n} \union {path}
    BY <1>1, <1>3
  <2>2. seen' = {read'[i] : i \in DOMAIN read'}
    BY <1>0, <1>1, <2>1 DEF ReadOnce, Taken
  <2>3. \A i \in 1 .. n : read[i] # path
    BY <1>0 DEF ReadOnce, Taken
  <2>4. \A i, j \in DOMAIN read' : read'[i] = read'[j] => i = j
    BY <1>0, <1>1, <1>3, <2>3 DEF ReadOnce
  <2>5. \A i \in DOMAIN read' : read'[i].at \in DOMAIN project'.files
    BY <1>0, <1>1, <1>3 DEF ReadOnce, Taken
  <2> QED BY <2>2, <2>4, <2>5 DEF ReadOnce
<1>6. FromMain'
  <2>1. path.at \in IncludedBy({project.main})
    <3>1. CASE path = Given(project.main)
      <4>1. {project.main} \subseteq DOMAIN project.files
        BY <3>1 DEF Taken, Given
      <4> QED BY <3>1, <4>1, Leading DEF Given
    <3>2. CASE \E at \in IncludedBy({project.main}) : path = Canonical(at)
      BY <3>2 DEF Canonical
    <3> QED BY <1>0, <3>1, <3>2 DEF FromMain, Taken
  <2>2. Targets(path.at) \subseteq IncludedBy({project.main})
    <3>1. Closed(IncludedBy({project.main}))
      BY Leading
    <3> QED BY <2>1, <3>1 DEF Closed
  <2>3. \A other \in Waiting' \union seen' :
           \/ other = Given(project.main)
           \/ \E at \in IncludedBy({project.main}) : other = Canonical(at)
    BY <1>0, <2>2 DEF FromMain, Taken
  <2>4. Given(project.main)' = Given(project.main) /\ \A at : Canonical(at)' = Canonical(at)
    BY <1>1 DEF Given, Canonical
  <2>5. IncludedBy({project.main})' = IncludedBy({project.main})
    BY <1>1, <1>2 DEF IncludedBy, Closed
  <2> QED BY <2>3, <2>4, <2>5 DEF FromMain
<1>7. NothingLost'
  <2>1. Given(project.main)' \in Waiting' \union seen'
    BY <1>0, <1>1 DEF NothingLost, Taken, Given
  <2>2. ASSUME NEW i \in 1 .. n + 1, NEW at \in Targets(read'[i].at)
        PROVE  Canonical(at) \in Waiting' \union seen'
    <3>1. CASE i \in 1 .. n
      <4>1. Canonical(at) \in Waiting \union seen
        BY <1>0, <1>1, <2>2, <3>1 DEF NothingLost
      <4> QED BY <4>1 DEF Taken
    <3>2. CASE i = n + 1
      <4>1. at \in Targets(path.at)
        BY <1>1, <2>2, <3>2
      <4> QED BY <4>1 DEF Taken
    <3> QED BY <1>3, <3>1, <3>2
  <2>3. \A i \in DOMAIN read' : \A at \in Targets(read'[i].at) : Canonical(at) \in Waiting' \union seen'
    BY <1>1, <2>2
  <2>4. \A i : Targets(read[i].at)' = Targets(read'[i].at)
    BY <1>1 DEF Targets, LeadsTo
  <2>5. \A at : Canonical(at)' = Canonical(at)
    BY DEF Canonical
  <2> QED BY <2>1, <2>3, <2>4, <2>5 DEF NothingLost
<1>8. EdgesRight'
  <2> DEFINE from(at, i) == {<<Canonical(x), i>> : x \in Targets(at)}
  <2>1. edges = UNION {from(read[i].at, i) : i \in 1 .. n}
    BY <1>0 DEF EdgesRight
  <2>2. edges' = edges \union from(path.at, n + 1)
    BY DEF Taken
  <2> HIDE DEF from
  <2>3. edges' = UNION {from(read'[i].at, i) : i \in 1 .. n + 1}
    BY <1>1, <1>3, <2>1, <2>2
  <2> USE DEF from
  <2>4. edges' = UNION {{<<Canonical(x), i>> : x \in Targets(read'[i].at)} : i \in DOMAIN read'}
    BY <1>1, <2>3
  <2>5. \A i : Targets(read[i].at)' = Targets(read'[i].at)
    BY <1>1 DEF Targets, LeadsTo
  <2>6. \A x : Canonical(x)' = Canonical(x)
    BY DEF Canonical
  <2> QED BY <2>4, <2>5, <2>6 DEF EdgesRight
<1>9. Merging'
  BY <1>1 DEF Merging
<1> QED BY <1>4, <1>5, <1>6, <1>7, <1>8, <1>9 DEF ReadingInv

LEMMA InitHolds == ReadingInit => ReadingInv
<1> SUFFICES ASSUME ReadingInit PROVE ReadingInv
  OBVIOUS
<1> DEFINE given == Given(project.main)
<1>1. /\ project \in Projects /\ stack = <<given>>
      /\ seen = {} /\ read = <<>> /\ edges = {} /\ phase = "reading"
  BY DEF ReadingInit
<1>2. given \in Paths
  BY DEF Paths
<1> HIDE DEF given
<1>3. stack \in Seq(Paths) /\ read \in Seq(Paths) /\ Len(stack) = 1 /\ stack[1] = given
  BY <1>1, <1>2
<1>4. Waiting = {given}
  BY <1>3 DEF Waiting
<1>5. DOMAIN read = {}
  BY <1>1
<1>6. ReadingTypeOK
  BY <1>1, <1>3 DEF ReadingTypeOK
<1>7. ReadOnce
  BY <1>1, <1>5 DEF ReadOnce
<1>8. FromMain /\ NothingLost
  BY <1>1, <1>4, <1>5 DEF FromMain, NothingLost, given
<1>9. EdgesRight
  BY <1>1, <1>5 DEF EdgesRight
<1>10. Merging
  BY <1>1 DEF Merging
<1> QED BY <1>6, <1>7, <1>8, <1>9, <1>10 DEF ReadingInv

(* The files of a state decide every part but Merging. *)
LEMMA FilesKept ==
    ASSUME ReadingInv, UNCHANGED files,
           phase' \notin {"reading", "rejected"} => Unread = {} /\ ~PragmaMissing
    PROVE  ReadingInv'
<1>1. /\ project' = project /\ stack' = stack /\ seen' = seen
      /\ read' = read /\ edges' = edges
  BY DEF files
<1>2. ReadingTypeOK'
  BY <1>1 DEF ReadingInv, ReadingTypeOK, Paths, Given, Canonical
<1>3. ReadOnce'
  BY <1>1 DEF ReadingInv, ReadOnce
<1>4. Waiting' = Waiting /\ Unread' = Unread
  BY <1>1 DEF Waiting, Unread
<1>5. FromMain'
  <2>1. IncludedBy({project.main})' = IncludedBy({project.main})
    BY <1>1 DEF IncludedBy, Closed, Targets, LeadsTo
  <2>2. Given(project.main)' = Given(project.main) /\ \A at : Canonical(at)' = Canonical(at)
    BY <1>1 DEF Given, Canonical
  <2> QED BY <1>1, <1>4, <2>1, <2>2 DEF ReadingInv, FromMain
<1>6. \A i : Targets(read[i].at)' = Targets(read[i].at)
  BY <1>1 DEF Targets, LeadsTo
<1>7. NothingLost'
  BY <1>1, <1>4, <1>6 DEF ReadingInv, NothingLost, Given, Canonical
<1>8. EdgesRight'
  BY <1>1, <1>6 DEF ReadingInv, EdgesRight, Canonical
<1>9. PragmaMissing' = PragmaMissing
  BY <1>1 DEF PragmaMissing, Traversed, IncludersIn, CustomGatesNodes, UsesCustomGates, File
<1>10. Merging'
  BY <1>4, <1>9 DEF Merging
<1> QED BY <1>2, <1>3, <1>5, <1>7, <1>8, <1>10 DEF ReadingInv

(* ReadingInv is inductive: what is known comes from the main file, what a     *)
(* file leads to is read or waits, and nothing is merged before all is read.   *)
THEOREM ReadingInvariance == ReadingSpec => []ReadingInv
<1>1. ASSUME ReadingInv, [ReadFile \/ EndReading \/ LaterPhase]_<<files, phase>>
      PROVE  ReadingInv'
  <2>1. CASE ReadFile
    <3>1. PICK top \in Unread : /\ \A i \in Unread : i <= top
                                /\ IF Readable(stack[top]) THEN Take(top, stack[top])
                                   ELSE phase' = "rejected" /\ UNCHANGED files
      BY <2>1 DEF ReadFile
    <3>2. CASE Readable(stack[top])
      <4>1. Taken(stack[top])
        BY <1>1, <3>1, <3>2, TakeEffect DEF ReadingInv
      <4> QED BY <1>1, <2>1, <4>1, TakenKeeps DEF ReadFile
    <3>3. CASE ~Readable(stack[top])
      BY <1>1, <3>1, <3>3, FilesKept
    <3> QED BY <3>2, <3>3
  <2>2. CASE EndReading
    <3>1. UNCHANGED files /\ Unread = {}
      BY <2>2 DEF EndReading
    <3>2. phase' # "rejected" => ~PragmaMissing
      BY <2>2 DEF EndReading, FilesAccepted
    <3> QED BY <1>1, <3>1, <3>2, FilesKept
  <2>3. CASE LaterPhase
    <3>1. UNCHANGED files /\ Unread = {} /\ ~PragmaMissing
      BY <1>1, <2>3 DEF LaterPhase, ReadingInv, Merging
    <3> QED BY <1>1, <3>1, FilesKept
  <2>4. CASE UNCHANGED <<files, phase>>
    <3>1. UNCHANGED files /\ phase' = phase
      BY <2>4
    <3>2. phase' \notin {"reading", "rejected"} => Unread = {} /\ ~PragmaMissing
      BY <1>1, <3>1 DEF ReadingInv, Merging
    <3> QED BY <1>1, <3>1, <3>2, FilesKept
  <2> QED BY <1>1, <2>1, <2>2, <2>3, <2>4
<1> QED BY <1>1, InitHolds, PTL DEF ReadingSpec

-----------------------------------------------------------------------------
(* What is above the custom templates. *)

LEMMA Above ==
    ASSUME NEW nodes, nodes \subseteq DOMAIN read, \A e \in edges : e[2] \in DOMAIN read
    PROVE  /\ Traversed(nodes) \subseteq DOMAIN read
           /\ nodes \subseteq Traversed(nodes)
           /\ IncludersIn(Traversed(nodes))
           /\ \A S \in SUBSET DOMAIN read : nodes \subseteq S /\ IncludersIn(S) => Traversed(nodes) \subseteq S
<1>1. ASSUME NEW e \in edges, NEW i \in Traversed(nodes), e[1] = read[i]
      PROVE  e[2] \in Traversed(nodes)
  <2>1. ASSUME NEW S \in SUBSET DOMAIN read, nodes \subseteq S, IncludersIn(S)
        PROVE  e[2] \in S
    <3>1. i \in S
      BY <2>1 DEF Traversed
    <3> QED BY <1>1, <2>1, <3>1 DEF IncludersIn
  <2> QED BY <2>1 DEF Traversed
<1>2. IncludersIn(Traversed(nodes))
  BY <1>1 DEF IncludersIn
<1> QED BY <1>2 DEF Traversed

(* Both readings of the main file are above the same files. *)
LEMMA SameAbove ==
    ASSUME EdgesRight,
           NEW i \in Traversed(CustomGatesNodes), NEW j \in DOMAIN read, read[i].at = read[j].at
    PROVE  j \in Traversed(CustomGatesNodes)
<1> DEFINE T == Traversed(CustomGatesNodes)
           S == {n \in T : \A m \in DOMAIN read : read[m].at = read[n].at => m \in T}
<1>1. \A n \in DOMAIN read : \A x \in Targets(read[n].at) : <<Canonical(x), n>> \in edges
  BY DEF EdgesRight
<1>2. \A e \in edges : \E n \in DOMAIN read : \E x \in Targets(read[n].at) : e = <<Canonical(x), n>>
  BY DEF EdgesRight
<1>3. /\ T \subseteq DOMAIN read /\ CustomGatesNodes \subseteq T /\ IncludersIn(T)
      /\ \A U \in SUBSET DOMAIN read : CustomGatesNodes \subseteq U /\ IncludersIn(U) => T \subseteq U
  <2>1. \A e \in edges : e[2] \in DOMAIN read
    BY <1>2
  <2>2. CustomGatesNodes \subseteq DOMAIN read
    BY DEF CustomGatesNodes
  <2> QED BY <2>1, <2>2, Above
<1> HIDE DEF T
<1>4. CustomGatesNodes \subseteq S
  BY <1>3 DEF CustomGatesNodes, File
<1>5. IncludersIn(S)
  <2> SUFFICES ASSUME NEW e \in edges, NEW n \in S, e[1] = read[n] PROVE e[2] \in S
    BY DEF IncludersIn
  <2>1. PICK user \in DOMAIN read : \E x \in Targets(read[user].at) : e = <<Canonical(x), user>>
    BY <1>2
  <2>2. PICK x \in Targets(read[user].at) : e = <<Canonical(x), user>>
    BY <2>1
  <2>3. read[n] = Canonical(x) /\ e[2] = user
    BY <2>2
  <2>4. ASSUME NEW m \in DOMAIN read, read[m].at = read[user].at PROVE m \in T
    <3>1. <<Canonical(x), m>> \in edges
      BY <1>1, <2>2, <2>4
    <3>2. <<Canonical(x), m>>[1] = read[n] /\ <<Canonical(x), m>>[2] = m
      BY <2>3
    <3> QED BY <1>3, <3>1, <3>2 DEF IncludersIn
  <2> QED BY <2>3, <2>4
<1>6. T \subseteq S
  BY <1>3, <1>4, <1>5
<1> QED BY <1>6 DEF T

(* The invariant says what was read when it is over. *)
LEMMA ReadingOver == ReadingInv => IncludesClosed
<1> DEFINE ats == {read[i].at : i \in DOMAIN read}
           main == project.main
<1> SUFFICES ASSUME ReadingInv, phase \notin {"reading", "rejected"}
             PROVE  /\ ats = IncludedBy({main})
                    /\ \A i, j \in DOMAIN read : read[i].at = read[j].at /\ i # j => read[i].at = main
                    /\ \A at, user \in ats :
                          user \in IncludedBy({at}) /\ UsesCustomGates(project.files[user])
                             => project.files[at].pragma
  BY DEF IncludesClosed
<1>1. /\ ReadOnce /\ FromMain /\ NothingLost /\ EdgesRight /\ Unread = {} /\ ~PragmaMissing
  BY DEF ReadingInv, Merging
<1>2. Waiting \subseteq seen
  BY <1>1 DEF Waiting, Unread
<1>3. /\ \A path \in seen : \E i \in DOMAIN read : read[i] = path
      /\ \A i \in DOMAIN read : read[i] \in seen
  BY <1>1 DEF ReadOnce
<1>4. ats \subseteq DOMAIN project.files
  BY <1>1 DEF ReadOnce
<1>5. main \in ats
  <2>1. PICK i \in DOMAIN read : read[i] = Given(main)
    BY <1>1, <1>2, <1>3 DEF NothingLost
  <2>2. read[i].at = main
    BY <2>1 DEF Given
  <2> QED BY <2>2
<1>6. \A i \in DOMAIN read : \A at \in Targets(read[i].at) : \E j \in DOMAIN read : read[j] = Canonical(at)
  BY <1>1, <1>2, <1>3 DEF NothingLost
<1>7. Closed(ats)
  <2> SUFFICES ASSUME NEW i \in DOMAIN read, NEW at \in Targets(read[i].at) PROVE at \in ats
    BY DEF Closed
  <2>1. PICK j \in DOMAIN read : read[j] = Canonical(at)
    BY <1>6
  <2>2. read[j].at = at
    BY <2>1 DEF Canonical
  <2> QED BY <2>2
<1>8. ats = IncludedBy({main})
  <2>1. IncludedBy({main}) \subseteq ats
    BY <1>4, <1>5, <1>7, Leading
  <2>2. main \in IncludedBy({main})
    BY <1>4, <1>5, Leading
  <2>3. ASSUME NEW i \in DOMAIN read PROVE read[i].at \in IncludedBy({main})
    <3>1. \/ read[i] = Given(main)
          \/ \E at \in IncludedBy({main}) : read[i] = Canonical(at)
      BY <1>1, <1>3 DEF FromMain
    <3> QED BY <2>2, <3>1 DEF Given, Canonical
  <2> QED BY <2>1, <2>3
<1>9. ASSUME NEW i \in DOMAIN read, NEW j \in DOMAIN read, read[i].at = read[j].at, i # j
      PROVE  read[i].at = main
  <2>1. \A k \in DOMAIN read : read[k] = Given(main) \/ \E at : read[k] = Canonical(at)
    BY <1>1, <1>3 DEF FromMain
  <2>2. \A k \in DOMAIN read : read[k].at = main \/ read[k] = Canonical(read[k].at)
    BY <2>1 DEF Given, Canonical
  <2>3. read[i] # read[j]
    BY <1>1, <1>9 DEF ReadOnce
  <2> QED BY <1>9, <2>2, <2>3
<1>10. ASSUME NEW at \in ats, NEW user \in ats,
              user \in IncludedBy({at}), UsesCustomGates(project.files[user]),
              ~project.files[at].pragma
       PROVE  FALSE
  <2> DEFINE T == Traversed(CustomGatesNodes)
             S == {x \in ats : \A i \in DOMAIN read : read[i].at = x => i \notin T}
  <2>1. \A n \in DOMAIN read : \A x \in Targets(read[n].at) : <<Canonical(x), n>> \in edges
    BY <1>1 DEF EdgesRight
  <2>2. CustomGatesNodes \subseteq T /\ IncludersIn(T) /\ T \subseteq DOMAIN read
    <3>1. \A e \in edges : e[2] \in DOMAIN read
      BY <1>1 DEF EdgesRight
    <3>2. CustomGatesNodes \subseteq DOMAIN read
      BY DEF CustomGatesNodes
    <3> QED BY <3>1, <3>2, Above
  <2>3. \A i \in T : \A j \in DOMAIN read : read[i].at = read[j].at => j \in T
    BY <1>1, SameAbove
  <2>4. \A i \in T : project.files[read[i].at].pragma
    BY <1>1 DEF PragmaMissing, File
  <2> HIDE DEF T
  <2>5. at \in S
    BY <1>10, <2>4
  <2>6. Closed(S)
    <3> SUFFICES ASSUME NEW i \in DOMAIN read, read[i].at \in S, NEW x \in Targets(read[i].at)
                 PROVE  x \in S
      BY DEF Closed
    <3>1. x \in ats
      BY <1>7 DEF Closed
    <3>2. ASSUME NEW j \in DOMAIN read, read[j].at = x, j \in T PROVE FALSE
      <4>1. PICK k \in DOMAIN read : read[k] = Canonical(x)
        BY <1>6
      <4>2. read[k].at = read[j].at
        BY <3>2, <4>1 DEF Canonical
      <4>3. k \in T
        BY <2>3, <3>2, <4>2
      <4>4. <<Canonical(x), i>> \in edges
        BY <2>1
      <4>5. <<Canonical(x), i>>[1] = read[k] /\ <<Canonical(x), i>>[2] = i
        BY <4>1
      <4>6. i \in T
        BY <2>2, <4>3, <4>4, <4>5 DEF IncludersIn
      <4> QED BY <4>6
    <3> QED BY <3>1, <3>2
  <2>7. user \in S
    <3>1. S \in SUBSET DOMAIN project.files /\ {at} \subseteq S
      BY <1>4, <2>5
    <3> HIDE DEF S
    <3> QED BY <1>10, <2>6, <3>1, Leading
  <2>8. PICK i \in DOMAIN read : read[i].at = user
    OBVIOUS
  <2>9. i \in CustomGatesNodes
    BY <1>10, <2>8 DEF CustomGatesNodes, File
  <2> QED BY <2>2, <2>7, <2>8, <2>9
<1> QED BY <1>8, <1>9, <1>10

(* For any files and includes among them: what is merged is what the main file *)
(* leads to, each file read once, and the pragma is not missing above a custom *)
(* template.                                                                   *)
THEOREM IncludesClosedHolds == ReadingSpec => []IncludesClosed
<1>1. ReadingInv => IncludesClosed
  BY ReadingOver
<1> QED BY <1>1, ReadingInvariance, PTL
=============================================================================
