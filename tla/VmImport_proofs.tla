--------------------------- MODULE VmImport_proofs ---------------------------
(* Theorems about `charly vm import`, for any domains, entry names and number *)
(* of commands and edits.                                                     *)
EXTENDS VmImport, TLAPS

LEMMA Bounds == MaxCommands \in Nat /\ MaxEdits \in Nat
BY ImportAssumption

LEMMA StripNames == Strip \in [Domains -> Names]
BY ImportAssumption

-----------------------------------------------------------------------------
(* Entries and documents.                                                     *)

LEMMA DocumentFacts ==
    ASSUME NEW doc \in Documents
    PROVE  DOMAIN doc \subseteq Names /\ doc \in [DOMAIN doc -> Entries]
BY DEF Documents

LEMMA IsDocument ==
    ASSUME NEW D \in SUBSET Names, NEW doc \in [D -> Entries]
    PROVE  doc \in Documents
BY DEF Documents

LEMMA WithDocument ==
    ASSUME NEW doc \in Documents, NEW n \in Names, NEW e \in Entries
    PROVE  With(doc, n, e) \in Documents
<1> DEFINE D == DOMAIN doc \cup {n}
<1>1. D \in SUBSET Names /\ With(doc, n, e) \in [D -> Entries]
  BY DocumentFacts DEF With
<1> QED BY <1>1, IsDocument

LEMMA OwnEntry == ASSUME NEW z \in Sizes PROVE Own(z) \in Entries
<1>1. 0 \in 0..MaxCommands
  BY Bounds
<1> QED BY <1>1 DEF Own, Entries

LEMMA AnnotatedEntry ==
    ASSUME NEW e \in Entries
    PROVE  [e EXCEPT !.libvirt = TRUE, !.notes = TRUE, !.forwards = TRUE] \in Entries
BY DEF Entries

LEMMA DeclaredEntry ==
    ASSUME NEW s \in Specs, clock \in 0..MaxCommands
    PROVE  Declared(s) \in Entries
<1>1. s.domain \in Domains \cup {""} /\ s.size \in Sizes
  BY DEF Specs
<1>2. s.machine \in {"q35", ""} /\ s.network \in {"nat", ""}
  BY DEF Specs
<1> QED BY <1>1, <1>2 DEF Declared, Entries

LEMMA MappedSpec ==
    ASSUME NEW d \in Domains, NEW s \in Shapes
    PROVE  Mapped(d, s) \in Specs
BY DEF Mapped, Specs, Shapes, normalizeImportedMachine, mapNetworkToSpec

LEMMA MergeEntry ==
    ASSUME NEW e \in Entries, NEW s \in Specs, NEW r \in BOOLEAN,
           clock \in 0..MaxCommands
    PROVE  Merge(e, s, r) \in Entries
<1>1. s.domain \in Domains \cup {""} /\ s.size \in Sizes
  BY DEF Specs
<1>2. s.machine \in {"q35", ""} /\ s.network \in {"nat", ""}
  BY DEF Specs
<1> QED BY <1>1, <1>2 DEF Merge, Entries

-----------------------------------------------------------------------------
(* Types.  The command's memory holds what its place needs.                   *)

MemoryInv ==
    /\ pc \in {"xml", "file", "write", "fill", "rename"} =>
            dom \in Domains /\ name \in Names
    /\ pc \in {"file", "write", "fill", "rename"} => seen \in Specs
    /\ pc \in {"write", "fill", "rename"} => book \in Documents
    /\ pc = "rename" => tmp = book
    /\ pc = "next" => op = "all"
    /\ pc # "idle" => op \in {"import", "update", "diff", "all"}
    /\ file \in Documents

ImportInv == TypeOK /\ MemoryInv

LEMMA ImportInit == Init => ImportInv
<1> SUFFICES ASSUME Init PROVE ImportInv
  OBVIOUS
<1>1. file \in Documents
  <2>1. PICK D \in SUBSET Names, z \in Sizes : file = [n \in D |-> Own(z)]
    BY DEF Init
  <2> QED BY <2>1, OwnEntry, IsDocument
<1>2. clock \in 0..MaxCommands /\ edits \in 0..MaxEdits
  BY Bounds DEF Init
<1>3. domain \in [Domains -> Shapes \cup {None}]
  BY DEF Init
<1> QED BY <1>1, <1>2, <1>3 DEF Init, ImportInv, TypeOK, MemoryInv

\* A step that ends a command keeps the types if it leaves the world well-typed.
LEMMA ExitTyped ==
    ASSUME ImportInv, NEW r \in {"none", "ok", "error", "drift", "clean"}, Exit(r),
           file' \in Documents, tmp' \in Documents \cup {Broken, None},
           UNCHANGED <<domain, clock, edits, listed, quiet>>
    PROVE  ImportInv'
BY DEF ImportInv, TypeOK, MemoryInv, Exit

LEMMA FailsTyped == ASSUME ImportInv, pc # "idle", Fails PROVE ImportInv'
<1>1. CASE op = "all"
  BY <1>1 DEF Fails, ImportInv, TypeOK, MemoryInv, memory, world
<1>2. CASE op # "all"
  <2>1. Exit("error") /\ UNCHANGED <<domain, file, tmp, clock, edits, listed, quiet>>
    BY <1>2 DEF Fails, world
  <2> QED BY <2>1, ExitTyped DEF ImportInv, TypeOK, MemoryInv
<1> QED BY <1>1, <1>2

LEMMA ImportStep == ImportInv /\ [Next]_vars => ImportInv'
<1> SUFFICES ASSUME ImportInv, [Next]_vars PROVE ImportInv'
  OBVIOUS
<1> USE DEF ImportInv, TypeOK, MemoryInv
<1>1. CASE BeginImport \/ BeginUpdate \/ BeginDiff
  <2>1. PICK o \in {"import", "update", "diff"}, d \in Domains, n \in Names, r \in BOOLEAN :
            BeginOne(o, d, n, r)
    BY <1>1 DEF BeginImport, BeginUpdate, BeginDiff
  <2>2. clock' \in 0..MaxCommands
    BY <2>1, Bounds DEF BeginOne, Begin
  <2> QED BY <2>1, <2>2 DEF BeginOne, Begin
<1>2. CASE BeginAll
  <2>1. Begin("all") /\ UNCHANGED <<dom, name, replace>> /\ pc' = "next"
    BY <1>2 DEF BeginAll
  <2>2. clock' \in 0..MaxCommands
    BY <2>1, Bounds DEF Begin
  <2>3. todo' \in SUBSET Domains /\ listed' \in SUBSET Domains
    BY <1>2 DEF BeginAll
  <2> QED BY <2>1, <2>2, <2>3 DEF Begin
<1>3. CASE NextDomain
  <2>1. PICK d \in todo : dom' = d /\ name' = Strip[d] /\ todo' = todo \ {d}
    BY <1>3 DEF NextDomain
  <2>2. dom' \in Domains /\ name' \in Names /\ todo' \in SUBSET Domains
    BY <2>1, StripNames
  <2> QED BY <1>3, <2>2 DEF NextDomain, world
<1>4. CASE AllDone
  <2>1. Exit("ok") \/ Exit("error")
    BY <1>4 DEF AllDone
  <2> QED BY <1>4, <2>1, ExitTyped DEF AllDone, world
<1>5. CASE ReadXmlFails \/ ReadFileFails \/ WriteFails
  BY <1>5, FailsTyped DEF ReadXmlFails, ReadFileFails, WriteFails
<1>6. CASE ReadXml
  <2>1. seen' \in Specs
    BY <1>6, MappedSpec DEF ReadXml
  <2> QED BY <1>6, <2>1 DEF ReadXml, world, target
<1>7. CASE ReadFileDeclare
  <2>1. book' \in Documents
    BY <1>7, DeclaredEntry, WithDocument DEF ReadFileDeclare
  <2> QED BY <1>7, <2>1 DEF ReadFileDeclare, FileRead, world, target
<1>8. CASE ReadFileMerge
  <2>1. Merge(file[name], seen, replace) \in Entries
    BY <1>8, DocumentFacts, MergeEntry DEF ReadFileMerge
  <2>2. book' = [file EXCEPT ![name] = Merge(file[name], seen, replace)]
    BY <1>8 DEF ReadFileMerge
  <2>3. book' \in Documents
    BY <2>1, <2>2, DocumentFacts, IsDocument
  <2> QED BY <1>8, <2>3 DEF ReadFileMerge, FileRead, world, target
<1>9. CASE ReadFileDiff
  <2>1. Exit("clean") \/ Exit("drift")
    BY <1>9 DEF ReadFileDiff
  <2> QED BY <1>9, <2>1, ExitTyped DEF ReadFileDiff, world
<1>10. CASE Truncate \/ Fill
  BY <1>10 DEF Truncate, Fill, memory
<1>11. CASE Rename
  <2>1. file' \in Documents /\ tmp' = None
    BY <1>11 DEF Rename
  <2>2. CASE op = "all"
    BY <1>11, <2>1, <2>2 DEF Rename, memory
  <2>3. CASE op # "all"
    BY <1>11, <2>1, <2>3, ExitTyped DEF Rename
  <2> QED BY <2>2, <2>3
<1>12. CASE Die
  BY <1>12, ExitTyped DEF Die, world
<1>13. CASE Save
  <2>1. file' \in Documents
    <3>1. PICK n \in Names :
              \/ \E z \in Sizes : file' = With(file, n, Own(z))
              \/ file' = [k \in DOMAIN file \ {n} |-> file[k]]
              \/ n \in DOMAIN file /\ file' = [file EXCEPT ![n].libvirt = TRUE,
                                ![n].notes = TRUE, ![n].forwards = TRUE]
      BY <1>13 DEF Save
    <3>2. CASE \E z \in Sizes : file' = With(file, n, Own(z))
      BY <3>2, OwnEntry, WithDocument
    <3>3. CASE file' = [k \in DOMAIN file \ {n} |-> file[k]]
      <4>1. file' \in [DOMAIN file \ {n} -> Entries] /\ DOMAIN file \ {n} \in SUBSET Names
        BY <3>3, DocumentFacts
      <4> QED BY <4>1, IsDocument
    <3>4. CASE n \in DOMAIN file /\ file' = [file EXCEPT ![n].libvirt = TRUE,
                                ![n].notes = TRUE, ![n].forwards = TRUE]
      <4>1. [file[n] EXCEPT !.libvirt = TRUE, !.notes = TRUE, !.forwards = TRUE] \in Entries
        BY <3>4, DocumentFacts, AnnotatedEntry
      <4>2. file' \in [DOMAIN file -> Entries]
        BY <3>4, <4>1, DocumentFacts
      <4> QED BY <4>2, DocumentFacts, IsDocument
    <3> QED BY <3>1, <3>2, <3>3, <3>4
  <2>2. edits' \in 0..MaxEdits
    BY <1>13, Bounds DEF Save, Edit
  <2> QED BY <1>13, <2>1, <2>2 DEF Save, Edit
<1>14. CASE Virsh
  <2>1. domain' \in [Domains -> Shapes \cup {None}]
    BY <1>14 DEF Virsh
  <2>2. edits' \in 0..MaxEdits
    BY <1>14, Bounds DEF Virsh, Edit
  <2> QED BY <1>14, <2>1, <2>2 DEF Virsh, Edit
<1>15. CASE UNCHANGED vars
  BY <1>15 DEF vars
<1> QED BY <1>1, <1>2, <1>3, <1>4, <1>5, <1>6, <1>7, <1>8, <1>9, <1>10, <1>11, <1>12,
        <1>13, <1>14, <1>15 DEF Next

LEMMA ImportTrue == Spec => []ImportInv
BY ImportInit, ImportStep, PTL DEF Spec

\* Every variable keeps its type: what is read from libvirt is written only as
\* the schema of charly.yml knows it.
THEOREM TypeCorrect == Spec => []TypeOK
BY ImportTrue, PTL DEF ImportInv

\* charly.yml parses at every moment, wherever a command dies.
THEOREM FileStaysWhole == Spec => []FileWhole
<1>1. ImportInv => FileWhole
  BY DocumentAssumption DEF ImportInv, MemoryInv, FileWhole
<1> QED BY <1>1, ImportTrue, PTL

-----------------------------------------------------------------------------
(* What the document in memory has of the file, until it replaces it.         *)

BookInv ==
    pc \in {"write", "fill", "rename"} =>
        /\ op # "diff"
        /\ SameAdoption(file, book)
        /\ quiet # "none" => Keeps(file, book)
        /\ op = "update" => Synchronised(book)

\* A merge keeps the operator's blocks and the adoption, and clears the drift.
LEMMA MergeKeeps ==
    ASSUME NEW e \in Entries, NEW s \in Specs, NEW r \in BOOLEAN
    PROVE  /\ Merge(e, s, r).notes = e.notes
           /\ Merge(e, s, r).libvirt = (e.libvirt /\ ~r)
           /\ Merge(e, s, r).forwards = (e.forwards /\ s.network = "")
           /\ e.adopted # 0 => Merge(e, s, r).adopted = e.adopted
           /\ Drift(Merge(e, s, r), s) \subseteq IF s.network = "" THEN {"network"} ELSE {}
<1>1. /\ Merge(e, s, r).notes = e.notes
      /\ e.adopted # 0 => Merge(e, s, r).adopted = e.adopted
  BY DEF Merge, Entries
<1>2. /\ Merge(e, s, r).libvirt = (e.libvirt /\ ~r)
      /\ Merge(e, s, r).forwards = (e.forwards /\ s.network = "")
  BY DEF Merge, Entries
<1>3. /\ Merge(e, s, r).domain = s.domain /\ Merge(e, s, r).size = s.size
      /\ Merge(e, s, r).machine = s.machine
      /\ s.network # "" => Merge(e, s, r).network = s.network
  BY DEF Merge, Entries
<1>4. Drift(Merge(e, s, r), s) \subseteq IF s.network = "" THEN {"network"} ELSE {}
  BY <1>3 DEF Drift
<1> QED BY <1>1, <1>2, <1>4

\* What is outside of a command's memory changes only by a rename or a save.
LEMMA FileSteps ==
    ASSUME [Next]_vars
    PROVE  Rename \/ Save \/ UNCHANGED file
BY DEF Next, vars, BeginImport, BeginUpdate, BeginDiff, BeginOne, BeginAll, Begin, NextDomain,
   AllDone, ReadXmlFails, ReadXml, ReadFileFails, Fails, ReadFileDeclare, ReadFileMerge,
   ReadFileDiff, Truncate, Fill, WriteFails, Die, Virsh, world

LEMMA SaveKeepsAdoption ==
    ASSUME Save, file \in Documents, NEW doc, SameAdoption(file, doc)
    PROVE  SameAdoption(file', doc) /\ SameAdoption(file, file')
<1>1. \A n \in DOMAIN file' \cap DOMAIN file : file'[n].adopted = file[n].adopted
  <2>1. PICK n \in Names :
            \/ n \notin DOMAIN file /\ \E z \in Sizes : file' = With(file, n, Own(z))
            \/ file' = [k \in DOMAIN file \ {n} |-> file[k]]
            \/ n \in DOMAIN file /\ file' = [file EXCEPT ![n].libvirt = TRUE,
                              ![n].notes = TRUE, ![n].forwards = TRUE]
    BY DEF Save
  <2>2. CASE n \notin DOMAIN file /\ \E z \in Sizes : file' = With(file, n, Own(z))
    BY <2>2 DEF With
  <2>3. CASE file' = [k \in DOMAIN file \ {n} |-> file[k]]
    BY <2>3
  <2>4. CASE n \in DOMAIN file /\ file' = [file EXCEPT ![n].libvirt = TRUE,
                              ![n].notes = TRUE, ![n].forwards = TRUE]
    <3>1. file[n] \in Entries
      BY <2>4, DocumentFacts
    <3>2. file'[n].adopted = file[n].adopted
      BY <2>4, <3>1, DocumentFacts DEF Entries
    <3> QED BY <2>4, <3>2, DocumentFacts
  <2> QED BY <2>1, <2>2, <2>3, <2>4
<1>2. \A n \in DOMAIN file' \ DOMAIN file : file'[n].adopted = 0
  <2>1. PICK n \in Names :
            \/ \E z \in Sizes : file' = With(file, n, Own(z))
            \/ DOMAIN file' \subseteq DOMAIN file
    <3>1. PICK n \in Names :
            \/ \E z \in Sizes : file' = With(file, n, Own(z))
            \/ file' = [k \in DOMAIN file \ {n} |-> file[k]]
            \/ n \in DOMAIN file /\ file' = [file EXCEPT ![n].libvirt = TRUE,
                              ![n].notes = TRUE, ![n].forwards = TRUE]
      BY DEF Save
    <3> QED BY <3>1, DocumentFacts
  <2> SUFFICES ASSUME NEW m \in DOMAIN file' \ DOMAIN file PROVE file'[m].adopted = 0
    OBVIOUS
  <2>2. PICK z \in Sizes : file' = With(file, n, Own(z))
    BY <2>1
  <2>3. m = n /\ file'[m] = Own(z)
    BY <2>2 DEF With
  <2>4. Own(z).adopted = 0
    BY Zenon DEF Own
  <2> QED BY <2>3, <2>4
<1> QED BY <1>1, <1>2 DEF SameAdoption

LEMMA BookStep == ImportInv /\ BookInv /\ [Next]_vars => BookInv'
<1> SUFFICES ASSUME ImportInv, BookInv, [Next]_vars PROVE BookInv'
  OBVIOUS
<1> USE DEF BookInv
<1>1. CASE ReadFileDeclare
  <2>1. file' = file /\ op' = op /\ op \in {"import", "all"} /\ name' = name /\ replace' = replace
    BY <1>1 DEF ReadFileDeclare, world, target
  <2>2. book' = With(file, name, Declared(seen)) /\ name \notin DOMAIN file
    BY <1>1 DEF ReadFileDeclare
  <2>3. \A n \in DOMAIN file : n \in DOMAIN book' /\ book'[n] = file[n] /\ n # name
    BY <2>2 DEF With
  <2>4. SameAdoption(file', book')
    BY <2>1, <2>3 DEF SameAdoption
  <2>5. Keeps(file, book)'
    BY <2>1, <2>3 DEF Keeps
  <2> QED BY <2>1, <2>4, <2>5
<1>2. CASE ReadFileMerge
  <2>1. /\ file' = file /\ op' = op /\ op = "update" /\ name' = name /\ replace' = replace
        /\ seen' = seen /\ name \in DOMAIN file
    BY <1>2 DEF ReadFileMerge, world, target
  <2> DEFINE new == Merge(file[name], seen, replace)
  <2>2. book' = [file EXCEPT ![name] = new]
    BY <1>2 DEF ReadFileMerge
  <2>3. file \in [DOMAIN file -> Entries] /\ seen \in Specs /\ replace \in BOOLEAN
    BY <1>2, DocumentFacts DEF ImportInv, MemoryInv, TypeOK, ReadFileMerge
  <2>4. /\ KeptByUpdate(file[name], new)
        /\ file[name].adopted # 0 => new.adopted = file[name].adopted
        /\ Drift(new, seen) \subseteq IF seen.network = "" THEN {"network"} ELSE {}
    BY <2>1, <2>3, MergeKeeps DEF KeptByUpdate
  <2> HIDE DEF new
  <2>5. DOMAIN book' = DOMAIN file /\ book'[name] = new
        /\ \A n \in DOMAIN file : n # name => book'[n] = file[n]
    BY <2>1, <2>2, <2>3
  <2>6. SameAdoption(file', book')
    BY <2>1, <2>4, <2>5 DEF SameAdoption
  <2>7. Keeps(file, book)'
    BY <2>1, <2>4, <2>5 DEF Keeps, KeptByUpdate
  <2>8. Synchronised(book)'
    BY <2>1, <2>4, <2>5 DEF Synchronised
  <2> QED BY <2>1, <2>6, <2>7, <2>8
<1>3. CASE Truncate \/ Fill
  <2>1. /\ pc \in {"write", "fill"}
        /\ file' = file /\ book' = book /\ op' = op /\ name' = name /\ replace' = replace
        /\ seen' = seen /\ quiet' = quiet
    BY <1>3 DEF Truncate, Fill, memory
  <2>2. Keeps(file, book)' = Keeps(file, book) /\ Synchronised(book)' = Synchronised(book)
    BY <2>1 DEF Keeps, KeptByUpdate, Synchronised
  <2> QED BY <2>1, <2>2
<1>4. CASE Save
  <2>1. UNCHANGED <<pc, op, name, replace, seen, book>> /\ quiet' = "none"
    BY <1>4 DEF Save, Edit
  <2>2. pc \in {"write", "fill", "rename"} => SameAdoption(file', book)
    BY <1>4, SaveKeepsAdoption DEF ImportInv, MemoryInv
  <2>3. op = "update" /\ pc \in {"write", "fill", "rename"} => Synchronised(book)'
    BY <2>1 DEF Synchronised
  <2> QED BY <2>1, <2>2, <2>3 DEF SameAdoption
<1>5. CASE Virsh
  BY <1>5 DEF Virsh, Edit, SameAdoption, Synchronised
<1>6. CASE UNCHANGED vars
  BY <1>6 DEF vars, SameAdoption, Keeps, KeptByUpdate, Synchronised
<1>7. CASE pc' \notin {"write", "fill", "rename"}
  BY <1>7
<1>8. \/ ReadFileDeclare \/ ReadFileMerge \/ Truncate \/ Fill \/ Save \/ Virsh
      \/ UNCHANGED vars \/ pc' \notin {"write", "fill", "rename"}
  BY DEF Next, BeginImport, BeginUpdate, BeginDiff, BeginOne, BeginAll, NextDomain, AllDone,
     ReadXmlFails, ReadXml, ReadFileFails, Fails, ReadFileDiff, WriteFails, Rename, Die, Exit
<1> QED BY <1>1, <1>2, <1>3, <1>4, <1>5, <1>6, <1>7, <1>8

LEMMA BookTrue == Spec => [](ImportInv /\ BookInv)
<1>1. Init => BookInv
  BY DEF Init, BookInv
<1> QED BY <1>1, BookStep, ImportTrue, PTL DEF Spec

\* A rename puts the document in memory in the place of the file.
LEMMA RenamedBook ==
    ASSUME ImportInv, [Next]_vars, Replaced
    PROVE  pc = "rename" /\ file' = book
<1>1. ~Truncate
  BY DocumentAssumption DEF Replaced, Truncate
<1>2. ~Fill
  BY DocumentAssumption DEF Replaced, Fill, ImportInv, MemoryInv
<1>3. Rename \/ Truncate \/ Fill \/ UNCHANGED tmp
  BY DEF Next, vars, BeginImport, BeginUpdate, BeginDiff, BeginOne, BeginAll, Begin,
     NextDomain, AllDone, ReadXmlFails, ReadXml, ReadFileFails, Fails, ReadFileDeclare,
     ReadFileMerge, ReadFileDiff, WriteFails, Die, Save, Virsh, Edit, world
<1>4. Rename
  BY <1>1, <1>2, <1>3 DEF Replaced
<1> QED BY <1>4 DEF Rename, ImportInv, MemoryInv

\* While nobody saves the file under a command, its rename keeps every entry but
\* the one it updates as it is; of that one it keeps ssh:, cloud_init: and
\* snapshots:, the libvirt: block unless --replace-libvirt was given, and the port
\* forwards exactly when the XML shows no network mode.
THEOREM OperatorIsKept == Spec => OperatorKept
<1>1. ImportInv /\ BookInv /\ [Next]_vars => (Replaced /\ quiet # "none" => Keeps(file, file'))
  BY RenamedBook DEF BookInv, Keeps, KeptByUpdate
<1> QED BY <1>1, BookTrue, PTL DEF Spec, OperatorKept

\* The time of adoption is written once, whatever is saved meanwhile.
THEOREM AdoptionStays == Spec => AdoptedOnce
<1>1. ImportInv /\ BookInv /\ [Next]_vars => SameAdoption(file, file')
  <2> SUFFICES ASSUME ImportInv, BookInv, [Next]_vars PROVE SameAdoption(file, file')
    OBVIOUS
  <2>1. CASE Rename
    BY <2>1 DEF Rename, ImportInv, MemoryInv, BookInv
  <2>2. CASE Save
    <3>1. SameAdoption(file, file)
      BY DEF SameAdoption
    <3> QED BY <2>2, <3>1, SaveKeepsAdoption DEF ImportInv, MemoryInv
  <2>3. CASE UNCHANGED file
    BY <2>3 DEF SameAdoption
  <2> QED BY <2>1, <2>2, <2>3, FileSteps
<1> QED BY <1>1, BookTrue, PTL DEF Spec, AdoptedOnce

\* An update leaves no drift but the mode of a network the domain has no more.
THEOREM UpdateSynchronises == Spec => UpdateClearsDrift
<1>1. ImportInv /\ BookInv /\ [Next]_vars => (Replaced /\ op = "update" => Synchronised(file'))
  BY RenamedBook DEF BookInv, Synchronised
<1> QED BY <1>1, BookTrue, PTL DEF Spec, UpdateClearsDrift

-----------------------------------------------------------------------------
(* import --all.                                                              *)

Recorded(d) == \E n \in DOMAIN file : file[n].domain = d

\* The domain import --all is at.
Current(d) == pc # "next" /\ d = dom

\* As long as none has failed and nobody interferes, a domain that was listed is
\* recorded, still to be done, or the one being done, whose entry is in the
\* document that replaces the file.
AllInv ==
    /\ pc # "idle" => report = "none"
    /\ pc \in {"file", "write", "fill", "rename"} => seen.domain = dom
    /\ pc \in {"write", "fill", "rename"} /\ op = "all" =>
            \E n \in DOMAIN book : book[n].domain = dom
    /\ op = "all" /\ quiet = "command" /\ pc # "idle" /\ ~failed =>
            \A d \in listed : Recorded(d) \/ d \in todo \/ Current(d)
    /\ AllRecorded

LEMMA AllInit == Init => AllInv
BY DEF Init, AllInv, AllRecorded

\* A command that ends without having been an import --all that succeeded, with
\* the file as it was, leaves nothing to show.
LEMMA ExitAll ==
    ASSUME NEW r, Exit(r), op # "all" \/ r # "ok" \/ quiet # "command", UNCHANGED quiet
    PROVE  AllInv'
BY DEF Exit, AllInv, AllRecorded

\* A document that keeps the entries of another records the domains it records.
LEMMA KeepsRecords ==
    ASSUME NEW doc, Keeps(file, doc), op # "update", NEW d, Recorded(d)
    PROVE  \E n \in DOMAIN doc : doc[n].domain = d
BY DEF Keeps, Recorded

LEMMA AllStep == ImportInv /\ BookInv /\ AllInv /\ [Next]_vars => AllInv'
<1> SUFFICES ASSUME ImportInv, BookInv, AllInv, [Next]_vars PROVE AllInv'
  OBVIOUS
<1>1. CASE BeginImport \/ BeginUpdate \/ BeginDiff
  <2>1. op' # "all" /\ report' = "none" /\ pc' = "xml"
    BY <1>1 DEF BeginImport, BeginUpdate, BeginDiff, BeginOne, Begin
  <2> QED BY <2>1 DEF AllInv, AllRecorded
<1>2. CASE BeginAll
  <2>1. report' = "none" /\ pc' = "next" /\ listed' = todo'
    BY <1>2 DEF BeginAll, Begin
  <2> QED BY <2>1 DEF AllInv, AllRecorded
<1>3. CASE NextDomain
  <2>1. /\ pc = "next" /\ pc' = "xml" /\ \E d \in todo : dom' = d /\ todo' = todo \ {d}
        /\ UNCHANGED <<file, op, quiet, failed, listed, report>>
    BY <1>3 DEF NextDomain, world
  <2> QED BY <2>1 DEF AllInv, AllRecorded, Recorded, Current
<1>4. CASE AllDone
  <2>1. /\ pc = "next" /\ todo = {} /\ Exit(IF failed THEN "error" ELSE "ok")
        /\ UNCHANGED <<file, quiet, listed, op>>
    BY <1>4 DEF AllDone, Exit, world
  <2>2. CASE op = "all" /\ quiet = "command" /\ ~failed
    <3>1. \A d \in listed : Recorded(d)
      BY <2>1, <2>2 DEF AllInv, Current
    <3> QED BY <2>1, <3>1 DEF AllInv, AllRecorded, Recorded, Exit
  <2>3. CASE ~(op = "all" /\ quiet = "command" /\ ~failed)
    <3>1. PICK r : Exit(r) /\ (r = IF failed THEN "error" ELSE "ok")
      BY <2>1
    <3> QED BY <2>1, <2>3, <3>1, ExitAll
  <2> QED BY <2>2, <2>3
<1>5. CASE ReadXmlFails \/ ReadFileFails \/ WriteFails
  <2>1. Fails /\ pc # "idle"
    BY <1>5 DEF ReadXmlFails, ReadFileFails, WriteFails
  <2>2. CASE op = "all"
    <3>1. /\ pc' = "next" /\ failed' /\ UNCHANGED report
      BY <2>1, <2>2 DEF Fails
    <3> QED BY <2>1, <3>1 DEF AllInv, AllRecorded
  <2>3. CASE op # "all"
    BY <2>1, <2>3, ExitAll DEF Fails
  <2> QED BY <2>2, <2>3
<1>6. CASE ReadXml
  <2>1. /\ pc = "xml" /\ pc' = "file" /\ seen' = Mapped(dom, domain[dom])
        /\ UNCHANGED <<file, op, quiet, failed, listed, report, dom, todo>>
    BY <1>6 DEF ReadXml, world, target
  <2>2. seen'.domain = dom
    BY <2>1 DEF Mapped
  <2> QED BY <2>1, <2>2 DEF AllInv, AllRecorded, Recorded, Current
<1>7. CASE ReadFileDeclare
  <2>1. /\ pc = "file" /\ pc' = "write" /\ book' = With(file, name, Declared(seen))
        /\ UNCHANGED <<file, op, failed, listed, report, dom, todo, seen>>
    BY <1>7 DEF ReadFileDeclare, world, target
  <2>2. quiet' = "command" => quiet = "command"
    BY <1>7 DEF ReadFileDeclare, FileRead
  <2>3. name \in DOMAIN book' /\ book'[name].domain = dom
    BY <2>1 DEF With, Declared, AllInv
  <2> QED BY <2>1, <2>2, <2>3 DEF AllInv, AllRecorded, Recorded, Current
<1>8. CASE ReadFileMerge
  <2>1. op' = "update" /\ pc = "file" /\ UNCHANGED <<report, dom, seen>>
    BY <1>8 DEF ReadFileMerge, target
  <2> QED BY <2>1 DEF AllInv, AllRecorded
<1>9. CASE ReadFileDiff
  BY <1>9, ExitAll DEF ReadFileDiff, world
<1>10. CASE Truncate \/ Fill
  <2>1. /\ pc \in {"write", "fill"} /\ pc' \in {"fill", "rename"}
        /\ UNCHANGED <<file, op, quiet, failed, listed, report, dom, todo, seen, book>>
    BY <1>10 DEF Truncate, Fill, memory
  <2> QED BY <2>1 DEF AllInv, AllRecorded, Recorded, Current
<1>11. CASE Rename
  <2>1. pc = "rename" /\ file' = book /\ UNCHANGED <<quiet, listed>>
    BY <1>11 DEF Rename, ImportInv, MemoryInv
  <2>2. CASE op = "all"
    <3>1. pc' = "next" /\ UNCHANGED <<op, dom, todo, failed, report>>
      BY <1>11, <2>2 DEF Rename, memory
    <3>2. ASSUME quiet = "command", ~failed, NEW d \in listed
          PROVE  d \in todo \/ \E n \in DOMAIN book : book[n].domain = d
      <4>1. Recorded(d) \/ d \in todo \/ d = dom
        BY <2>1, <2>2, <3>2 DEF AllInv, Current
      <4>2. Keeps(file, book) /\ \E n \in DOMAIN book : book[n].domain = dom
        BY <2>1, <2>2, <3>2 DEF AllInv, BookInv
      <4> QED BY <2>2, <4>1, <4>2, KeepsRecords
    <3> QED BY <2>1, <2>2, <3>1, <3>2 DEF AllInv, AllRecorded, Recorded
  <2>3. CASE op # "all"
    BY <1>11, <2>1, <2>3, ExitAll DEF Rename
  <2> QED BY <2>2, <2>3
<1>12. CASE Die
  BY <1>12, ExitAll DEF Die
<1>13. CASE Save \/ Virsh
  <2>1. quiet' = "none" /\ UNCHANGED <<op, pc, dom, seen, book, report>>
    BY <1>13 DEF Save, Virsh, Edit
  <2> QED BY <2>1 DEF AllInv, AllRecorded
<1>14. CASE UNCHANGED vars
  BY <1>14 DEF vars, AllInv, AllRecorded, Recorded, Current
<1> QED BY <1>1, <1>2, <1>3, <1>4, <1>5, <1>6, <1>7, <1>8, <1>9, <1>10, <1>11, <1>12,
        <1>13, <1>14 DEF Next

\* import --all that reports success, with nobody else at work since it began,
\* has recorded every domain it listed (vm_import_cmd.go: an entry that is there
\* already is a failure of its domain, and one failure fails the command).
THEOREM AllAreRecorded == Spec => []AllRecorded
<1>1. AllInv => AllRecorded
  BY DEF AllInv
<1>2. Spec => [](ImportInv /\ BookInv /\ AllInv)
  BY AllInit, AllStep, BookTrue, PTL DEF Spec
<1> QED BY <1>1, <1>2, PTL

=============================================================================
