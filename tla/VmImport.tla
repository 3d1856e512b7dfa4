------------------------------ MODULE VmImport ------------------------------
(***************************************************************************)
(* `charly vm import`: libvirt domains adopted into charly.yml, and the     *)
(* entries synchronised, compared and listed later (vm_import.go,           *)
(* vm_import_cmd.go).                                                       *)
(*                                                                         *)
(* A command reads the domain's XML, reads the file, changes the document   *)
(* in memory, writes it to charly.yml.tmp and renames it over charly.yml:   *)
(* five steps, between which an operator saves the file from an editor,     *)
(* somebody changes a domain with virsh, or the process dies; the writing   *)
(* steps may also fail in a process that goes on.  One import runs at a     *)
(* time; the code has no lock, and two would share the .tmp name.           *)
(*                                                                         *)
(* A document maps entry names to entries.  Of an entry the model keeps the *)
(* fields read from libvirt, the adoption time, and whether the operator's  *)
(* blocks are there: `libvirt` is the libvirt: block, `notes` stands for    *)
(* ssh:, cloud_init: and snapshots:, and `forwards` are the port forwards   *)
(* under network:, which an update that reads a network mode drops.         *)
(***************************************************************************)
EXTENDS Naturals

CONSTANTS
    Domains,       \* the libvirt domains, by name
    Names,         \* the entry names in use
    Sizes,         \* what memory, cpus, disk and firmware amount to
    Strip,         \* a domain's name without the "charly-" prefix
    Broken,        \* a document that does not parse
    None,          \* no such domain, no such file, nothing read
    MaxCommands,   \* bounds the commands
    MaxEdits       \* bounds the edits of the file and of the domains

ASSUME ImportAssumption ==
    /\ Strip \in [Domains -> Names]
    /\ MaxCommands \in Nat /\ MaxEdits \in Nat
    /\ "" \notin Domains

VARIABLES
    domain,        \* each domain as libvirt has it, None when undefined
    file, tmp,     \* charly.yml and charly.yml.tmp
    clock,         \* the commands begun so far; also the time they stamp
    edits,         \* the edits done so far
    op, pc,        \* the command and where it is
    dom, name,     \* the domain and the entry it works on
    replace,       \* --replace-libvirt
    todo, failed,  \* import --all: the domains left, and whether one failed
    seen,          \* the fields read from the domain's XML
    book,          \* the document in memory
    report,        \* what the last command reported
    listed,        \* history: what the last import --all found unmanaged
    quiet          \* history: since when nobody else touched file or domains

vars == <<domain, file, tmp, clock, edits, op, pc, dom, name, replace, todo,
          failed, seen, book, report, listed, quiet>>
target  == <<op, dom, name, replace>>
memory  == <<op, dom, name, replace, todo, seen, book>>
world   == <<domain, file, tmp, clock, edits, listed>>

-----------------------------------------------------------------------------
(* Domains, entries and documents. *)

Shapes == [size : Sizes, machine : {"pc-q35-11.1", "microvm"},
           iface : {"network", "direct"}]

\* The versioned machine name reduced to the schema's, "" when unknown.
normalizeImportedMachine(m) == IF m = "pc-q35-11.1" THEN "q35" ELSE ""

\* The network mode of the first interface, "" for a type charly has none for.
mapNetworkToSpec(i) == IF i = "network" THEN "nat" ELSE ""

Specs == [domain : Domains, size : Sizes, machine : {"q35", ""},
          network : {"nat", ""}]

\* The raw machine string is copied (sensitivity).
MappedVerbatim(d, s) ==
    [domain |-> d, size |-> s.size, machine |-> s.machine,
     network |-> mapNetworkToSpec(s.iface)]

\* ImportFromLibvirt: the specification read from a domain's XML.
Mapped(d, s) ==
    [domain |-> d, size |-> s.size,
     machine |-> normalizeImportedMachine(s.machine),
     network |-> mapNetworkToSpec(s.iface)]

Entries == [domain : Domains \cup {""}, size : Sizes, machine : {"q35", ""},
            network : {"nat", ""}, forwards : BOOLEAN,
            adopted : 0..MaxCommands, libvirt : BOOLEAN, notes : BOOLEAN]

Documents == UNION {[D -> Entries] : D \in SUBSET Names}

ASSUME DocumentAssumption ==
    /\ Broken # None /\ {Broken, None} \cap Documents = {}
    /\ None \notin Domains /\ None \notin Names /\ None \notin Shapes /\ None \notin Specs

\* A document with one more entry.
With(doc, n, e) == [k \in DOMAIN doc \cup {n} |-> IF k = n THEN e ELSE doc[k]]

\* An entry the operator wrote: nothing of it comes from libvirt.
Own(z) == [domain |-> "", size |-> z, machine |-> "", network |-> "",
           forwards |-> FALSE, adopted |-> 0, libvirt |-> TRUE, notes |-> TRUE]

\* buildImportedVmNode: the entry of a fresh import.
Declared(s) == [domain |-> s.domain, size |-> s.size, machine |-> s.machine,
                network |-> s.network, forwards |-> FALSE,
                adopted |-> clock, libvirt |-> FALSE, notes |-> FALSE]

\* DiffImported: the fields in which an entry differs from the domain.
Drift(e, s) == {f \in {"domain", "size", "machine", "network"} : e[f] # s[f]}

\* The libvirt: block goes with every update (sensitivity).
MergeDropsBlock(e, s, r) ==
    [e EXCEPT !.domain = s.domain, !.size = s.size, !.machine = s.machine,
              !.network = IF s.network = "" THEN @ ELSE s.network,
              !.forwards = @ /\ s.network = "",
              !.adopted = IF @ = 0 THEN clock ELSE @, !.libvirt = FALSE]

\* The adoption time is the update's (sensitivity).
MergeReadopts(e, s, r) ==
    [e EXCEPT !.domain = s.domain, !.size = s.size, !.machine = s.machine,
              !.network = IF s.network = "" THEN @ ELSE s.network,
              !.forwards = @ /\ s.network = "",
              !.adopted = clock, !.libvirt = @ /\ ~r]

\* An empty value is not taken for a removal (sensitivity).
MergeKeepsEmpty(e, s, r) ==
    [e EXCEPT !.domain = s.domain, !.size = s.size,
              !.machine = IF s.machine = "" THEN @ ELSE s.machine,
              !.network = IF s.network = "" THEN @ ELSE s.network,
              !.forwards = @ /\ s.network = "",
              !.adopted = IF @ = 0 THEN clock ELSE @, !.libvirt = @ /\ ~r]

\* mergeImportedVmIntoDoc: the fields read replace the entry's, an empty
\* machine removes the entry's, a missing network leaves the entry's.  The
\* whole network: block is replaced by its mode: the forwards in it go.
Merge(e, s, r) ==
    [e EXCEPT !.domain = s.domain, !.size = s.size, !.machine = s.machine,
              !.network = IF s.network = "" THEN @ ELSE s.network,
              !.forwards = @ /\ s.network = "",
              !.adopted = IF @ = 0 THEN clock ELSE @, !.libvirt = @ /\ ~r]

-----------------------------------------------------------------------------
(* The commands begin. *)

Init ==
    /\ domain \in [Domains -> Shapes]
    /\ file \in {[n \in D |-> Own(z)] : D \in SUBSET Names, z \in Sizes}
    /\ tmp = None /\ clock = 0 /\ edits = 0
    /\ op = "none" /\ pc = "idle"
    /\ dom = None /\ name = None /\ replace = FALSE
    /\ todo = {} /\ failed = FALSE /\ seen = None /\ book = None
    /\ report = "none" /\ listed = {} /\ quiet = "none"

Begin(o) ==
    /\ pc = "idle" /\ clock < MaxCommands
    /\ clock' = clock + 1
    /\ op' = o /\ report' = "none" /\ quiet' = "command" /\ failed' = FALSE
    /\ UNCHANGED <<domain, file, tmp, edits, seen, book>>

\* One domain, under its stripped name or under --target.
BeginOne(o, d, n, r) ==
    /\ Begin(o)
    /\ dom' = d /\ name' = n /\ replace' = r /\ pc' = "xml" /\ todo' = {}
    /\ listed' = {}

BeginImport == \E d \in Domains, n \in Names : BeginOne("import", d, n, FALSE)
BeginUpdate == \E d \in Domains, n \in Names, r \in BOOLEAN :
                    BeginOne("update", d, n, r)
BeginDiff   == \E d \in Domains, n \in Names : BeginOne("diff", d, n, FALSE)

\* ListUnmanagedDomains: the domains with no entry of their stripped or full
\* name.  A project that does not load counts as one without entries.
BeginAll ==
    \E managed \in {DOMAIN file, {}} :
        /\ Begin("all")
        /\ todo' = {d \in Domains : /\ domain[d] # None
                                    /\ {d, Strip[d]} \cap managed = {}}
        /\ listed' = todo' /\ pc' = "next"
        /\ UNCHANGED <<dom, name, replace>>

-----------------------------------------------------------------------------
(* The steps of a command. *)

\* The process ends with its memory, after reporting r.
Exit(r) ==
    /\ pc' = "idle" /\ report' = r
    /\ dom' = None /\ name' = None /\ replace' = FALSE /\ todo' = {}
    /\ failed' = FALSE /\ seen' = None /\ book' = None /\ UNCHANGED op

\* The next domain of import --all, or its report.
NextDomain ==
    /\ pc = "next" /\ todo # {}
    /\ \E d \in todo :
        /\ dom' = d /\ name' = Strip[d] /\ todo' = todo \ {d}
    /\ pc' = "xml"
    /\ UNCHANGED <<world, op, replace, failed, seen, book, report, quiet>>

AllDone ==
    /\ pc = "next" /\ todo = {}
    /\ Exit(IF failed THEN "error" ELSE "ok")
    /\ UNCHANGED <<world, quiet>>

\* The failure of one domain is printed and forgotten (sensitivity).
FailsUncounted ==
    /\ IF op = "all" THEN pc' = "next" /\ UNCHANGED <<memory, failed, report>>
                     ELSE Exit("error")
    /\ UNCHANGED <<world, quiet>>

\* An error ends a command; import --all notes it and takes the next domain.
Fails ==
    /\ IF op = "all" THEN /\ pc' = "next" /\ failed' = TRUE
                          /\ UNCHANGED <<memory, report>>
                     ELSE Exit("error")
    /\ UNCHANGED <<world, quiet>>

ReadXmlFails == pc = "xml" /\ domain[dom] = None /\ Fails

ReadXml ==
    /\ pc = "xml" /\ domain[dom] # None
    /\ seen' = Mapped(dom, domain[dom]) /\ pc' = "file"
    /\ UNCHANGED <<world, target, todo, failed, book, report, quiet>>

\* The file has been read: whoever edits it now edits it behind the command.
FileRead == quiet' = IF quiet = "none" THEN "read" ELSE quiet

\* WriteVmImportDeclaration refuses a name that is there; update and diff
\* refuse one that is not.
ReadFileFails ==
    /\ pc = "file"
    /\ (name \in DOMAIN file) = (op \in {"import", "all"})
    /\ Fails

ReadFileDeclare ==
    /\ pc = "file" /\ op \in {"import", "all"} /\ name \notin DOMAIN file
    /\ book' = With(file, name, Declared(seen))
    /\ pc' = "write" /\ FileRead
    /\ UNCHANGED <<world, target, todo, failed, seen, report>>

ReadFileMerge ==
    /\ pc = "file" /\ op = "update" /\ name \in DOMAIN file
    /\ book' = [file EXCEPT ![name] = Merge(@, seen, replace)]
    /\ pc' = "write" /\ FileRead
    /\ UNCHANGED <<world, target, todo, failed, seen, report>>

\* --diff: nothing is written.
ReadFileDiff ==
    /\ pc = "file" /\ op = "diff" /\ name \in DOMAIN file
    /\ Exit(IF Drift(file[name], seen) = {} THEN "clean" ELSE "drift")
    /\ UNCHANGED <<world, quiet>>

\* charly.yml itself is opened for writing (sensitivity).
TruncateTarget ==
    /\ pc = "write" /\ pc' = "fill" /\ file' = Broken
    /\ UNCHANGED <<domain, tmp, clock, edits, listed, memory,
                   failed, report, quiet>>

\* os.WriteFile empties charly.yml.tmp first ...
Truncate ==
    /\ pc = "write" /\ pc' = "fill" /\ tmp' = Broken
    /\ UNCHANGED <<domain, file, clock, edits, listed, memory,
                   failed, report, quiet>>

\* ... and then fills it.
Fill ==
    /\ pc = "fill" /\ pc' = "rename" /\ tmp' = book
    /\ UNCHANGED <<domain, file, clock, edits, listed, memory,
                   failed, report, quiet>>

\* charly.yml.tmp cannot be opened, filled or renamed, and stays as it is:
\* untouched, torn or whole.
WriteFails == pc \in {"write", "fill", "rename"} /\ Fails

Rename ==
    /\ pc = "rename" /\ file' = tmp /\ tmp' = None
    /\ IF op = "all" THEN pc' = "next" /\ UNCHANGED <<memory, failed, report>>
                     ELSE Exit("ok")
    /\ UNCHANGED <<domain, clock, edits, listed, quiet>>

-----------------------------------------------------------------------------
(* What happens around a command. *)

\* The process dies; charly.yml.tmp stays as it is.
Die ==
    /\ pc # "idle" /\ Exit("none")
    /\ UNCHANGED <<world, quiet>>

Edit ==
    /\ edits < MaxEdits /\ edits' = edits + 1 /\ quiet' = "none"
    /\ UNCHANGED <<tmp, clock, op, pc, dom, name, replace, todo, failed, seen,
                   book, report, listed>>

\* The operator saves the file: an entry of one's own added, one removed, one
\* annotated.
Save ==
    /\ Edit /\ UNCHANGED domain
    /\ \E n \in Names :
        \/ /\ n \notin DOMAIN file
           /\ \E z \in Sizes : file' = With(file, n, Own(z))
        \/ /\ n \in DOMAIN file
           /\ file' = [k \in DOMAIN file \ {n} |-> file[k]]
        \/ /\ n \in DOMAIN file
           /\ file' = [file EXCEPT ![n].libvirt = TRUE, ![n].notes = TRUE,
                                    ![n].forwards = TRUE]

\* A domain is changed, undefined or defined again outside charly.
Virsh ==
    /\ Edit /\ UNCHANGED file
    /\ \E d \in Domains, s \in Shapes \cup {None} :
        s # domain[d] /\ domain' = [domain EXCEPT ![d] = s]

Next ==
    \/ BeginImport \/ BeginUpdate \/ BeginDiff \/ BeginAll
    \/ NextDomain \/ AllDone
    \/ ReadXmlFails \/ ReadXml
    \/ ReadFileFails \/ ReadFileDeclare \/ ReadFileMerge \/ ReadFileDiff
    \/ Truncate \/ Fill \/ WriteFails \/ Rename
    \/ Die \/ Save \/ Virsh

Spec == Init /\ [][Next]_vars

-----------------------------------------------------------------------------
(* Properties. *)

\* Every variable has its type; in particular nothing read from libvirt is
\* written that the schema of charly.yml does not know.
TypeOK ==
    /\ domain \in [Domains -> Shapes \cup {None}]
    /\ file \in Documents \cup {Broken}
    /\ tmp \in Documents \cup {Broken, None}
    /\ clock \in 0..MaxCommands /\ edits \in 0..MaxEdits
    /\ op \in {"none", "import", "update", "diff", "all"}
    /\ pc \in {"idle", "next", "xml", "file", "write", "fill", "rename"}
    /\ dom \in Domains \cup {None} /\ name \in Names \cup {None}
    /\ replace \in BOOLEAN
    /\ todo \in SUBSET Domains /\ failed \in BOOLEAN
    /\ seen \in Specs \cup {None} /\ book \in Documents \cup {None}
    /\ report \in {"none", "ok", "error", "drift", "clean"}
    /\ listed \in SUBSET Domains /\ quiet \in {"none", "command", "read"}

\* charly.yml parses at every moment, wherever an import dies: the write goes
\* to charly.yml.tmp and reaches charly.yml by a rename of a filled file.
FileWhole == file # Broken

\* A step that renames charly.yml.tmp.
Replaced == tmp # None /\ tmp' = None

\* What an update leaves of the operator's in the entry it updates: ssh:,
\* cloud_init: and snapshots: always, the libvirt: block unless
\* --replace-libvirt was given, and the port forwards only if the domain's
\* first interface has no mode charly knows.
KeptByUpdate(old, new) ==
    /\ new.notes = old.notes
    /\ new.libvirt = (old.libvirt /\ ~replace)
    /\ new.forwards = (old.forwards /\ seen.network = "")

\* What a command on the entry `name` leaves of the operator's in the document.
Keeps(old, new) ==
    /\ DOMAIN old \subseteq DOMAIN new
    /\ \A n \in DOMAIN old :
        IF op = "update" /\ n = name THEN KeptByUpdate(old[n], new[n])
                                    ELSE new[n] = old[n]

\* While nobody saves the file between a command's read and its rename, the
\* rename keeps every entry but the updated one as it is, and of that one
\* exactly what KeptByUpdate lists; an import keeps every entry.
OperatorKept == [][Replaced /\ quiet # "none" => Keeps(file, file')]_vars

\* UpdateImportedVm: "network.mode -> replaced from XML", the other
\* operator-authored fields preserved (vm_import.go:388-399): whoever has port
\* forwards under network: has them after an update.
ForwardsKept ==
    [][Replaced /\ quiet # "none" =>
        \A n \in DOMAIN file : file[n].forwards => file'[n].forwards]_vars

\* The time of adoption is written once: no command changes it, whatever is
\* edited meanwhile.
SameAdoption(old, new) ==
    \A n \in DOMAIN old \cap DOMAIN new :
        old[n].adopted # 0 => new[n].adopted = old[n].adopted

AdoptedOnce == [][SameAdoption(file, file')]_vars

\* An update leaves no drift between the entry and the domain as it was read,
\* except the mode of a network the domain no longer has: a diff right after
\* it, with the domain unchanged, reports nothing else.
Synchronised(doc) ==
    /\ name \in DOMAIN doc
    /\ Drift(doc[name], seen) \subseteq IF seen.network = "" THEN {"network"} ELSE {}

UpdateClearsDrift == [][Replaced /\ op = "update" => Synchronised(file')]_vars

\* import --all that reports success, with nobody else at work since it
\* began, has recorded every domain it found unmanaged, each under an entry
\* that names it: also when two of them want the same entry, and when the
\* project did not load and all domains counted as unmanaged.
AllRecorded ==
    op = "all" /\ report = "ok" /\ quiet = "command" =>
        \A d \in listed : \E n \in DOMAIN file : file[n].domain = d

=============================================================================
