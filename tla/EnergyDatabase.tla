---------------------------- MODULE EnergyDatabase ----------------------------
(***************************************************************************)
(* The energy database as a file: create_energy_database, run by importers *)
(* that may overlap and crash, and SqliteEnergyProcessParameterRepository, *)
(* which opens the path, checks it and reads it, with a step for every     *)
(* touch of the file system.                                               *)
(*                                                                         *)
(* A file is [build, rows]: the build whose transaction was committed to   *)
(* it (0 before the commit) and its tables.  Builds are numbered; each has *)
(* its own created_at, so that the number stands for the digest.  target   *)
(* and temp are the directory entries, 0 when there is none: a connection  *)
(* keeps its file when the entry is replaced or removed.                   *)
(***************************************************************************)
EXTENDS EnergyEvidence

CONSTANTS Builders, Readers,
          Inputs,    \* what an importer may pass, with the flag overwrite
          Searches,  \* [activity, reference, options, others]
          MaxBuilds, \* bound: builds that are begun
          NoSearch

ASSUME MaxBuildsAssumption == MaxBuilds \in Nat

\* A workbook has finitely many rows, each on a line of its own.
ASSUME WorkbooksAssumption ==
    \A input \in Inputs :
        /\ IsFiniteSet(input.workbook)
        /\ \A x, y \in input.workbook : x.line \in Nat /\ (x.line = y.line => x = y)

VARIABLES files,      \* every file that was created
          target, temp,
          inputs,     \* the inputs of the builds so far
          builder,    \* per importer: [pc, build, file]
          anchors,    \* [build, digest]: what the builds returned
          failed,     \* [build, why]: the builds that raised
          overlapped, \* two builds ran at the same time
          reader,     \* per reader: [pc, file, expected, label, disturbed]
          asked,      \* per reader: its search
          evidence    \* per reader: the evidence it was given

vars == <<files, target, temp, inputs, builder, anchors, failed, overlapped, reader, asked,
          evidence>>

Idle == [pc |-> "idle", build |-> 0, file |-> 0]

Resting ==
    [pc |-> "resting", file |-> 0, expected |-> 0, label |-> 0, disturbed |-> FALSE]

-----------------------------------------------------------------------------
(* create_energy_database.                                                 *)

Active(b) == builder[b].pc # "idle"

\* What the readers do is not touched.
Searching == UNCHANGED <<reader, asked, evidence>>

Goto(b, pc) == builder' = [builder EXCEPT ![b].pc = pc]

Leave(b) == builder' = [builder EXCEPT ![b] = Idle]

Fail(b, why) ==
    /\ failed' = failed \cup {[build |-> builder[b].build, why |-> why]}
    /\ Leave(b)

\* The records are made, which checks them, and the target is looked at.
Begin(b, input) ==
    /\ ~Active(b) /\ Len(inputs) < MaxBuilds /\ WellFormed(input)
    /\ inputs' = Append(inputs, input)
    /\ builder' = [builder EXCEPT ![b] =
                      [pc |-> "check", build |-> Len(inputs) + 1, file |-> 0]]
    /\ overlapped' = (overlapped \/ \E other \in Builders : Active(other))
    /\ UNCHANGED <<files, target, temp, anchors, failed>> /\ Searching

MayReplace(b) == target = 0 \/ inputs[builder[b].build].overwrite

CheckTarget(b) ==
    /\ builder[b].pc = "check"
    /\ IF MayReplace(b) THEN Goto(b, "clear") /\ UNCHANGED failed
       ELSE Fail(b, "exists")
    /\ UNCHANGED <<files, target, temp, inputs, anchors, overlapped>> /\ Searching

\* Faulty variant: what a crash left is built upon.
CheckTemp_Keeps(b) ==
    /\ builder[b].pc = "clear"
    /\ Goto(b, "create")
    /\ UNCHANGED <<files, target, temp, inputs, anchors, failed, overlapped>> /\ Searching

CheckTemp(b) ==
    /\ builder[b].pc = "clear"
    /\ Goto(b, IF temp = 0 THEN "create" ELSE "unlink")
    /\ UNCHANGED <<files, target, temp, inputs, anchors, failed, overlapped>> /\ Searching

Unlink(b) ==
    /\ builder[b].pc = "unlink"
    /\ IF temp = 0 THEN Fail(b, "gone") /\ UNCHANGED temp
       ELSE temp' = 0 /\ Goto(b, "create") /\ UNCHANGED failed
    /\ UNCHANGED <<files, target, inputs, anchors, overlapped>> /\ Searching

\* Faulty variant: the metadata are part of the script, which commits by itself.
EmptyFile_Metadata(b) == [build |-> builder[b].build, rows |-> EmptyTables]

EmptyFile(b) == [build |-> 0, rows |-> EmptyTables]

\* connect opens the temporary file or creates it; the script then makes the tables,
\* which fails on a file that has them.
CreateTables(b) ==
    /\ builder[b].pc = "create"
    /\ IF temp = 0
       THEN /\ files' = Append(files, EmptyFile(b))
            /\ temp' = Len(files) + 1
            /\ builder' = [builder EXCEPT ![b].pc = "insert", ![b].file = Len(files) + 1]
            /\ UNCHANGED failed
       ELSE Fail(b, "tables exist") /\ UNCHANGED <<files, temp>>
    /\ UNCHANGED <<target, inputs, anchors, overlapped>> /\ Searching

\* The metadata and all rows are inserted and committed in one transaction, to the
\* file that was opened.
Commit(b) ==
    /\ builder[b].pc = "insert"
    /\ IF Insertable(inputs[builder[b].build])
       THEN /\ files' = [files EXCEPT ![builder[b].file] =
                            [build |-> builder[b].build,
                             rows |-> Tables(inputs[builder[b].build])]]
            /\ Goto(b, "replace") /\ UNCHANGED failed
       ELSE Fail(b, "duplicate") /\ UNCHANGED files
    /\ UNCHANGED <<target, temp, inputs, anchors, overlapped>> /\ Searching

\* A search that is under way while the target is replaced.
Disturb == reader' = [r \in Readers |-> IF reader[r].pc = "resting" THEN reader[r]
                                        ELSE [reader[r] EXCEPT !.disturbed = TRUE]]

\* temp.replace(target)
Replace(b) ==
    /\ builder[b].pc = "replace"
    /\ IF temp = 0 THEN Fail(b, "gone") /\ UNCHANGED <<target, temp, reader>>
       ELSE target' = temp /\ temp' = 0 /\ Goto(b, "hash") /\ Disturb /\ UNCHANGED failed
    /\ UNCHANGED <<files, inputs, anchors, overlapped, asked, evidence>>

\* The anchor has the digest of what the path now holds.
ReturnAnchor(b) ==
    /\ builder[b].pc = "hash"
    /\ anchors' = anchors \cup {[build |-> builder[b].build, digest |-> files[target].build]}
    /\ Leave(b)
    /\ UNCHANGED <<files, target, temp, inputs, failed, overlapped>> /\ Searching

\* The importer is killed; a transaction that is not committed is rolled back.
Crash(b) ==
    /\ Active(b) /\ Leave(b)
    /\ UNCHANGED <<files, target, temp, inputs, anchors, failed, overlapped>> /\ Searching

-----------------------------------------------------------------------------
(* search.                                                                 *)

Untouched == UNCHANGED <<files, target, temp, inputs, builder, anchors, failed, overlapped>>

\* A search, perhaps with the digest of an anchor; digest 0 stands for none.
StartSearch(r, s, expected) ==
    /\ reader[r].pc = "resting"
    /\ reader' = [reader EXCEPT ![r].pc = IF Comparable(s) THEN "open" ELSE "done",
                                ![r].expected = expected]
    /\ asked' = [asked EXCEPT ![r] = s]
    /\ UNCHANGED evidence /\ Untouched

\* _connect
Open(r) ==
    /\ reader[r].pc = "open"
    /\ reader' = [reader EXCEPT ![r].file = target,
                                ![r].pc = IF target = 0 THEN "failed" ELSE "metadata"]
    /\ UNCHANGED <<asked, evidence>> /\ Untouched

\* Faulty variant: the metadata are not looked for.
Readable_Any(file) == TRUE

\* The metadata are there, with the schema version.
Readable(file) == file.build # 0

\* _metadata
ReadMetadata(r) ==
    /\ reader[r].pc = "metadata"
    /\ reader' = [reader EXCEPT ![r].pc =
                     IF Readable(files[reader[r].file]) THEN "hash" ELSE "failed"]
    /\ UNCHANGED <<asked, evidence>> /\ Untouched

Expected(r, digest) == reader[r].expected \in {0, digest}

\* _metadata goes on: the digest of the path, not of the connection.
HashFile(r) ==
    /\ reader[r].pc = "hash"
    /\ reader' = [reader EXCEPT ![r].label = files[target].build,
                                ![r].pc = IF Expected(r, files[target].build)
                                          THEN "query" ELSE "failed"]
    /\ UNCHANGED <<asked, evidence>> /\ Untouched

\* The queries; then the evidence joins that of the repository before it.
Query(r) ==
    /\ reader[r].pc = "query"
    /\ LET s     == asked[r]
           t     == files[reader[r].file].rows
           found == search_evidence(t, s)
           raise == \/ \E side \in Sides : Raises(t, s.options, Party(s, side))
                    \/ Conflict(s.others, found)
       IN  /\ reader' = [reader EXCEPT ![r].pc = IF raise THEN "failed" ELSE "done"]
           /\ evidence' = [evidence EXCEPT ![r] =
                              IF raise THEN {} ELSE composite(s.others, found)]
    /\ UNCHANGED asked /\ Untouched

\* The caller takes the answer.
Rest(r) ==
    /\ reader[r].pc \in {"done", "failed"}
    /\ reader' = [reader EXCEPT ![r] = Resting]
    /\ asked' = [asked EXCEPT ![r] = NoSearch]
    /\ evidence' = [evidence EXCEPT ![r] = {}]
    /\ Untouched

-----------------------------------------------------------------------------

Init ==
    /\ files = <<>> /\ target = 0 /\ temp = 0 /\ inputs = <<>>
    /\ builder = [b \in Builders |-> Idle]
    /\ anchors = {} /\ failed = {} /\ overlapped = FALSE
    /\ reader = [r \in Readers |-> Resting]
    /\ asked = [r \in Readers |-> NoSearch] /\ evidence = [r \in Readers |-> {}]

Build(b) ==
    \/ \E input \in Inputs : Begin(b, input)
    \/ CheckTarget(b) \/ CheckTemp(b) \/ Unlink(b) \/ CreateTables(b) \/ Commit(b)
    \/ Replace(b) \/ ReturnAnchor(b) \/ Crash(b)

SearchStep(r) ==
    \/ \E s \in Searches, expected \in {0} \cup {a.digest : a \in anchors} :
          StartSearch(r, s, expected)
    \/ Open(r) \/ ReadMetadata(r) \/ HashFile(r) \/ Query(r) \/ Rest(r)

Next == (\E b \in Builders : Build(b)) \/ (\E r \in Readers : SearchStep(r))

Spec == Init /\ [][Next]_vars

-----------------------------------------------------------------------------
(* Properties.                                                             *)

PCs == {"idle", "check", "clear", "unlink", "create", "insert", "replace", "hash"}

\* Types; a builder or reader beyond its first touch of a file holds a file.
TypeOK ==
    /\ \A i \in 1..Len(files) : files[i].build \in 0..Len(inputs)
    /\ target \in 0..Len(files) /\ temp \in 0..Len(files) /\ Len(inputs) <= MaxBuilds
    /\ \A b \in Builders :
          /\ builder[b].pc \in PCs
          /\ builder[b].pc \in {"insert", "replace"} => builder[b].file \in 1..Len(files)
    /\ \A r \in Readers :
          reader[r].pc \in {"metadata", "hash", "query"} => reader[r].file \in 1..Len(files)

\* A search that gets an answer, also from a file that overlapping importers have put
\* in place half built, read all the rows of one build (the single transaction of
\* create_energy_database and the check of _metadata).
Whole(file) == file.build # 0 /\ file.rows = Tables(inputs[file.build])

EvidenceIsWhole ==
    \A r \in Readers :
        reader[r].pc \in {"query", "done"} /\ reader[r].file # 0 =>
            Whole(files[reader[r].file])

\* A file never changes once a search may read it: the statements of a search, each
\* a transaction of its own, see one state (create_energy_database).
CommittedIsFinal ==
    [][\A i \in 1..Len(files) : files[i].build # 0 => files'[i] = files[i]]_vars

\* Without overlapping importers the target is whole from the first build on, however
\* often one is killed, and every anchor has the digest of its own build
\* (temp.replace).
BuildsAreAtomic ==
    ~overlapped =>
        /\ target # 0 => Whole(files[target])
        /\ \A a \in anchors : a.digest = a.build

\* A build fails for its own input or an existing target only, and not for what an
\* earlier one left when it was killed (temp.unlink).
FailuresAreEarned ==
    ~overlapped =>
        \A f \in failed :
            \/ f.why = "exists" /\ ~inputs[f.build].overwrite
            \/ f.why = "duplicate" /\ ~Insertable(inputs[f.build])

\* A search with the digest of an anchor reads the build with that digest, unless the
\* file is replaced while it runs (expected_database_sha256).
AnchorIsChecked ==
    \A r \in Readers :
        reader[r].pc = "done" /\ reader[r].file # 0 /\ ~reader[r].disturbed =>
            /\ reader[r].label = files[reader[r].file].build
            /\ reader[r].expected \in {0, files[reader[r].file].build}

\* The searches that read tables and were answered: the tables, the search and its
\* evidence, to which the other repository of the search adds what it found before.
Answered(P(_, _, _)) ==
    \A r \in Readers :
        reader[r].pc = "done" /\ reader[r].file # 0 =>
            P(files[reader[r].file].rows, asked[r], evidence[r])

Quantities == {"total", "electricity_share", "natural_gas_share"}

\* Among the items are the shares and the total of the profile of a share.
Accompanied(i, items) ==
    \A quantity \in Quantities :
        \E j \in items : j.name = <<i.name[1], quantity>> /\ j.origin = "enterprise" /\ j.id = i.id

\* A share and the other share of its side close.
Closes(i, items) ==
    \A j \in items :
        /\ j.name # i.name
        /\ j.name \in {<<i.name[1], "electricity_share">>, <<i.name[1], "natural_gas_share">>}
        => i.value + j.value = 100

\* Enterprise evidence stays together: a share of a profile comes with the other
\* share and the total of the same profile, and the shares close, although a scoped
\* parameter of the same name is appended later (by_name).
SharesBelongTogether ==
    Answered(LAMBDA t, s, e :
        \A i \in e \ s.others :
            i.origin = "enterprise" /\ i.name[2] \in {"electricity_share", "natural_gas_share"} =>
                Accompanied(i, e) /\ Closes(i, e \ s.others))

\* What the importer found twice in the workbook is never energy evidence, and without
\* review neither are its emissions (extract_enterprise_profiles, _enterprise_profile).
DuplicatesStayOut ==
    Answered(LAMBDA t, s, e :
        \A i \in e \ s.others :
            i.origin = "enterprise" /\ (i.name[2] # "process_emission" \/ ~s.options.review) =>
                ~\E p, q \in t.profiles :
                     /\ p.row = i.id /\ p.level = s.options.level
                     /\ q.row # p.row /\ q.level = p.level /\ q.product = p.product)

\* A zero or a blank beside a trigger is never passed on as an emission of zero: the
\* evidence asks for the calculation (interpret_process_emission_observation,
\* _process_emission_evidence).
ZeroIsQuestioned ==
    Answered(LAMBDA t, s, e :
        \A i \in e \ s.others :
            i.name[2] = "process_emission" /\ i.origin = "enterprise" =>
                \A row \in emission_rows(t, s.options, Party(s, i.name[1])) :
                    row.trigger /\ row.value = 0 => i.calculation)

\* A generic parameter is used only if no active row of that name has another value,
\* whichever was stored first (search).
GenericIsUndisputed ==
    Answered(LAMBDA t, s, e :
        \A i \in e \ s.others :
            i.origin = "generic" =>
                \A p \in t.parameters : p.active /\ p.name = i.name => p.value = i.value)

\* A search that is answered read one whole build, the one that the expected digest names
\* (_metadata, expected_database_sha256).
ReadsAreSound == EvidenceIsWhole /\ AnchorIsChecked

\* Importers that do not overlap build all or nothing, and recover from one that was
\* killed (create_energy_database).
BuildsRecover == TypeOK /\ BuildsAreAtomic /\ FailuresAreEarned

\* The evidence of a search fits together: shares with their total, no row that the
\* importer found twice, no zero beside a trigger, no disputed generic value (search).
EvidenceIsCoherent ==
    SharesBelongTogether /\ DuplicatesStayOut /\ ZeroIsQuestioned /\ GenericIsUndisputed
=============================================================================
