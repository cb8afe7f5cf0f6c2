------------------------- MODULE EnergyDatabase_proofs -------------------------
(***************************************************************************)
(* ReadsAreSound, CommittedIsFinal, BuildsRecover and EvidenceIsCoherent,  *)
(* for any number of importers, readers, inputs, searches and builds.      *)
(*                                                                         *)
(* The inductive invariant says that a file that an importer is filling    *)
(* has no build yet and no second importer fills it, whatever happens to   *)
(* its directory entry: this is what keeps a half-built file, which an     *)
(* overlapping importer may have put in place, apart from a whole one.     *)
(*                                                                         *)
(* The coherence of the evidence is a chain of facts about one workbook    *)
(* and one search, which EvidenceInv then ties to what the readers hold.   *)
(***************************************************************************)
EXTENDS EnergyDatabase, FiniteSetTheorems, WellFoundedInduction, TLAPS

ReaderPCs == {"resting", "open", "metadata", "hash", "query", "done", "failed"}

FileType == [build : Nat, rows : {EmptyTables} \cup {Tables(i) : i \in Inputs}]

FilesInv ==
    /\ inputs \in Seq(Inputs)
    /\ files \in Seq(FileType)
    /\ target \in 0..Len(files) /\ temp \in 0..Len(files)
    /\ \A i \in 1..Len(files) :
          files[i].build # 0 =>
              /\ files[i].build \in 1..Len(inputs)
              /\ files[i].rows = Tables(inputs[files[i].build])

BuilderInv ==
    /\ builder \in [Builders -> [pc : PCs, build : Nat, file : Nat]]
    /\ \A b \in Builders :
          /\ builder[b].pc # "idle" => builder[b].build \in 1..Len(inputs)
          /\ builder[b].pc = "insert" =>
                builder[b].file \in 1..Len(files) /\ files[builder[b].file].build = 0
          /\ builder[b].pc = "hash" => target # 0
    /\ \A b, c \in Builders :
          b # c /\ builder[b].pc = "insert" /\ builder[c].pc = "insert" =>
              builder[b].file # builder[c].file

ReaderType ==
    reader \in [Readers -> [pc : ReaderPCs, file : Nat, expected : Nat, label : Nat,
                            disturbed : BOOLEAN]]

\* What a reader has checked stays so.
ReaderInv ==
    \A r \in Readers :
        /\ reader[r].file \in 0..Len(files)
        /\ reader[r].pc \in {"resting", "open"} => reader[r].file = 0
        /\ reader[r].pc \in {"metadata", "hash", "query"} =>
              reader[r].file # 0 /\ target # 0
        /\ reader[r].pc \in {"hash", "query", "done"} /\ reader[r].file # 0 =>
              files[reader[r].file].build # 0
        /\ reader[r].pc \in {"metadata", "hash"} /\ ~reader[r].disturbed =>
              reader[r].file = target
        /\ reader[r].pc \in {"query", "done"} /\ reader[r].file # 0 /\ ~reader[r].disturbed =>
              /\ reader[r].label = files[reader[r].file].build
              /\ reader[r].expected \in {0, reader[r].label}

AnchorsInv == \A a \in anchors : a.digest \in Nat

IInv == FilesInv /\ BuilderInv /\ ReaderType /\ ReaderInv /\ AnchorsInv

\* The invariant of files and roles holds initially.
LEMMA IInvInit == Init => IInv
BY DEF Init, IInv, FilesInv, BuilderInv, ReaderType, ReaderInv, AnchorsInv, Idle, Resting,
       PCs, ReaderPCs

-----------------------------------------------------------------------------
(* Steps of the readers.                                                   *)

\* A reader disturbs neither files nor builders, and keeps what it has checked.
LEMMA SearchKeepsIInv ==
    ASSUME IInv, NEW r \in Readers, SearchStep(r)
    PROVE  IInv'
<1>1. Untouched
  BY DEF SearchStep, StartSearch, Open, ReadMetadata, HashFile, Query, Rest
<1>2. FilesInv' /\ BuilderInv' /\ AnchorsInv'
  BY <1>1 DEF IInv, Untouched, FilesInv, BuilderInv, AnchorsInv
<1>3. \A o \in Readers : o # r => reader'[o] = reader[o]
  BY DEF SearchStep, StartSearch, Open, ReadMetadata, HashFile, Query, Rest, IInv, ReaderType
<1>4. ReaderType' /\ ReaderInv'
  <2>1. CASE \E s \in Searches, expected \in {0} \cup {a.digest : a \in anchors} :
                StartSearch(r, s, expected)
    <3>1. PICK s \in Searches, expected \in {0} \cup {a.digest : a \in anchors} :
              StartSearch(r, s, expected)
      BY <2>1
    <3>2. expected \in Nat
      BY DEF IInv, AnchorsInv
    <3>3. PICK pc \in {"open", "done"} :
              reader' = [reader EXCEPT ![r].pc = pc, ![r].expected = expected]
      BY <3>1 DEF StartSearch
    <3>4. reader[r].pc = "resting" /\ reader[r].file = 0
      BY <3>1 DEF StartSearch, IInv, ReaderInv
    <3>5. ReaderType'
      <4>1. pc \in ReaderPCs
        BY DEF ReaderPCs
      <4> QED BY <3>2, <3>3, <4>1 DEF IInv, ReaderType
    <3>6. ReaderInv'
      BY <1>1, <1>3, <3>3, <3>4 DEF IInv, ReaderType, ReaderInv, Untouched
    <3> QED BY <3>5, <3>6
  <2>2. CASE Open(r)
    <3>1. PICK pc \in {"failed", "metadata"} :
              /\ reader' = [reader EXCEPT ![r].file = target, ![r].pc = pc]
              /\ pc = "metadata" => target # 0
      BY <2>2 DEF Open
    <3>2. target \in 0..Len(files) /\ target \in Nat
      BY DEF IInv, FilesInv
    <3>3. ReaderType'
      <4>1. pc \in ReaderPCs
        BY DEF ReaderPCs
      <4> QED BY <3>1, <3>2, <4>1 DEF IInv, ReaderType
    <3>4. ReaderInv'
      BY <1>1, <1>3, <3>1, <3>2 DEF IInv, ReaderType, ReaderInv, Untouched
    <3> QED BY <3>3, <3>4
  <2>3. CASE ReadMetadata(r)
    <3>1. PICK pc \in {"hash", "failed"} :
              /\ reader' = [reader EXCEPT ![r].pc = pc]
              /\ pc = "hash" => files[reader[r].file].build # 0
      BY <2>3 DEF ReadMetadata, Readable
    <3>2. reader[r].pc = "metadata"
      BY <2>3 DEF ReadMetadata
    <3>3. ReaderType'
      <4>1. pc \in ReaderPCs
        BY DEF ReaderPCs
      <4> QED BY <3>1, <4>1 DEF IInv, ReaderType
    <3>4. ReaderInv'
      BY <1>1, <1>3, <3>1, <3>2 DEF IInv, ReaderType, ReaderInv, Untouched
    <3> QED BY <3>3, <3>4
  <2>4. CASE HashFile(r)
    <3>1. files[target].build \in Nat
      BY <2>4 DEF HashFile, IInv, FilesInv, ReaderInv, ReaderType, FileType
    <3> DEFINE d == files[target].build
    <3>2. PICK pc \in {"query", "failed"} :
              /\ reader' = [reader EXCEPT ![r].label = d, ![r].pc = pc]
              /\ pc = "query" => reader[r].expected \in {0, d}
      BY <2>4 DEF HashFile, Expected
    <3>3. reader[r].pc = "hash"
      BY <2>4 DEF HashFile
    <3>4. ~reader[r].disturbed => d = files[reader[r].file].build
      BY <3>3 DEF IInv, ReaderInv
    <3> HIDE DEF d
    <3>5. ReaderType'
      <4>1. pc \in ReaderPCs
        BY DEF ReaderPCs
      <4> QED BY <3>1, <3>2, <4>1 DEF IInv, ReaderType, d
    <3>6. ReaderInv'
      BY <1>1, <1>3, <3>2, <3>3, <3>4 DEF IInv, ReaderType, ReaderInv, Untouched
    <3> QED BY <3>5, <3>6
  <2>5. CASE Query(r)
    <3>1. PICK pc \in {"failed", "done"} : reader' = [reader EXCEPT ![r].pc = pc]
      BY <2>5 DEF Query
    <3>2. reader[r].pc = "query"
      BY <2>5 DEF Query
    <3>3. ReaderType'
      <4>1. pc \in ReaderPCs
        BY DEF ReaderPCs
      <4> QED BY <3>1, <4>1 DEF IInv, ReaderType
    <3>4. ReaderInv'
      BY <1>1, <1>3, <3>1, <3>2 DEF IInv, ReaderType, ReaderInv, Untouched
    <3> QED BY <3>3, <3>4
  <2>6. CASE Rest(r)
    BY <1>1, <2>6 DEF Rest, Resting, IInv, ReaderType, ReaderInv, ReaderPCs, Untouched
  <2> QED BY <2>1, <2>2, <2>3, <2>4, <2>5, <2>6 DEF SearchStep
<1> QED BY <1>2, <1>4 DEF IInv

-----------------------------------------------------------------------------
(* Steps of the importers.                                                 *)

\* The readers keep what they know when the files only grow and are only committed.
LEMMA ReadersUnaffected ==
    ASSUME IInv, UNCHANGED <<reader, target>>,
           Len(files') \in Nat, Len(files) <= Len(files'),
           \A i \in 1..Len(files) : files[i].build # 0 => files'[i] = files[i]
    PROVE  ReaderType' /\ ReaderInv'
<1>1. ReaderType'
  BY DEF IInv, ReaderType
<1>2. Len(files) \in Nat
  BY DEF IInv, FilesInv
<1>3. ASSUME NEW r \in Readers
      PROVE  /\ reader[r].file \in 0..Len(files')
             /\ reader[r].file # 0 /\ files[reader[r].file].build # 0 =>
                   files'[reader[r].file] = files[reader[r].file]
  <2>1. reader[r].file \in 0..Len(files)
    BY DEF IInv, ReaderInv
  <2> QED BY <1>2, <2>1
<1>4. ReaderInv'
  <2> SUFFICES ASSUME NEW r \in Readers
               PROVE  /\ reader[r].file \in 0..Len(files')
                      /\ reader[r].pc \in {"hash", "query", "done"} /\ reader[r].file # 0 =>
                            files'[reader[r].file].build # 0
                      /\ reader[r].pc \in {"query", "done"} /\ reader[r].file # 0
                         /\ ~reader[r].disturbed =>
                            /\ reader[r].label = files'[reader[r].file].build
                            /\ reader[r].expected \in {0, reader[r].label}
    BY DEF IInv, ReaderInv
  <2> QED BY <1>3 DEF IInv, ReaderInv
<1> QED BY <1>1, <1>4

\* A step that leaves the files as they are and moves one importer.
LEMMA MoveKeepsIInv ==
    ASSUME IInv, NEW b \in Builders, NEW pc \in PCs \ {"insert", "hash"},
           UNCHANGED <<files, target, inputs, anchors, reader>>,
           temp' \in {0, temp},
           builder[b].pc # "idle",
           builder' = [builder EXCEPT ![b].pc = pc] \/ builder' = [builder EXCEPT ![b] = Idle]
    PROVE  IInv'
<1>1. FilesInv' /\ AnchorsInv'
  BY DEF IInv, FilesInv, AnchorsInv
<1>2. BuilderInv'
  <2>1. CASE builder' = [builder EXCEPT ![b].pc = pc]
    BY <2>1 DEF IInv, BuilderInv
  <2>2. CASE builder' = [builder EXCEPT ![b] = Idle]
    BY <2>2 DEF IInv, BuilderInv, Idle, PCs
  <2> QED BY <2>1, <2>2
<1>3. ReaderType' /\ ReaderInv'
  BY ReadersUnaffected DEF IInv, FilesInv
<1> QED BY <1>1, <1>2, <1>3 DEF IInv

\* An importer writes its own file only, and files with metadata are left alone.
LEMMA BuildKeepsIInv ==
    ASSUME IInv, NEW b \in Builders, Build(b)
    PROVE  IInv'
<1>1. CASE \E input \in Inputs : Begin(b, input)
  <2>1. PICK input \in Inputs : Begin(b, input)
    BY <1>1
  <2>2. /\ inputs' = Append(inputs, input)
        /\ UNCHANGED <<files, target, temp, anchors, failed, reader, asked, evidence>>
        /\ builder' = [builder EXCEPT ![b] =
                          [pc |-> "check", build |-> Len(inputs) + 1, file |-> 0]]
    BY <2>1 DEF Begin, Searching
  <2>3. /\ inputs' \in Seq(Inputs) /\ Len(inputs') = Len(inputs) + 1 /\ Len(inputs) \in Nat
        /\ \A i \in 1..Len(inputs) : inputs'[i] = inputs[i]
    BY <2>2 DEF IInv, FilesInv
  <2>4. FilesInv' /\ AnchorsInv'
    BY <2>2, <2>3 DEF IInv, FilesInv, AnchorsInv
  <2>5. BuilderInv'
    BY <2>2, <2>3 DEF IInv, BuilderInv, PCs
  <2>6. ReaderType' /\ ReaderInv'
    BY <2>2, ReadersUnaffected DEF IInv, FilesInv
  <2> QED BY <2>4, <2>5, <2>6 DEF IInv
<1>2. CASE CheckTarget(b)
  BY <1>2, MoveKeepsIInv DEF CheckTarget, Fail, Leave, Goto, Searching, PCs
<1>3. CASE CheckTemp(b)
  BY <1>3, MoveKeepsIInv DEF CheckTemp, Goto, Searching, PCs
<1>4. CASE Unlink(b)
  BY <1>4, MoveKeepsIInv DEF Unlink, Fail, Leave, Goto, Searching, PCs
<1>5. CASE CreateTables(b)
  <2>1. CASE temp # 0
    BY <1>5, <2>1, MoveKeepsIInv DEF CreateTables, Fail, Leave, Searching, PCs
  <2>2. CASE temp = 0
    <3> DEFINE new == [build |-> 0, rows |-> EmptyTables]
    <3>1. /\ files' = Append(files, new) /\ temp' = Len(files) + 1
          /\ builder' = [builder EXCEPT ![b].pc = "insert", ![b].file = Len(files) + 1]
          /\ UNCHANGED <<target, inputs, anchors, reader>>
      BY <1>5, <2>2 DEF CreateTables, EmptyFile, Searching
    <3>2. new \in FileType /\ new.build = 0
      BY DEF FileType
    <3> HIDE DEF new
    <3>3. /\ files' \in Seq(FileType) /\ Len(files') = Len(files) + 1 /\ Len(files) \in Nat
          /\ \A i \in 1..Len(files) : files'[i] = files[i]
          /\ files'[Len(files) + 1].build = 0
      BY <3>1, <3>2 DEF IInv, FilesInv
    <3>4. FilesInv' /\ AnchorsInv'
      BY <3>1, <3>3 DEF IInv, FilesInv, AnchorsInv
    <3>5. BuilderInv'
      <4>1. builder[b].pc = "create"
        BY <1>5 DEF CreateTables
      <4>2. builder'[b].pc = "insert" /\ builder'[b].file = Len(files) + 1
            /\ builder'[b].build = builder[b].build
        BY <3>1 DEF IInv, BuilderInv
      <4>3. \A c \in Builders : c # b => builder'[c] = builder[c]
        BY <3>1 DEF IInv, BuilderInv
      <4>4. builder' \in [Builders -> [pc : PCs, build : Nat, file : Nat]]
        <5>1. builder'[b] \in [pc : PCs, build : Nat, file : Nat]
          <6>1. builder[b] \in [pc : PCs, build : Nat, file : Nat]
            BY DEF IInv, BuilderInv
          <6>2. builder'[b] = [[builder[b] EXCEPT !.pc = "insert"] EXCEPT !.file = Len(files) + 1]
            BY <3>1 DEF IInv, BuilderInv
          <6>3. "insert" \in PCs /\ Len(files) + 1 \in Nat
            BY <3>3 DEF PCs
          <6> HIDE DEF PCs
          <6> QED BY <6>1, <6>2, <6>3
        <5>2. \A c \in Builders : builder'[c] \in [pc : PCs, build : Nat, file : Nat]
          BY <4>3, <5>1 DEF IInv, BuilderInv
        <5>3. builder' = [c \in Builders |-> builder'[c]]
          BY <3>1 DEF IInv, BuilderInv
        <5> QED BY <5>2, <5>3
      <4>5. ASSUME NEW c \in Builders
            PROVE  /\ builder'[c].pc # "idle" => builder'[c].build \in 1..Len(inputs')
                   /\ builder'[c].pc = "insert" =>
                         /\ builder'[c].file \in 1..Len(files')
                         /\ files'[builder'[c].file].build = 0
                   /\ builder'[c].pc = "hash" => target' # 0
        <5>1. CASE c = b
          BY <3>1, <3>3, <4>1, <4>2, <5>1 DEF IInv, BuilderInv
        <5>2. CASE c # b
          BY <3>1, <3>3, <4>3, <5>2 DEF IInv, BuilderInv
        <5> QED BY <5>1, <5>2
      <4>6. ASSUME NEW c \in Builders, NEW d \in Builders, c # d,
                   builder'[c].pc = "insert", builder'[d].pc = "insert"
            PROVE  builder'[c].file # builder'[d].file
        <5>1. \A x \in Builders : x # b /\ builder'[x].pc = "insert" =>
                  builder'[x].file < Len(files) + 1
          BY <3>3, <4>3 DEF IInv, BuilderInv
        <5> QED BY <3>3, <4>2, <4>3, <4>6, <5>1 DEF IInv, BuilderInv
      <4> QED BY <4>4, <4>5, <4>6 DEF BuilderInv
    <3>6. ReaderType' /\ ReaderInv'
      BY <3>1, <3>3, ReadersUnaffected
    <3> QED BY <3>4, <3>5, <3>6 DEF IInv
  <2> QED BY <2>1, <2>2
<1>6. CASE Commit(b)
  <2>1. CASE ~Insertable(inputs[builder[b].build])
    BY <1>6, <2>1, MoveKeepsIInv DEF Commit, Fail, Leave, Searching, PCs
  <2>2. CASE Insertable(inputs[builder[b].build])
    <3> DEFINE n == builder[b].build
               f == builder[b].file
               new == [build |-> n, rows |-> Tables(inputs[n])]
    <3>1. /\ files' = [files EXCEPT ![f] = new]
          /\ builder' = [builder EXCEPT ![b].pc = "replace"]
          /\ UNCHANGED <<target, temp, inputs, anchors, reader>>
      BY <1>6, <2>2 DEF Commit, Goto, Searching
    <3>2. n \in 1..Len(inputs) /\ f \in 1..Len(files) /\ files[f].build = 0
      BY <1>6 DEF Commit, IInv, BuilderInv
    <3>3. new \in FileType /\ new.build = n /\ new.rows = Tables(inputs[n])
      BY <3>2 DEF FileType, IInv, FilesInv
    <3>4. builder[b].pc = "insert"
      BY <1>6 DEF Commit
    <3> HIDE DEF n, f, new
    <3>5. /\ files' \in Seq(FileType) /\ Len(files') = Len(files) /\ Len(files) \in Nat
          /\ files'[f] = new /\ \A i \in 1..Len(files) : i # f => files'[i] = files[i]
      BY <3>1, <3>2, <3>3 DEF IInv, FilesInv
    <3>6. FilesInv' /\ AnchorsInv'
      BY <3>1, <3>2, <3>3, <3>5 DEF IInv, FilesInv, AnchorsInv
    <3>7. BuilderInv'
      BY <3>1, <3>2, <3>3, <3>4, <3>5 DEF IInv, BuilderInv, PCs, f
    <3>8. ReaderType' /\ ReaderInv'
      BY <3>1, <3>2, <3>5, ReadersUnaffected
    <3> QED BY <3>6, <3>7, <3>8 DEF IInv
  <2> QED BY <2>1, <2>2
<1>7. CASE Replace(b)
  <2>1. CASE temp = 0
    BY <1>7, <2>1, MoveKeepsIInv DEF Replace, Fail, Leave, PCs
  <2>2. CASE temp # 0
    <3>1. /\ target' = temp /\ temp' = 0
          /\ builder' = [builder EXCEPT ![b].pc = "hash"]
          /\ UNCHANGED <<files, inputs, anchors>>
          /\ reader' = [r \in Readers |-> IF reader[r].pc = "resting" THEN reader[r]
                                          ELSE [reader[r] EXCEPT !.disturbed = TRUE]]
      BY <1>7, <2>2 DEF Replace, Goto, Disturb
    <3>2. FilesInv' /\ AnchorsInv'
      BY <3>1 DEF IInv, FilesInv, AnchorsInv
    <3>3. BuilderInv'
      BY <1>7, <2>2, <3>1 DEF Replace, IInv, FilesInv, BuilderInv, PCs
    <3>4. ReaderType'
      BY <3>1 DEF IInv, ReaderType
    <3>5. ReaderInv'
      BY <2>2, <3>1 DEF IInv, FilesInv, ReaderType, ReaderInv
    <3> QED BY <3>2, <3>3, <3>4, <3>5 DEF IInv
  <2> QED BY <2>1, <2>2
<1>8. CASE ReturnAnchor(b)
  <2>1. /\ anchors' = anchors \cup
               {[build |-> builder[b].build, digest |-> files[target].build]}
        /\ builder' = [builder EXCEPT ![b] = Idle]
        /\ UNCHANGED <<files, target, temp, inputs, reader>>
    BY <1>8 DEF ReturnAnchor, Leave, Searching
  <2>2. files[target].build \in Nat
    BY <1>8 DEF ReturnAnchor, IInv, FilesInv, BuilderInv, FileType
  <2>3. FilesInv' /\ AnchorsInv'
    BY <2>1, <2>2 DEF IInv, FilesInv, AnchorsInv
  <2>4. BuilderInv'
    BY <2>1 DEF IInv, BuilderInv, Idle, PCs
  <2>5. ReaderType' /\ ReaderInv'
    BY <2>1, ReadersUnaffected DEF IInv, FilesInv
  <2> QED BY <2>3, <2>4, <2>5 DEF IInv
<1>9. CASE Crash(b)
  BY <1>9, MoveKeepsIInv DEF Crash, Active, Leave, Searching, PCs
<1> QED BY <1>1, <1>2, <1>3, <1>4, <1>5, <1>6, <1>7, <1>8, <1>9 DEF Build

\* Stuttering keeps it.
LEMMA StutterKeepsIInv == IInv /\ UNCHANGED vars => IInv'
BY DEF vars, IInv, FilesInv, BuilderInv, ReaderType, ReaderInv, AnchorsInv

\* So it holds in every state.
LEMMA IInvInvariant == Spec => []IInv
<1>1. IInv /\ [Next]_vars => IInv'
  BY BuildKeepsIInv, SearchKeepsIInv, StutterKeepsIInv DEF Next
<1> QED BY IInvInit, <1>1, PTL DEF Spec

-----------------------------------------------------------------------------

\* A search that is answered read all rows of one build, which is the expected one unless
\* the file was replaced meanwhile (_metadata, expected_database_sha256).
THEOREM ReadsSound == Spec => []ReadsAreSound
<1>1. IInv => EvidenceIsWhole
  BY DEF IInv, FilesInv, ReaderInv, ReaderType, EvidenceIsWhole, Whole
<1>2. IInv => AnchorIsChecked
  BY DEF IInv, ReaderInv, AnchorIsChecked
<1>3. IInv => ReadsAreSound
  BY <1>1, <1>2 DEF ReadsAreSound
<1> QED BY <1>3, IInvInvariant, PTL

\* What a committed file holds stays.
LEMMA CommittedStep ==
    ASSUME IInv, Next, NEW i \in 1..Len(files), files[i].build # 0
    PROVE  files'[i] = files[i]
<1>1. CASE \E r \in Readers : SearchStep(r)
  BY <1>1 DEF SearchStep, StartSearch, Open, ReadMetadata, HashFile, Query, Rest, Untouched
<1>2. CASE \E b \in Builders : Build(b)
  <2>1. PICK b \in Builders : Build(b)
    BY <1>2
  <2>2. CASE CreateTables(b)
    <3>1. files' = files \/ files' = Append(files, [build |-> 0, rows |-> EmptyTables])
      BY <2>2 DEF CreateTables, EmptyFile
    <3>2. files \in Seq(FileType) /\ [build |-> 0, rows |-> EmptyTables] \in FileType
      BY DEF IInv, FilesInv, FileType
    <3> QED BY <3>1, <3>2
  <2>3. CASE Commit(b)
    <3>1. files[builder[b].file].build = 0
      BY <2>3 DEF Commit, IInv, BuilderInv
    <3>2. files' = files \/ \E new : files' = [files EXCEPT ![builder[b].file] = new]
      BY <2>3 DEF Commit
    <3> QED BY <3>1, <3>2 DEF IInv, FilesInv
  <2>4. CASE ~CreateTables(b) /\ ~Commit(b)
    BY <2>1, <2>4 DEF Build, Begin, CheckTarget, CheckTemp, Unlink, Replace, ReturnAnchor, Crash
  <2> QED BY <2>2, <2>3, <2>4
<1> QED BY <1>1, <1>2 DEF Next

\* A committed file is never written again (create_energy_database).
THEOREM CommittedStays == Spec => CommittedIsFinal
<1>1. IInv /\ [Next]_vars =>
          [\A i \in 1..Len(files) : files[i].build # 0 => files'[i] = files[i]]_vars
  BY CommittedStep
<1> QED BY <1>1, IInvInvariant, PTL DEF Spec, CommittedIsFinal

-----------------------------------------------------------------------------
(* Importers that do not overlap.                                          *)

\* Where the one importer is tells what the two directory entries hold.
PlaceOf(b) ==
    /\ builder[b].pc = "unlink" => temp # 0
    /\ builder[b].pc = "create" => temp = 0
    /\ builder[b].pc = "insert" => temp = builder[b].file
    /\ builder[b].pc = "replace" =>
          /\ temp = builder[b].file /\ temp # 0
          /\ files[temp].build = builder[b].build
    /\ builder[b].pc = "hash" => target # 0 /\ files[target].build = builder[b].build

FailedEarned(f) ==
    /\ f.build \in 1..Len(inputs)
    /\ \/ f.why = "exists" /\ ~inputs[f.build].overwrite
       \/ f.why = "duplicate" /\ ~Insertable(inputs[f.build])

Alone ==
    /\ \A b, c \in Builders : Active(b) /\ Active(c) => b = c
    /\ \A b \in Builders : PlaceOf(b)
    /\ target # 0 => files[target].build # 0
    /\ \A a \in anchors : a.digest = a.build
    /\ \A f \in failed : FailedEarned(f)

RecoverInv ==
    /\ Len(inputs) <= MaxBuilds
    /\ \A b \in Builders : builder[b].pc = "replace" => builder[b].file \in 1..Len(files)
    /\ ~overlapped => Alone

\* Initially no builds have overlapped and none is at work.
LEMMA RecoverInit == Init => RecoverInv
BY MaxBuildsAssumption DEF Init, RecoverInv, Alone, PlaceOf, Active, Idle

\* A step of an importer other than the first and the two that write a file.
LEMMA ImporterMoves ==
    ASSUME IInv, RecoverInv, NEW b \in Builders, NEW pc \in PCs \ {"replace"},
           UNCHANGED <<files, inputs, overlapped>>, Active(b),
           \/ builder' = [builder EXCEPT ![b].pc = pc] \/ builder' = [builder EXCEPT ![b] = Idle],
           ~overlapped =>
               /\ PlaceOf(b)'
               /\ target' # 0 => files[target'].build # 0
               /\ \A a \in anchors' \ anchors : a.digest = a.build
               /\ \A f \in failed' \ failed : FailedEarned(f)
    PROVE  RecoverInv'
<1>1. \A c \in Builders : c # b => builder'[c] = builder[c]
  BY DEF IInv, BuilderInv
<1>2. \A c \in Builders : builder'[c].pc = "replace" => builder'[c].file \in 1..Len(files')
  BY <1>1 DEF IInv, BuilderInv, RecoverInv, Idle
<1>3. ASSUME ~overlapped PROVE Alone'
  <2>1. \A c \in Builders : c # b => builder[c].pc = "idle" /\ builder'[c].pc = "idle"
    BY <1>1, <1>3 DEF RecoverInv, Alone, Active
  <2>2. \A c, d \in Builders : Active(c)' /\ Active(d)' => c = d
    BY <2>1 DEF Active
  <2>3. \A c \in Builders : PlaceOf(c)'
    BY <1>3, <2>1 DEF PlaceOf
  <2>4. \A a \in anchors' : a.digest = a.build
    BY <1>3 DEF RecoverInv, Alone
  <2>5. \A f \in failed' : FailedEarned(f)'
    BY <1>3 DEF RecoverInv, Alone, FailedEarned
  <2> QED BY <1>3, <2>2, <2>3, <2>4, <2>5 DEF Alone
<1> QED BY <1>2, <1>3 DEF RecoverInv

\* A lone importer goes on from what the step before has found.
LEMMA RecoverStep ==
    ASSUME IInv, RecoverInv, NEW b \in Builders, Build(b)
    PROVE  RecoverInv'
<1> USE DEF Fail, Leave, Goto, Searching
<1>0. \A pc \in PCs : pc # "idle" /\ builder[b].pc = pc => builder[b].build \in 1..Len(inputs)
  BY DEF IInv, BuilderInv
<1>a. builder[b] \in [pc : PCs, build : Nat, file : Nat] /\ DOMAIN builder = Builders
  BY DEF IInv, BuilderInv
<1>b. ~overlapped => PlaceOf(b)
  BY DEF RecoverInv, Alone
<1>1. CASE \E input \in Inputs : Begin(b, input)
  <2>1. PICK input \in Inputs : Begin(b, input)
    BY <1>1
  <2>2. /\ inputs' = Append(inputs, input) /\ Len(inputs) < MaxBuilds
        /\ overlapped' = (overlapped \/ \E other \in Builders : Active(other))
        /\ UNCHANGED <<files, target, temp, anchors, failed>>
        /\ builder' = [builder EXCEPT ![b] =
                          [pc |-> "check", build |-> Len(inputs) + 1, file |-> 0]]
    BY <2>1 DEF Begin
  <2>3. /\ Len(inputs') = Len(inputs) + 1 /\ Len(inputs) \in Nat
        /\ \A i \in 1..Len(inputs) : inputs'[i] = inputs[i]
    BY <2>2 DEF IInv, FilesInv
  <2>4. Len(inputs') <= MaxBuilds
    BY <2>2, <2>3, MaxBuildsAssumption
  <2>5. \A c \in Builders : c # b => builder'[c] = builder[c]
    BY <2>2, <1>a
  <2>6. builder'[b].pc = "check"
    BY <2>2, <1>a
  <2>7. ASSUME ~overlapped' PROVE Alone'
    <3>1. ~overlapped /\ \A c \in Builders : builder[c].pc = "idle"
      BY <2>2, <2>7 DEF Active
    <3>2. \A c, d \in Builders : Active(c)' /\ Active(d)' => c = d
      BY <2>5, <3>1 DEF Active
    <3>3. \A c \in Builders : PlaceOf(c)'
      BY <2>5, <2>6, <3>1 DEF PlaceOf
    <3>4. \A f \in failed' : FailedEarned(f)'
      BY <2>2, <2>3, <3>1 DEF RecoverInv, Alone, FailedEarned
    <3> QED BY <2>2, <3>1, <3>2, <3>3, <3>4 DEF RecoverInv, Alone
  <2>8. \A c \in Builders : builder'[c].pc = "replace" => builder'[c].file \in 1..Len(files')
    BY <2>2, <2>5, <2>6 DEF RecoverInv
  <2> QED BY <2>4, <2>7, <2>8 DEF RecoverInv
<1>2. CASE CheckTarget(b)
  <2>1. CASE MayReplace(b)
    <3>1. PlaceOf(b)'
      BY <1>2, <2>1, <1>a DEF CheckTarget, PlaceOf
    <3> QED BY <1>2, <2>1, <3>1, ImporterMoves DEF CheckTarget, Active, RecoverInv, Alone, PCs
  <2>2. CASE ~MayReplace(b)
    <3>1. PlaceOf(b)'
      BY <1>2, <2>2, <1>a DEF CheckTarget, PlaceOf, Idle
    <3>2. \A f \in failed' \ failed : FailedEarned(f)
      BY <1>0, <1>2, <2>2 DEF CheckTarget, MayReplace, FailedEarned, PCs
    <3> QED BY <1>2, <2>2, <3>1, <3>2, ImporterMoves DEF CheckTarget, Active, RecoverInv, Alone, PCs
  <2> QED BY <2>1, <2>2
<1>3. CASE CheckTemp(b)
  <2>1. PlaceOf(b)'
    BY <1>3, <1>a DEF CheckTemp, PlaceOf
  <2> QED BY <1>3, <2>1, ImporterMoves DEF CheckTemp, Active, RecoverInv, Alone, PCs
<1>4. CASE Unlink(b)
  <2>1. CASE temp = 0
    <3>1. overlapped
      BY <1>4, <1>b, <2>1 DEF Unlink, PlaceOf
    <3> QED BY <1>4, <2>1, <3>1, ImporterMoves DEF Unlink, Active, PCs
  <2>2. CASE temp # 0
    <3>1. PlaceOf(b)'
      BY <1>4, <1>a, <2>2 DEF Unlink, PlaceOf
    <3> QED BY <1>4, <2>2, <3>1, ImporterMoves DEF Unlink, Active, RecoverInv, Alone, PCs
  <2> QED BY <2>1, <2>2
<1>5. CASE CreateTables(b)
  <2>1. CASE temp # 0
    <3>1. overlapped
      BY <1>5, <1>b, <2>1 DEF CreateTables, PlaceOf
    <3> QED BY <1>5, <2>1, <3>1, ImporterMoves DEF CreateTables, Active, PCs
  <2>2. CASE temp = 0
    <3>1. /\ files' = Append(files, EmptyFile(b)) /\ temp' = Len(files) + 1
          /\ builder' = [builder EXCEPT ![b].pc = "insert", ![b].file = Len(files) + 1]
          /\ UNCHANGED <<target, inputs, anchors, failed, overlapped>>
      BY <1>5, <2>2 DEF CreateTables
    <3>2. /\ Len(files') = Len(files) + 1 /\ Len(files) \in Nat
          /\ \A i \in 1..Len(files) : files'[i] = files[i]
      <4>1. EmptyFile(b) \in FileType
        BY DEF EmptyFile, FileType
      <4> QED BY <3>1, <4>1 DEF IInv, FilesInv
    <3>3. \A c \in Builders : c # b => builder'[c] = builder[c]
      BY <3>1, <1>a
    <3>4. builder'[b].pc = "insert" /\ builder'[b].file = temp'
      BY <3>1, <1>a
    <3>5. \A c \in Builders : builder'[c].pc = "replace" => builder'[c].file \in 1..Len(files')
      BY <3>2, <3>3, <3>4 DEF RecoverInv
    <3>6. ASSUME ~overlapped PROVE Alone'
      <4>1. \A c \in Builders : c # b => builder'[c].pc = "idle"
        BY <1>5, <3>3, <3>6 DEF RecoverInv, Alone, Active, CreateTables
      <4>2. \A c, d \in Builders : Active(c)' /\ Active(d)' => c = d
        BY <4>1 DEF Active
      <4>3. \A c \in Builders : PlaceOf(c)'
        BY <3>4, <4>1 DEF PlaceOf
      <4>4. target' # 0 => files'[target'].build # 0
        BY <3>1, <3>2, <3>6 DEF RecoverInv, Alone, IInv, FilesInv
      <4>5. \A f \in failed' : FailedEarned(f)'
        BY <3>1, <3>6 DEF RecoverInv, Alone, FailedEarned
      <4> QED BY <3>1, <3>6, <4>2, <4>3, <4>4, <4>5 DEF RecoverInv, Alone
    <3> QED BY <3>1, <3>5, <3>6 DEF RecoverInv
  <2> QED BY <2>1, <2>2
<1>6. CASE Commit(b)
  <2>1. CASE ~Insertable(inputs[builder[b].build])
    <3>1. PlaceOf(b)'
      BY <1>6, <2>1, <1>a DEF Commit, PlaceOf, Idle
    <3>2. \A f \in failed' \ failed : FailedEarned(f)
      BY <1>0, <1>6, <2>1 DEF Commit, FailedEarned, PCs
    <3> QED BY <1>6, <2>1, <3>1, <3>2, ImporterMoves DEF Commit, Active, RecoverInv, Alone, PCs
  <2>2. CASE Insertable(inputs[builder[b].build])
    <3> DEFINE n == builder[b].build
               f == builder[b].file
               new == [build |-> n, rows |-> Tables(inputs[n])]
    <3>1. /\ files' = [files EXCEPT ![f] = new]
          /\ builder' = [builder EXCEPT ![b].pc = "replace"]
          /\ UNCHANGED <<target, temp, inputs, anchors, failed, overlapped>>
      BY <1>6, <2>2 DEF Commit
    <3>2. n \in 1..Len(inputs) /\ f \in 1..Len(files) /\ n # 0
      BY <1>6 DEF Commit, IInv, BuilderInv
    <3>3. new.build = n /\ builder[b].pc = "insert"
      BY <1>6 DEF Commit
    <3>4. builder'[b].pc = "replace" /\ builder'[b].file = f /\ builder'[b].build = n
      BY <3>1, <1>a
    <3>5. \A c \in Builders : c # b => builder'[c] = builder[c]
      BY <3>1, <1>a
    <3> HIDE DEF n, f, new
    <3>6. /\ Len(files') = Len(files) /\ Len(files) \in Nat
          /\ files'[f] = new /\ \A i \in 1..Len(files) : i # f => files'[i] = files[i]
      BY <3>1, <3>2 DEF IInv, FilesInv
    <3>7. \A c \in Builders : builder'[c].pc = "replace" => builder'[c].file \in 1..Len(files')
      BY <3>2, <3>4, <3>5, <3>6 DEF RecoverInv
    <3>8. ASSUME ~overlapped PROVE Alone'
      <4>1. \A c \in Builders : c # b => builder'[c].pc = "idle"
        BY <3>3, <3>5, <3>8 DEF RecoverInv, Alone, Active
      <4>2. \A c, d \in Builders : Active(c)' /\ Active(d)' => c = d
        BY <4>1 DEF Active
      <4>3. temp' = f /\ f # 0
        BY <1>b, <3>1, <3>2, <3>3, <3>8 DEF PlaceOf, f
      <4>4. \A c \in Builders : PlaceOf(c)'
        BY <3>3, <3>4, <3>6, <4>1, <4>3 DEF PlaceOf
      <4>5. target' # 0 => files'[target'].build # 0
        BY <3>1, <3>2, <3>3, <3>6, <3>8 DEF RecoverInv, Alone, IInv, FilesInv
      <4>6. \A x \in failed' : FailedEarned(x)'
        BY <3>1, <3>8 DEF RecoverInv, Alone, FailedEarned
      <4> QED BY <3>1, <3>8, <4>2, <4>4, <4>5, <4>6 DEF RecoverInv, Alone
    <3> QED BY <3>1, <3>7, <3>8 DEF RecoverInv
  <2> QED BY <2>1, <2>2
<1>7. CASE Replace(b)
  <2>1. CASE temp = 0
    <3>1. overlapped
      BY <1>7, <1>b, <2>1 DEF Replace, PlaceOf
    <3> QED BY <1>7, <2>1, <3>1, ImporterMoves DEF Replace, Active, PCs
  <2>2. CASE temp # 0
    <3>1. /\ target' = temp /\ builder' = [builder EXCEPT ![b].pc = "hash"]
          /\ builder[b].pc = "replace"
          /\ UNCHANGED <<files, inputs, anchors, failed, overlapped>>
      BY <1>7, <2>2 DEF Replace
    <3>2. builder'[b].pc = "hash" /\ builder'[b].build = builder[b].build
      BY <3>1, <1>a
    <3>3. ~overlapped => PlaceOf(b)'
      BY <1>b, <2>2, <3>1, <3>2 DEF PlaceOf
    <3>4. ~overlapped => files[target'].build # 0
      BY <1>0, <1>b, <3>1 DEF PlaceOf, PCs
    <3> QED BY <3>1, <3>3, <3>4, ImporterMoves DEF Active, PCs
  <2> QED BY <2>1, <2>2
<1>8. CASE ReturnAnchor(b)
  <2>1. PlaceOf(b)'
    BY <1>8, <1>a DEF ReturnAnchor, PlaceOf, Idle
  <2>2. ~overlapped => \A a \in anchors' \ anchors : a.digest = a.build
    BY <1>8, <1>b DEF ReturnAnchor, PlaceOf
  <2> QED BY <1>8, <2>1, <2>2, ImporterMoves DEF ReturnAnchor, Active, RecoverInv, Alone, PCs
<1>9. CASE Crash(b)
  <2>1. PlaceOf(b)'
    BY <1>9, <1>a DEF Crash, PlaceOf, Idle
  <2>2. /\ Active(b) /\ builder' = [builder EXCEPT ![b] = Idle] /\ "idle" \in PCs \ {"replace"}
        /\ UNCHANGED <<files, target, temp, inputs, anchors, failed, overlapped>>
    BY <1>9 DEF Crash, PCs
  <2> QED BY <2>1, <2>2, ImporterMoves DEF RecoverInv, Alone
<1> QED BY <1>1, <1>2, <1>3, <1>4, <1>5, <1>6, <1>7, <1>8, <1>9 DEF Build

\* Every step keeps the recovery invariant.
LEMMA RecoverKept == IInv /\ RecoverInv /\ [Next]_vars => RecoverInv'
<1>1. ASSUME RecoverInv, UNCHANGED <<files, target, temp, inputs, builder, anchors, failed, overlapped>>
      PROVE  RecoverInv'
  BY <1>1 DEF RecoverInv, Alone, PlaceOf, FailedEarned, Active
<1>2. ASSUME NEW r \in Readers, SearchStep(r)
      PROVE  UNCHANGED <<files, target, temp, inputs, builder, anchors, failed, overlapped>>
  BY <1>2 DEF SearchStep, StartSearch, Open, ReadMetadata, HashFile, Query, Rest, Untouched
<1>3. UNCHANGED vars => UNCHANGED <<files, target, temp, inputs, builder, anchors, failed, overlapped>>
  BY DEF vars
<1> QED BY <1>1, <1>2, <1>3, RecoverStep DEF Next

\* Importers that do not overlap build all or nothing, however often one is killed: the
\* target is whole, an anchor names its own build, and a build fails for its own input or
\* an existing target only (create_energy_database).
THEOREM BuildsRecovered == Spec => []BuildsRecover
<1>1. IInv /\ RecoverInv => TypeOK
  <2> SUFFICES ASSUME IInv, RecoverInv PROVE TypeOK
    OBVIOUS
  <2>1. \A i \in 1..Len(files) : files[i].build \in 0..Len(inputs)
    BY DEF IInv, FilesInv
  <2>2. \A b \in Builders :
           /\ builder[b].pc \in PCs
           /\ builder[b].pc \in {"insert", "replace"} => builder[b].file \in 1..Len(files)
    BY DEF IInv, BuilderInv, RecoverInv
  <2>3. \A r \in Readers :
           reader[r].pc \in {"metadata", "hash", "query"} => reader[r].file \in 1..Len(files)
    BY DEF IInv, ReaderInv, FilesInv
  <2> QED BY <2>1, <2>2, <2>3 DEF IInv, FilesInv, RecoverInv, TypeOK
<1>2. IInv /\ RecoverInv => BuildsAreAtomic
  BY DEF IInv, FilesInv, RecoverInv, Alone, BuildsAreAtomic, Whole
<1>3. RecoverInv => FailuresAreEarned
  BY DEF RecoverInv, Alone, FailedEarned, FailuresAreEarned
<1>4. IInv /\ RecoverInv => BuildsRecover
  BY <1>1, <1>2, <1>3 DEF BuildsRecover
<1> QED BY <1>4, IInvInvariant, RecoverInit, RecoverKept, PTL DEF Spec

-----------------------------------------------------------------------------
(* The rows that come from the workbook.                                   *)

\* A row of the workbook at a level, and its record among the others.
Marked(p, profiles) ==
    [p EXCEPT !.eligible = @ /\ ~Ambiguous(p, profiles), !.ambiguous = Ambiguous(p, profiles)]

\* The row that the profile of a line becomes.
Profile(workbook, row, level) ==
    product_row(Marked(level_profile(row, level), level_profiles(workbook)))

\* What is known of the inputs of a build.
Sheet(input) == input \in Inputs /\ WellFormed(input)

\* A profile in the tables is that of one line at one level, with its marks.
LEMMA ProfileRow ==
    ASSUME NEW input, NEW p \in Tables(input).profiles
    PROVE  \E row \in input.workbook, level \in Levels :
              LET raw == level_profile(row, level)
                  twin == Ambiguous(raw, level_profiles(input.workbook))
              IN  /\ p.row = row.line /\ p.level = level /\ p.product = norm(row.canonical)
                  /\ p.total = row.levels[level].total
                  /\ p.electricity = row.levels[level].share
                  /\ p.remainder = 100 - row.levels[level].share
                  /\ p.ambiguous = twin /\ p.eligible = (raw.eligible /\ ~twin)
                  /\ p = Profile(input.workbook, row, level)
<1> DEFINE profiles == level_profiles(input.workbook)
<1>1. PICK m \in extract_enterprise_profiles(input.workbook) : p = product_row(m)
  BY DEF Tables
<1>2. PICK raw \in profiles : m = Marked(raw, profiles)
  BY <1>1, Zenon DEF extract_enterprise_profiles, Marked
<1>3. PICK row \in input.workbook, level \in Levels : raw = level_profile(row, level)
  BY <1>2 DEF level_profiles
<1> HIDE DEF profiles
<1>4. p = product_row(Marked(level_profile(row, level), profiles))
  BY <1>1, <1>2, <1>3
<1> DEFINE twin == Ambiguous(level_profile(row, level), profiles)
<1>5. /\ p.row = row.line /\ p.level = level /\ p.product = norm(row.canonical)
      /\ p.total = row.levels[level].total
      /\ p.electricity = row.levels[level].share
      /\ p.remainder = 100 - row.levels[level].share
      /\ p.ambiguous = twin /\ p.eligible = (level_profile(row, level).eligible /\ ~twin)
  <2> DEFINE ca == level_profile(row, level).carrier
             el == level_profile(row, level).eligible
             raw2 == [row |-> row.line, level |-> level, product |-> row.canonical,
                      head |-> row.head, process |-> row.process,
                      total |-> row.levels[level].total, electricity |-> row.levels[level].share,
                      remainder |-> 100 - row.levels[level].share,
                      carrier |-> ca, eligible |-> el, ambiguous |-> FALSE]
  <2>1. level_profile(row, level) = raw2
    BY Zenon DEF level_profile
  <2>2. Marked(raw2, profiles)
          = [raw2 EXCEPT !.eligible = el /\ ~Ambiguous(raw2, profiles),
                         !.ambiguous = Ambiguous(raw2, profiles)]
    <3> HIDE DEF ca, el
    <3>1. QED
      BY DEF Marked
  <2>3. p = product_row([raw2 EXCEPT !.eligible = el /\ ~twin, !.ambiguous = twin])
    <3> HIDE DEF raw2, el, ca
    <3>1. QED
      BY <1>4, <2>1, <2>2, Zenon DEF twin
  <2> HIDE DEF twin, ca, el
  <2>4. QED
    BY <2>1, <2>3 DEF product_row, el
<1>6. QED
  BY <1>4, <1>5 DEF profiles, Profile

\* A line has one profile per level.
LEMMA OneProfilePerLine ==
    ASSUME NEW input, Sheet(input), NEW p \in Tables(input).profiles,
           NEW q \in Tables(input).profiles, p.row = q.row, p.level = q.level
    PROVE  p = q
<1>1. PICK x \in input.workbook, k \in Levels :
         /\ p.row = x.line /\ p.level = k
         /\ p = Profile(input.workbook, x, k)
  BY ProfileRow, Zenon
<1>2. PICK y \in input.workbook, l \in Levels :
         /\ q.row = y.line /\ q.level = l
         /\ q = Profile(input.workbook, y, l)
  BY ProfileRow, Zenon
<1>3. x = y /\ k = l
  BY <1>1, <1>2, WorkbooksAssumption DEF Sheet
<1>4. QED
  BY <1>1, <1>2, <1>3, Zenon

\* Two profiles of one product and level are marked, and not eligible.
LEMMA TwinsAreMarked ==
    ASSUME NEW input, Sheet(input), NEW p \in Tables(input).profiles,
           NEW q \in Tables(input).profiles,
           p.row # q.row, p.level = q.level, p.product = q.product
    PROVE  p.ambiguous /\ ~p.eligible
<1> DEFINE profiles == level_profiles(input.workbook)
<1>1. PICK x \in input.workbook, k \in Levels :
         /\ p.row = x.line /\ p.level = k /\ p.product = norm(x.canonical)
         /\ p.ambiguous = Ambiguous(level_profile(x, k), profiles)
         /\ p.eligible = (level_profile(x, k).eligible /\ ~Ambiguous(level_profile(x, k), profiles))
  BY ProfileRow, Zenon
<1>2. PICK y \in input.workbook, l \in Levels :
         q.row = y.line /\ q.level = l /\ q.product = norm(y.canonical)
  BY ProfileRow
<1>3. Twin(level_profile(x, k), level_profile(y, l))
  BY <1>1, <1>2 DEF Twin, level_profile
<1>4. level_profile(y, l) \in profiles
  BY DEF level_profiles
<1>5. Ambiguous(level_profile(x, k), profiles)
  BY <1>3, <1>4, Zenon DEF Ambiguous
<1>6. QED
  BY <1>1, <1>5, Zenon

\* The shares of a profile close.
LEMMA SharesClose ==
    ASSUME NEW input, Sheet(input), NEW p \in Tables(input).profiles
    PROVE  /\ p.electricity \in Int /\ p.remainder \in Int
           /\ p.electricity + p.remainder = 100
<1>1. PICK m \in extract_enterprise_profiles(input.workbook) : p = product_row(m)
  BY DEF Tables
<1>2. profile_valid(m)
  BY <1>1 DEF Sheet, WellFormed
<1>3. p.electricity = m.electricity /\ p.remainder = m.remainder
  BY <1>1 DEF product_row
<1>4. QED
  BY <1>2, <1>3 DEF profile_valid

\* There are finitely many profiles.
LEMMA ProfilesFinite ==
    ASSUME NEW input, Sheet(input)
    PROVE  IsFiniteSet(Tables(input).profiles)
<1> DEFINE places == input.workbook \X Levels
           all == Tables(input).profiles
           made == [x \in places |-> Profile(input.workbook, x[1], x[2])]
           image == {made[x] : x \in places}
<1>1. IsFiniteSet(Levels)
  BY FS_Interval, 1 \in Int, 3 \in Int DEF Levels
<1>2. IsFiniteSet(places)
  BY <1>1, FS_Product, WorkbooksAssumption DEF Sheet
<1>3. IsFiniteSet(image)
  <2> HIDE DEF places
  <2>1. made \in Surjection(places, image)
    BY DEF Surjection
  <2> HIDE DEF made, image
  <2>2. QED
    BY <1>2, <2>1, FS_Surjection
<1>4. all \subseteq image
  <2> SUFFICES ASSUME NEW p \in Tables(input).profiles PROVE p \in image
    OBVIOUS
  <2>1. PICK x \in input.workbook, k \in Levels : p = Profile(input.workbook, x, k)
    BY ProfileRow, Zenon
  <2>2. <<x, k>> \in places /\ made[<<x, k>>] = p
    BY <2>1
  <2> HIDE DEF made, places
  <2>3. QED
    BY <2>2
<1> HIDE DEF image, all
<1>5. IsFiniteSet(all)
  BY <1>3, <1>4, FS_Subset
<1>6. QED
  BY <1>5 DEF all

\* An emission in the tables belongs to a profile, and a zero beside a trigger asks for
\* the calculation.
LEMMA EmissionRow ==
    ASSUME NEW input, NEW e \in Tables(input).emissions
    PROVE  /\ e.trigger /\ e.value = 0 => e.calculation
           /\ \E p \in Tables(input).profiles :
                 p.row = e.row /\ p.level = e.level /\ p.eligible = e.eligible
<1>1. PICK raw \in extract_enterprise_process_emissions(input.workbook) : e = product_row(raw)
  BY DEF Tables
<1>2. PICK m \in extract_enterprise_profiles(input.workbook) :
         LET row == CHOOSE r \in input.workbook : r.line = m.row
             seen == interpret_process_emission_observation(
                         row.levels[m.level].emission, row.trigger)
         IN  raw = [row |-> m.row, level |-> m.level, product |-> m.product,
                    process |-> m.process, eligible |-> m.eligible,
                    trigger |-> row.trigger, value |-> seen.value,
                    calculation |-> seen.calculation]
  BY <1>1 DEF extract_enterprise_process_emissions
<1> DEFINE row == CHOOSE r \in input.workbook : r.line = m.row
           seen == interpret_process_emission_observation(
                       row.levels[m.level].emission, row.trigger)
<1>3. /\ e.row = m.row /\ e.level = m.level /\ e.eligible = m.eligible
      /\ e.trigger = row.trigger /\ e.value = seen.value /\ e.calculation = seen.calculation
  <2> HIDE DEF row, seen
  <2>1. raw = [row |-> m.row, level |-> m.level, product |-> m.product,
               process |-> m.process, eligible |-> m.eligible,
               trigger |-> row.trigger, value |-> seen.value,
               calculation |-> seen.calculation]
    BY <1>2 DEF row, seen
  <2>2. QED
    BY <1>1, <2>1 DEF product_row
<1>4. e.trigger /\ e.value = 0 => e.calculation
  <2>1. seen.calculation = (row.trigger /\ seen.value = 0)
    <3> HIDE DEF row
    <3>1. QED
      BY DEF interpret_process_emission_observation
  <2> HIDE DEF row, seen
  <2>2. QED
    BY <1>3, <2>1, Zenon
<1>5. PICK p \in Tables(input).profiles : p = product_row(m)
  BY DEF Tables
<1>6. PICK raw2 \in level_profiles(input.workbook) :
         m = Marked(raw2, level_profiles(input.workbook))
  BY <1>2, Zenon DEF extract_enterprise_profiles, Marked
<1>7. p.row = m.row /\ p.level = m.level /\ p.eligible = m.eligible
  BY <1>5, <1>6 DEF product_row, Marked, level_profiles, level_profile
<1>8. QED
  BY <1>3, <1>4, <1>5, <1>7

-----------------------------------------------------------------------------
(* What a search appends, of tables that are those of one input.           *)

ProfilesOf(t, s, side) == profile_rows(t, s.options, Party(s, side))

Total(side, p) == Item(1, "enterprise", p.row, <<side, "total">>, p.total)

\* Both sides have a profile with electricity and gas only.
Shared(t, s) ==
    \A side \in Sides :
        \E p \in ProfilesOf(t, s, side) : p.carrier \in {"natural_gas", "none"}

\* No lookup raises.
Unraised(t, s) == \A side \in Sides : ~Raises(t, s.options, Party(s, side))

\* A side has one profile.
LEMMA OneProfile ==
    ASSUME NEW input, Sheet(input), NEW s, Unraised(Tables(input), s), NEW side \in Sides,
           NEW p \in ProfilesOf(Tables(input), s, side),
           NEW q \in ProfilesOf(Tables(input), s, side)
    PROVE  p = q
<1> DEFINE rows == ProfilesOf(Tables(input), s, side)
<1>1. rows \subseteq Tables(input).profiles
  BY DEF ProfilesOf, profile_rows
<1>2. ~(Cardinality(rows) > 1)
  BY DEF Unraised, Raises, ProfilesOf
<1> HIDE DEF rows
<1>3. IsFiniteSet(rows) /\ Cardinality(rows) \in Nat
  BY <1>1, ProfilesFinite, FS_Subset, FS_CardinalityType
<1>4. SUFFICES ASSUME p # q PROVE FALSE
  OBVIOUS
<1>5. IsFiniteSet({q}) /\ Cardinality({q}) = 1
  BY FS_Singleton
<1>6. Cardinality({q} \cup {p}) = 2
  BY <1>4, <1>5, FS_AddElement
<1>7. {q} \cup {p} \in SUBSET rows
  BY DEF rows
<1>8. Cardinality({q} \cup {p}) <= Cardinality(rows)
  BY <1>3, <1>7, FS_Subset
<1>9. QED
  BY <1>2, <1>3, <1>6, <1>8

\* The items that come from the workbook.
LEMMA EnterpriseItems ==
    ASSUME NEW t, NEW s, NEW i \in appended(t, s), i.origin = "enterprise"
    PROVE  \E side \in Sides :
              \/ \E p \in ProfilesOf(t, s, side) : i = Total(side, p)
              \/ Shared(t, s) /\ \E p \in ProfilesOf(t, s, side) : i \in shares(side, p)
              \/ i \in emission_evidence(t, s, side)
<1>1. CASE \E side \in Sides : i \in total_evidence(t, s, side)
  <2>1. PICK side \in Sides : i \in total_evidence(t, s, side)
    BY <1>1
  <2>2. CASE profile_rows(t, s.options, Party(s, side)) # {}
    BY <2>1, <2>2 DEF total_evidence, Total, ProfilesOf
  <2>3. CASE profile_rows(t, s.options, Party(s, side)) = {}
    <3>1. PICK q \in quota_rows(t, s.options, Party(s, side)) :
             i = Item(1, "quota", q.id, <<side, "total">>, q.value)
      BY <2>1, <2>3 DEF total_evidence
    <3>2. QED
      BY <3>1 DEF Item
  <2>4. QED
    BY <2>2, <2>3
<1>2. CASE \E side \in Sides : i \in emission_evidence(t, s, side)
  BY <1>2
<1>3. CASE i \in share_evidence(t, s)
  <2>1. Shared(t, s)
    BY <1>3 DEF share_evidence, Shared, ProfilesOf
  <2>2. i \in UNION {UNION {shares(side, p) : p \in ProfilesOf(t, s, side)} : side \in Sides}
    BY <1>3, <2>1 DEF share_evidence, Shared, ProfilesOf
  <2>3. QED
    BY <2>1, <2>2
<1>4. CASE i \in conversion_evidence(t) \cup generic_evidence(t, s)
  BY <1>4 DEF conversion_evidence, generic_evidence, Item
<1>5. CASE i \in scoped_evidence(t, s) \cup inclusion_evidence(t, s)
  BY <1>5 DEF scoped_evidence, inclusion_evidence, Item
<1>6. QED
  BY <1>1, <1>2, <1>3, <1>4, <1>5 DEF appended

EmissionRows(t, s, side) == emission_rows(t, s.options, Party(s, side))

LeastRow(rows) == Min({e.row : e \in rows})

\* A side has one item of emissions at most.
LEMMA EmissionItem ==
    ASSUME NEW t, NEW s, NEW side, NEW i \in emission_evidence(t, s, side)
    PROVE  /\ emission_evidence(t, s, side) = {i}
           /\ i.name = <<side, "process_emission">> /\ i.origin = "enterprise"
           /\ EmissionRows(t, s, side) # {} /\ i.id = LeastRow(EmissionRows(t, s, side))
           /\ i.calculation = calculation_required(EmissionRows(t, s, side))
<1> DEFINE rows == emission_rows(t, s.options, Party(s, side))
           sum == MapThenSumSet(LAMBDA e : e.value, rows)
           least == Min({e.row : e \in rows})
           required == calculation_required(rows)
           item == [Item(3, "enterprise", least, <<side, "process_emission">>, sum)
                    EXCEPT !.calculation = required]
<1>1. rows # {} /\ emission_evidence(t, s, side) = {item}
  BY Zenon DEF emission_evidence
<1> HIDE DEF rows, sum, least, required
<1>2. /\ item.name = <<side, "process_emission">> /\ item.id = least
      /\ item.origin = "enterprise" /\ item.calculation = required
  BY DEF Item
<1> HIDE DEF item
<1>3. i = item
  BY <1>1
<1>4. QED
  BY <1>1, <1>2, <1>3, Zenon DEF rows, least, required, EmissionRows, LeastRow

\* The shares of a profile.
LEMMA ShareItem ==
    ASSUME NEW side, NEW p, NEW i \in shares(side, p)
    PROVE  \/ /\ i = Item(2, "enterprise", p.row, <<side, "electricity_share">>, p.electricity)
              /\ i.name = <<side, "electricity_share">> /\ i.id = p.row
              /\ i.value = p.electricity /\ i.origin = "enterprise"
           \/ /\ i = Item(2, "enterprise", p.row, <<side, "natural_gas_share">>, p.remainder)
              /\ i.name = <<side, "natural_gas_share">> /\ i.id = p.row
              /\ i.value = p.remainder /\ i.origin = "enterprise"
BY DEF shares, Item

\* The name of an item from the workbook says its side and where it comes from.
LEMMA NamedItems ==
    ASSUME NEW t, NEW s, NEW i \in appended(t, s), i.origin = "enterprise"
    PROVE  /\ i.name[1] \in Sides
           /\ \/ /\ i.name[2] = "total"
                 /\ \E p \in ProfilesOf(t, s, i.name[1]) : i = Total(i.name[1], p)
              \/ /\ i.name[2] \in {"electricity_share", "natural_gas_share"} /\ Shared(t, s)
                 /\ \E p \in ProfilesOf(t, s, i.name[1]) : i \in shares(i.name[1], p)
              \/ /\ i.name[2] = "process_emission"
                 /\ emission_evidence(t, s, i.name[1]) = {i}
<1>1. PICK a \in Sides :
         \/ \E p \in ProfilesOf(t, s, a) : i = Total(a, p)
         \/ Shared(t, s) /\ \E p \in ProfilesOf(t, s, a) : i \in shares(a, p)
         \/ i \in emission_evidence(t, s, a)
  BY EnterpriseItems
<1>2. CASE \E p \in ProfilesOf(t, s, a) : i = Total(a, p)
  <2>1. i.name = <<a, "total">>
    BY <1>2 DEF Total, Item
  <2>2. i.name[1] = a /\ i.name[2] = "total"
    BY <2>1
  <2>3. QED
    BY <1>2, <2>2
<1>3. CASE Shared(t, s) /\ \E p \in ProfilesOf(t, s, a) : i \in shares(a, p)
  <2>1. PICK p \in ProfilesOf(t, s, a) : i \in shares(a, p)
    BY <1>3
  <2>2. i.name = <<a, "electricity_share">> \/ i.name = <<a, "natural_gas_share">>
    BY <2>1, ShareItem
  <2>3. i.name[1] = a /\ i.name[2] \in {"electricity_share", "natural_gas_share"}
    BY <2>2
  <2>4. QED
    BY <1>3, <2>1, <2>3
<1>4. CASE i \in emission_evidence(t, s, a)
  <2>1. i.name = <<a, "process_emission">> /\ emission_evidence(t, s, a) = {i}
    BY <1>4, EmissionItem
  <2>2. i.name[1] = a /\ i.name[2] = "process_emission"
    BY <2>1
  <2>3. QED
    BY <2>1, <2>2
<1>5. QED
  BY <1>1, <1>2, <1>3, <1>4

\* Enterprise items with one name are one.
LEMMA OneItemPerName ==
    ASSUME NEW input, Sheet(input), NEW s, Unraised(Tables(input), s),
           NEW i \in appended(Tables(input), s), NEW j \in appended(Tables(input), s),
           i.origin = "enterprise", j.origin = "enterprise", i.name = j.name
    PROVE  i = j
<1> DEFINE t == Tables(input)
           a == i.name[1]
<1>1. /\ a \in Sides
      /\ \/ i.name[2] = "total" /\ \E p \in ProfilesOf(t, s, a) : i = Total(a, p)
         \/ /\ i.name[2] \in {"electricity_share", "natural_gas_share"}
            /\ \E p \in ProfilesOf(t, s, a) : i \in shares(a, p)
         \/ i.name[2] = "process_emission" /\ emission_evidence(t, s, a) = {i}
  BY NamedItems
<1>2. \/ i.name[2] = "total" /\ \E p \in ProfilesOf(t, s, a) : j = Total(a, p)
      \/ /\ i.name[2] \in {"electricity_share", "natural_gas_share"}
         /\ \E p \in ProfilesOf(t, s, a) : j \in shares(a, p)
      \/ i.name[2] = "process_emission" /\ emission_evidence(t, s, a) = {j}
  BY NamedItems
<1>3. \A p, q \in ProfilesOf(t, s, a) : p = q
  BY <1>1, OneProfile
<1>4. CASE i.name[2] = "total"
  BY <1>1, <1>2, <1>3, <1>4
<1>5. CASE i.name[2] = "process_emission"
  BY <1>1, <1>2, <1>5
<1>6. CASE i.name[2] \in {"electricity_share", "natural_gas_share"}
  <2>1. PICK p \in ProfilesOf(t, s, a) : i \in shares(a, p) /\ j \in shares(a, p)
    BY <1>1, <1>2, <1>3, <1>6
  <2> DEFINE e == Item(2, "enterprise", p.row, <<a, "electricity_share">>, p.electricity)
             g == Item(2, "enterprise", p.row, <<a, "natural_gas_share">>, p.remainder)
  <2>2. i \in {e, g} /\ j \in {e, g}
    BY <2>1 DEF shares
  <2>3. e.name = <<a, "electricity_share">> /\ g.name = <<a, "natural_gas_share">>
    BY DEF Item
  <2>4. e.name[2] # g.name[2]
    BY <2>3
  <2> HIDE DEF e, g
  <2>5. QED
    BY <2>2, <2>4
<1>7. QED
  BY <1>1, <1>4, <1>5, <1>6

\* What a search finds was appended, and with it everything from the workbook.
LEMMA FoundItems ==
    ASSUME NEW input, Sheet(input), NEW s, Unraised(Tables(input), s),
           NEW i \in search_evidence(Tables(input), s)
    PROVE  /\ i \in appended(Tables(input), s)
           /\ \A j \in appended(Tables(input), s) :
                 j.origin = "enterprise" =>
                    /\ j \in search_evidence(Tables(input), s)
                    /\ i.name = j.name => i = j
<1> DEFINE all == appended(Tables(input), s)
<1>1. search_evidence(Tables(input), s) = by_name(all)
  BY DEF search_evidence
<1>2. \A x, y \in all :
          x.origin = "enterprise" /\ y.origin = "enterprise" /\ x.name = y.name => x = y
  BY OneItemPerName
<1> HIDE DEF all
<1>3. i \in all /\ \A j \in all \ {i} : j.name = i.name =>
          IF i.origin = "enterprise" THEN j.origin = "enterprise" => After(j, i)
          ELSE j.origin # "enterprise" /\ After(i, j)
  BY <1>1 DEF by_name
<1>4. ASSUME NEW j \in all, j.origin = "enterprise"
      PROVE  j \in by_name(all) /\ (i.name = j.name => i = j)
  BY <1>2, <1>3, <1>4 DEF by_name
<1>5. QED
  BY <1>1, <1>3, <1>4 DEF all

-----------------------------------------------------------------------------
(* The evidence fits together.                                             *)

\* The order of the numbers, as a relation.
Under == {ss \in Nat \X Nat : ss[1] < ss[2]}

\* A set of numbers that is not empty has a least one.
LEMMA LeastNat ==
    ASSUME NEW T \in SUBSET Nat, T # {}
    PROVE \E x \in T : \A y \in T : x <= y
<1>1. OpToRel(<, Nat) = Under
  BY Zenon DEF OpToRel, Under
<1>2. IsWellFoundedOn(Under, Nat)
  BY <1>1, NatLessThanWellFounded, Zenon
<1>3. PICK x \in T : \A y \in T : ~ (<<y, x>> \in Under)
  BY <1>2, WFMin
<1>4. ASSUME NEW y \in T PROVE x <= y
  <2>1. <<y, x>> \notin Under
    BY <1>3
  <2>2. QED
    BY <2>1 DEF Under
<1>5. QED
  BY <1>4

\* The emissions of a side name a row they have.
LEMMA LeastRowIsARow ==
    ASSUME NEW input, Sheet(input), NEW rows, rows # {}, rows \subseteq Tables(input).emissions
    PROVE  \E e \in rows : e.row = LeastRow(rows)
<1> DEFINE T == {e.row : e \in rows}
<1>1. \A e \in rows : e.row \in Nat
  <2> SUFFICES ASSUME NEW e \in rows PROVE e.row \in Nat
    OBVIOUS
  <2>1. PICK p \in Tables(input).profiles : p.row = e.row
    BY EmissionRow
  <2>2. PICK x \in input.workbook : p.row = x.line
    BY ProfileRow
  <2>3. x.line \in Nat
    BY <2>2, WorkbooksAssumption DEF Sheet
  <2>4. QED
    BY <2>1, <2>2, <2>3
<1>2. T \in SUBSET Nat /\ T # {}
  BY <1>1
<1>3. LeastRow(rows) = CHOOSE x \in T : \A y \in T : x <= y
  BY DEF LeastRow, Min
<1>4. LeastRow(rows) \in T
  <2> HIDE DEF T
  <2>1. QED
    BY <1>2, <1>3, LeastNat
<1>5. QED
  BY <1>4

\* What a search adds to the evidence it found before.
LEMMA NewIsFound ==
    ASSUME NEW others, NEW found, NEW i \in composite(others, found) \ others
    PROVE  i \in found
BY DEF composite, Fresh

\* What it found of the workbook is in the evidence, as itself or as the same item.
LEMMA FoundIsKept ==
    ASSUME NEW others, NEW found, NEW j \in found, j.origin = "enterprise"
    PROVE  \E k \in composite(others, found) :
              k.origin = "enterprise" /\ k.name = j.name /\ k.id = j.id
<1>1. CASE ~Skipped(j, others, found)
  BY <1>1 DEF composite, Fresh
<1>2. CASE Skipped(j, others, found)
  <2>1. <<"target", "total">> # <<"reference", "total">>
    <3>1. <<"target", "total">>[1] # <<"reference", "total">>[1]
      OBVIOUS
    <3>2. QED
      BY <3>1
  <2>2. PICK k \in others : SameId(j, k)
    BY <1>2, <2>1 DEF Skipped, SameId
  <2>3. QED
    BY <2>2 DEF SameId, composite
<1>3. QED
  BY <1>1, <1>2

\* A share comes with the other share and the total of its profile.
LEMMA SharesTogether ==
    ASSUME NEW input, Sheet(input), NEW s, Unraised(Tables(input), s),
           NEW i \in search_evidence(Tables(input), s), i.origin = "enterprise",
           i.name[2] \in {"electricity_share", "natural_gas_share"}
    PROVE  /\ Accompanied(i, search_evidence(Tables(input), s))
           /\ Closes(i, search_evidence(Tables(input), s))
<1> DEFINE t == Tables(input)
           a == i.name[1]
           found == search_evidence(t, s)
<1>1. i \in appended(t, s)
  BY FoundItems
<1>2. a \in Sides /\ Shared(t, s) /\ \E p \in ProfilesOf(t, s, a) : i \in shares(a, p)
  BY <1>1, NamedItems
<1>3. PICK p \in ProfilesOf(t, s, a) : i \in shares(a, p)
  BY <1>2
<1> DEFINE e == Item(2, "enterprise", p.row, <<a, "electricity_share">>, p.electricity)
           g == Item(2, "enterprise", p.row, <<a, "natural_gas_share">>, p.remainder)
           total == Total(a, p)
<1>4. /\ e.name = <<a, "electricity_share">> /\ g.name = <<a, "natural_gas_share">>
      /\ total.name = <<a, "total">>
      /\ e.origin = "enterprise" /\ g.origin = "enterprise" /\ total.origin = "enterprise"
      /\ e.id = p.row /\ g.id = p.row /\ total.id = p.row
      /\ e.value = p.electricity /\ g.value = p.remainder
  BY DEF Item, Total
<1>5. i \in {e, g}
  BY <1>3 DEF shares
<1>6. total \in appended(t, s)
  <2>1. total \in total_evidence(t, s, a)
    BY DEF total_evidence, ProfilesOf, Total
  <2> HIDE DEF total
  <2>2. QED
    BY <1>2, <2>1 DEF appended
<1>7. e \in appended(t, s) /\ g \in appended(t, s)
  <2>1. shares(a, p) = {e, g}
    BY DEF shares
  <2> HIDE DEF e, g
  <2>2. share_evidence(t, s)
          = UNION {UNION {shares(side, x) : x \in ProfilesOf(t, s, side)} : side \in Sides}
    BY <1>2 DEF share_evidence, Shared, ProfilesOf
  <2>3. e \in share_evidence(t, s) /\ g \in share_evidence(t, s)
    BY <1>2, <2>1, <2>2
  <2>4. QED
    BY <2>3 DEF appended
<1> HIDE DEF e, g, total
<1>8. /\ e \in found /\ g \in found /\ total \in found
      /\ \A j \in found : (j.name = e.name => j = e) /\ (j.name = g.name => j = g)
  BY <1>4, <1>6, <1>7, FoundItems
<1>9. p.electricity \in Int /\ p.remainder \in Int /\ p.electricity + p.remainder = 100
  <2>1. p \in t.profiles
    BY DEF ProfilesOf, profile_rows
  <2>2. QED
    BY <2>1, SharesClose
<1>10. Accompanied(i, found)
  <2> SUFFICES ASSUME NEW quantity \in Quantities
               PROVE  \E j \in found :
                          j.name = <<a, quantity>> /\ j.origin = "enterprise" /\ j.id = i.id
    BY DEF Accompanied
  <2>1. QED
    BY <1>4, <1>5, <1>8 DEF Quantities
<1>11. ASSUME NEW j \in found, j.name # i.name,
              j.name \in {<<a, "electricity_share">>, <<a, "natural_gas_share">>}
       PROVE  i.value + j.value = 100
  <2>1. j.name \in {e.name, g.name}
    BY <1>4, <1>11
  <2>2. j \in {e, g} /\ j # i
    BY <1>8, <1>11, <2>1
  <2>3. QED
    BY <1>4, <1>5, <1>9, <2>2
<1>12. Closes(i, found)
  BY <1>11 DEF Closes
<1>13. QED
  BY <1>10, <1>12, Zenon

\* What the importer found twice stays out.
LEMMA TwinsStayOut ==
    ASSUME NEW input, Sheet(input), NEW s, Unraised(Tables(input), s),
           NEW i \in search_evidence(Tables(input), s), i.origin = "enterprise",
           i.name[2] # "process_emission" \/ ~s.options.review,
           NEW p \in Tables(input).profiles, NEW q \in Tables(input).profiles,
           p.row = i.id, p.level = s.options.level,
           q.row # p.row, q.level = p.level, q.product = p.product
    PROVE  FALSE
<1> DEFINE t == Tables(input)
           a == i.name[1]
<1>1. p.ambiguous /\ ~p.eligible
  BY TwinsAreMarked
<1>2. i \in appended(t, s)
  BY FoundItems
<1>3. CASE \E x \in ProfilesOf(t, s, a) : i = Total(a, x) \/ i \in shares(a, x)
  <2>1. PICK x \in ProfilesOf(t, s, a) : i = Total(a, x) \/ i \in shares(a, x)
    BY <1>3
  <2>2. i.id = x.row
    BY <2>1, ShareItem DEF Total, Item
  <2>3. x \in t.profiles /\ x.level = s.options.level /\ ~x.ambiguous
    BY DEF ProfilesOf, profile_rows
  <2>4. x = p
    BY <2>2, <2>3, OneProfilePerLine
  <2>5. QED
    BY <1>1, <2>3, <2>4
<1>4. CASE i.name[2] = "process_emission" /\ emission_evidence(t, s, a) = {i}
  <2> DEFINE rows == EmissionRows(t, s, a)
  <2>1. rows # {} /\ i.id = LeastRow(rows)
    BY <1>4, EmissionItem
  <2>2. \A e \in rows : e \in t.emissions /\ e.level = s.options.level /\ e.eligible
    BY <1>4 DEF EmissionRows, emission_rows, Usable
  <2> HIDE DEF rows
  <2>3. PICK e \in rows : e.row = i.id
    BY <2>1, <2>2, LeastRowIsARow
  <2>4. PICK x \in t.profiles : x.row = e.row /\ x.level = e.level /\ x.eligible = e.eligible
    BY <2>2, EmissionRow
  <2>5. x = p
    BY <2>2, <2>3, <2>4, OneProfilePerLine
  <2>6. QED
    BY <1>1, <2>2, <2>4, <2>5
<1>5. QED
  BY <1>2, <1>3, <1>4, NamedItems

\* A zero beside a trigger asks for the calculation.
LEMMA ZeroAsks ==
    ASSUME NEW input, NEW s, NEW i \in appended(Tables(input), s), i.origin = "enterprise",
           i.name[2] = "process_emission",
           NEW row \in emission_rows(Tables(input), s.options, Party(s, i.name[1])),
           row.trigger, row.value = 0
    PROVE  i.calculation
<1> DEFINE t == Tables(input)
           rows == EmissionRows(t, s, i.name[1])
<1>1. emission_evidence(t, s, i.name[1]) = {i}
  BY NamedItems
<1>2. i.calculation = calculation_required(rows)
  BY <1>1, EmissionItem
<1>3. row \in rows /\ row \in t.emissions
  BY DEF EmissionRows, emission_rows
<1>4. row.calculation
  BY <1>3, EmissionRow
<1>5. calculation_required(rows)
  BY <1>3, <1>4, Zenon DEF calculation_required
<1>6. QED
  BY <1>2, <1>5, Zenon

\* A generic parameter is not disputed.
LEMMA GenericAgrees ==
    ASSUME NEW t, NEW s, NEW i \in appended(t, s), i.origin = "generic",
           NEW p \in t.parameters, p.active, p.name = i.name
    PROVE  p.value = i.value
<1>1. i \notin conversion_evidence(t) \cup scoped_evidence(t, s) \cup inclusion_evidence(t, s)
  BY DEF conversion_evidence, scoped_evidence, inclusion_evidence, Item
<1>2. ASSUME NEW side \in Sides
      PROVE  i \notin total_evidence(t, s, side) \cup emission_evidence(t, s, side)
  <2>1. i \notin total_evidence(t, s, side)
    BY DEF total_evidence, Item
  <2>2. i \notin emission_evidence(t, s, side)
    BY EmissionItem
  <2>3. QED
    BY <2>1, <2>2
<1>3. i \notin share_evidence(t, s)
  <2> SUFFICES ASSUME i \in share_evidence(t, s) PROVE FALSE
    OBVIOUS
  <2>1. Shared(t, s)
    BY DEF share_evidence, Shared, ProfilesOf
  <2>2. share_evidence(t, s)
          = UNION {UNION {shares(side, x) : x \in ProfilesOf(t, s, side)} : side \in Sides}
    BY <2>1 DEF share_evidence, Shared, ProfilesOf
  <2>3. PICK side \in Sides : \E x \in ProfilesOf(t, s, side) : i \in shares(side, x)
    BY <2>2
  <2>4. i.origin = "enterprise"
    BY <2>3, ShareItem
  <2>5. QED
    BY <2>4
<1>4. i \in generic_evidence(t, s)
  BY <1>1, <1>2, <1>3 DEF appended
<1>5. QED
  BY <1>4 DEF generic_evidence, ActiveRows, Item

-----------------------------------------------------------------------------
(* The evidence that a reader was given is that of the file it read.       *)

Answer(t, s, e) == Unraised(t, s) /\ e = composite(s.others, search_evidence(t, s))

SheetsInv == \A k \in 1..Len(inputs) : Sheet(inputs[k])

\* A reader that was answered has the whole evidence of the rows of its file.
EvidenceInv ==
    /\ DOMAIN asked = Readers /\ DOMAIN evidence = Readers
    /\ \A r \in Readers :
          reader[r].pc = "done" /\ reader[r].file # 0 =>
              Answer(files[reader[r].file].rows, asked[r], evidence[r])

\* Initially there are no inputs and no answers.
LEMMA EvidenceInit == Init => SheetsInv /\ EvidenceInv
BY DEF Init, SheetsInv, EvidenceInv, Resting

\* The inputs of every build have passed the constructors.
LEMMA SheetsKept == IInv /\ SheetsInv /\ [Next]_vars => SheetsInv'
<1> SUFFICES ASSUME IInv, SheetsInv, [Next]_vars PROVE SheetsInv'
  OBVIOUS
<1>1. CASE UNCHANGED inputs
  BY <1>1 DEF SheetsInv
<1>2. CASE \E b \in Builders : \E input \in Inputs : Begin(b, input)
  <2>1. PICK input \in Inputs : inputs' = Append(inputs, input) /\ Sheet(input)
    BY <1>2 DEF Begin, Sheet
  <2>2. QED
    BY <2>1 DEF SheetsInv, IInv, FilesInv
<1>3. QED
  BY <1>1, <1>2 DEF Next, Build, SearchStep, CheckTarget, CheckTemp, Unlink, CreateTables,
     Commit, Replace, ReturnAnchor, Crash, StartSearch, Open, ReadMetadata, HashFile, Query,
     Rest, Untouched, vars

\* A step that leaves a reader where it is leaves it its answer.
LEMMA AnswerStays ==
    ASSUME IInv, EvidenceInv, Next, NEW r \in Readers,
           reader'[r].pc = reader[r].pc, reader'[r].file = reader[r].file,
           asked'[r] = asked[r], evidence'[r] = evidence[r],
           reader'[r].pc = "done", reader'[r].file # 0
    PROVE  Answer(files'[reader'[r].file].rows, asked'[r], evidence'[r])
<1>1. reader[r].file \in 1..Len(files) /\ files[reader[r].file].build # 0
  <2>1. reader[r].pc = "done" /\ reader[r].file # 0
    OBVIOUS
  <2>2. reader[r].file \in 0..Len(files) /\ files[reader[r].file].build # 0
    BY <2>1 DEF IInv, ReaderInv
  <2>3. Len(files) \in Nat
    BY DEF IInv, FilesInv
  <2>4. QED
    BY <2>1, <2>2, <2>3
<1>2. files'[reader[r].file] = files[reader[r].file]
  BY <1>1, CommittedStep
<1>3. QED
  BY <1>2 DEF EvidenceInv

\* The query gives the evidence of the file.
LEMMA QueryAnswers ==
    ASSUME IInv, EvidenceInv, NEW r \in Readers, Query(r), reader'[r].pc = "done"
    PROVE  Answer(files'[reader'[r].file].rows, asked'[r], evidence'[r])
<1> DEFINE s == asked[r]
           t == files[reader[r].file].rows
           found == search_evidence(t, s)
           raise == \/ \E side \in Sides : Raises(t, s.options, Party(s, side))
                    \/ Conflict(s.others, found)
<1>1. /\ reader' = [reader EXCEPT ![r].pc = IF raise THEN "failed" ELSE "done"]
      /\ evidence' = [evidence EXCEPT ![r] = IF raise THEN {} ELSE composite(s.others, found)]
      /\ asked' = asked /\ files' = files
  BY Zenon DEF Query, Untouched
<1>2. ~raise => Unraised(t, s)
  BY DEF Unraised
<1> HIDE DEF raise, t, s, found
<1>3. ~raise
  BY <1>1 DEF IInv, ReaderType
<1>4. reader'[r].file = reader[r].file
  BY <1>1 DEF IInv, ReaderType
<1>5. evidence'[r] = composite(s.others, found)
  BY <1>1, <1>3 DEF EvidenceInv
<1>6. QED
  BY <1>1, <1>2, <1>3, <1>4, <1>5 DEF Answer, t, s, found

\* An answered search keeps its answer, and a new answer is that of the rows of its file.
LEMMA EvidenceKept == IInv /\ EvidenceInv /\ [Next]_vars => EvidenceInv'
<1> SUFFICES ASSUME IInv, EvidenceInv, Next PROVE EvidenceInv'
  BY DEF EvidenceInv, vars
<1>1. DOMAIN asked' = Readers /\ DOMAIN evidence' = Readers
  BY DEF EvidenceInv, Next, Build, SearchStep, Begin, CheckTarget, CheckTemp, Unlink,
     CreateTables, Commit, Replace, ReturnAnchor, Crash, StartSearch, Open, ReadMetadata,
     HashFile, Query, Rest, Untouched, Searching
<1>2. SUFFICES ASSUME NEW o \in Readers, reader'[o].pc = "done", reader'[o].file # 0
               PROVE  Answer(files'[reader'[o].file].rows, asked'[o], evidence'[o])
  BY <1>1 DEF EvidenceInv
<1>3. CASE \E b \in Builders : Build(b)
  <2>1. UNCHANGED <<asked, evidence>> /\ (UNCHANGED reader \/ Disturb)
    BY <1>3 DEF Build, Begin, CheckTarget, CheckTemp, Unlink, CreateTables, Commit, Replace,
       ReturnAnchor, Crash, Searching
  <2>2. reader'[o].pc = reader[o].pc /\ reader'[o].file = reader[o].file
    BY <2>1 DEF Disturb, IInv, ReaderType
  <2>3. QED
    BY <1>2, <2>1, <2>2, AnswerStays
<1>4. CASE \E r \in Readers : SearchStep(r)
  <2>1. PICK r \in Readers : SearchStep(r)
    BY <1>4
  <2>2. CASE o # r
    <3>1. /\ reader'[o] = reader[o] /\ asked'[o] = asked[o] /\ evidence'[o] = evidence[o]
      BY <2>1, <2>2 DEF SearchStep, StartSearch, Open, ReadMetadata, HashFile, Query, Rest,
         IInv, ReaderType, EvidenceInv
    <3>2. QED
      BY <1>2, <3>1, AnswerStays
  <2>3. CASE o = r /\ Query(r)
    BY <1>2, <2>3, QueryAnswers
  <2>4. CASE o = r /\ ~Query(r)
    <3>1. CASE \E s \in Searches, expected \in {0} \cup {a.digest : a \in anchors} :
                  StartSearch(r, s, expected)
      <4>1. reader[r].pc = "resting" /\ reader'[r].file = reader[r].file
        BY <3>1 DEF StartSearch, IInv, ReaderType
      <4>2. QED
        BY <1>2, <2>4, <4>1 DEF IInv, ReaderInv
    <3>2. CASE Open(r)
      BY <1>2, <2>4, <3>2 DEF Open, IInv, ReaderType
    <3>3. CASE ReadMetadata(r)
      BY <1>2, <2>4, <3>3 DEF ReadMetadata, IInv, ReaderType
    <3>4. CASE HashFile(r)
      BY <1>2, <2>4, <3>4 DEF HashFile, IInv, ReaderType
    <3>5. CASE Rest(r)
      BY <1>2, <2>4, <3>5 DEF Rest, Resting, IInv, ReaderType
    <3>6. QED
      BY <2>1, <2>4, <3>1, <3>2, <3>3, <3>4, <3>5 DEF SearchStep
  <2>5. QED
    BY <2>2, <2>3, <2>4
<1>5. QED
  BY <1>3, <1>4 DEF Next

\* What an answer holds beyond the items of the other repository fits together.
SharesFit(t, s, e) ==
    \A i \in e \ s.others :
        i.origin = "enterprise" /\ i.name[2] \in {"electricity_share", "natural_gas_share"} =>
            Accompanied(i, e) /\ Closes(i, e \ s.others)

TwinsOut(t, s, e) ==
    \A i \in e \ s.others :
        i.origin = "enterprise" /\ (i.name[2] # "process_emission" \/ ~s.options.review) =>
            ~\E p, q \in t.profiles :
                 /\ p.row = i.id /\ p.level = s.options.level
                 /\ q.row # p.row /\ q.level = p.level /\ q.product = p.product

ZerosAsk(t, s, e) ==
    \A i \in e \ s.others :
        i.name[2] = "process_emission" /\ i.origin = "enterprise" =>
            \A row \in emission_rows(t, s.options, Party(s, i.name[1])) :
                row.trigger /\ row.value = 0 => i.calculation

GenericsAgree(t, s, e) ==
    \A i \in e \ s.others :
        i.origin = "generic" =>
            \A p \in t.parameters : p.active /\ p.name = i.name => p.value = i.value

Fits(t, s, e) ==
    SharesFit(t, s, e) /\ TwinsOut(t, s, e) /\ ZerosAsk(t, s, e) /\ GenericsAgree(t, s, e)

\* What a search of one workbook finds satisfies the four parts of the property.
LEMMA AnswerFits ==
    ASSUME NEW input, Sheet(input), NEW s, NEW e, Answer(Tables(input), s, e)
    PROVE  Fits(Tables(input), s, e)
<1> DEFINE t == Tables(input)
           found == search_evidence(t, s)
<1>1. Unraised(t, s) /\ e = composite(s.others, found)
  BY DEF Answer
<1> HIDE DEF found
<1>2. \A i \in e \ s.others : i \in found
  BY <1>1, NewIsFound
<1>3. \A j \in found : j.origin = "enterprise" =>
          \E k \in e : k.origin = "enterprise" /\ k.name = j.name /\ k.id = j.id
  BY <1>1, FoundIsKept
<1>4. \A i \in found : i \in appended(t, s)
  BY <1>1, FoundItems DEF found
<1>5. ASSUME NEW i \in e \ s.others, i.origin = "enterprise",
             i.name[2] \in {"electricity_share", "natural_gas_share"}
      PROVE  Accompanied(i, e) /\ Closes(i, e \ s.others)
  <2>1. i \in found
    BY <1>2
  <2>2. Accompanied(i, found) /\ Closes(i, found)
    <3>1. Unraised(Tables(input), s) /\ i \in search_evidence(Tables(input), s)
      BY <1>1, <2>1 DEF found
    <3>2. /\ Accompanied(i, search_evidence(Tables(input), s))
          /\ Closes(i, search_evidence(Tables(input), s))
      BY <1>5, <3>1, SharesTogether
    <3>3. QED
      BY <3>2, Zenon DEF found
  <2>3. QED
    BY <1>2, <1>3, <2>2 DEF Accompanied, Closes
<1>6. ASSUME NEW i \in e \ s.others, i.origin = "enterprise",
             i.name[2] # "process_emission" \/ ~s.options.review,
             NEW p \in t.profiles, NEW q \in t.profiles,
             p.row = i.id, p.level = s.options.level,
             q.row # p.row, q.level = p.level, q.product = p.product
      PROVE  FALSE
  BY <1>1, <1>2, <1>6, TwinsStayOut DEF found
<1>7. ASSUME NEW i \in e \ s.others, i.name[2] = "process_emission", i.origin = "enterprise",
             NEW row \in emission_rows(t, s.options, Party(s, i.name[1])),
             row.trigger, row.value = 0
      PROVE  i.calculation
  BY <1>2, <1>4, <1>7, ZeroAsks
<1>8. ASSUME NEW i \in e \ s.others, i.origin = "generic",
             NEW p \in t.parameters, p.active, p.name = i.name
      PROVE  p.value = i.value
  BY <1>2, <1>4, <1>8, GenericAgrees
<1>9. SharesFit(t, s, e) /\ TwinsOut(t, s, e)
  BY <1>5, <1>6 DEF SharesFit, TwinsOut
<1>10. ZerosAsk(t, s, e) /\ GenericsAgree(t, s, e)
  BY <1>7, <1>8 DEF ZerosAsk, GenericsAgree
<1>11. QED
  BY <1>9, <1>10 DEF Fits

\* The evidence of a search that is answered fits together, whatever the workbooks, the
\* parameters, the search and the other repository are, and however importers replace the
\* target meanwhile (search, CompositeProcessParameterRepository).
THEOREM EvidenceFits == Spec => []EvidenceIsCoherent
<1> DEFINE AllFit == \A r \in Readers :
                        reader[r].pc = "done" /\ reader[r].file # 0 =>
                            Fits(files[reader[r].file].rows, asked[r], evidence[r])
<1>1. IInv /\ SheetsInv /\ EvidenceInv => AllFit
  <2> SUFFICES ASSUME IInv, SheetsInv, EvidenceInv, NEW r \in Readers,
                      reader[r].pc = "done", reader[r].file # 0
               PROVE  Fits(files[reader[r].file].rows, asked[r], evidence[r])
    OBVIOUS
  <2> DEFINE f == files[reader[r].file]
  <2>1. f.build \in 1..Len(inputs) /\ f.rows = Tables(inputs[f.build])
    <3>1. reader[r].file \in 0..Len(files) /\ f.build # 0 /\ Len(files) \in Nat
      BY DEF IInv, ReaderInv, FilesInv
    <3>2. reader[r].file \in 1..Len(files)
      BY <3>1
    <3>3. QED
      BY <3>1, <3>2 DEF IInv, FilesInv
  <2>2. Sheet(inputs[f.build])
    BY <2>1 DEF SheetsInv
  <2>3. Answer(f.rows, asked[r], evidence[r])
    BY DEF EvidenceInv
  <2> HIDE DEF f
  <2>4. Fits(f.rows, asked[r], evidence[r])
    BY <2>1, <2>2, <2>3, AnswerFits
  <2>5. QED
    BY <2>4 DEF f
<1>2. AllFit => EvidenceIsCoherent
  <2>1. AllFit => SharesBelongTogether
    BY DEF Fits, SharesFit, SharesBelongTogether, Answered
  <2>2. AllFit => DuplicatesStayOut
    BY DEF Fits, TwinsOut, DuplicatesStayOut, Answered
  <2>3. AllFit => ZeroIsQuestioned
    BY DEF Fits, ZerosAsk, ZeroIsQuestioned, Answered
  <2>4. AllFit => GenericIsUndisputed
    BY DEF Fits, GenericsAgree, GenericIsUndisputed, Answered
  <2> QED BY <2>1, <2>2, <2>3, <2>4 DEF EvidenceIsCoherent
<1> HIDE DEF AllFit
<1>3. IInv /\ SheetsInv /\ EvidenceInv => EvidenceIsCoherent
  BY <1>1, <1>2
<1> QED BY <1>3, IInvInvariant, EvidenceInit, SheetsKept, EvidenceKept, PTL DEF Spec
=============================================================================
