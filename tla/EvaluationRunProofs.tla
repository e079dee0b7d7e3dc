------------------------- MODULE EvaluationRunProofs -------------------------
(***************************************************************************)
(* The files of an evaluation, for any generations, models and number of   *)
(* records, however often commands are cut short and started again. The    *)
(* argument for samples: the content of every file of a sample was fixed   *)
(* when both checksums matched. The argument for predictions: resuming     *)
(* accepts only a first part of one run's rows, ids 1..k, so the loop      *)
(* passes over these k and goes on with the next one.                      *)
(***************************************************************************)
EXTENDS EvaluationRun, SequenceTheorems, TLAPS

Files == {"feedback", "provenance", "manifest"}
Parts == {"records", "labels", "selection"}

Generating ==
    /\ command \in [name : {"generate"}, content : Generations, left : Seq(Files)]
    /\ command.left # <<>>

Sampling ==
    /\ command \in [name : {"sample"}, content : Pairs, left : Seq(Parts)]
    /\ command.left # <<>>
    /\ command.content[1] = command.content[2]

PredictingState ==
    command \in [name : {"predict"}, run : Models \X Pairs, limit : 1..Count,
                 existing : SUBSET (1..Count), next : 1..(Count + 1)]

Outputs == [exists : BOOLEAN, rows : Seq(Row), open : BOOLEAN, broken : BOOLEAN]

Typed ==
    /\ dataset \in [Files -> Generations \cup {Absent}]
    /\ sample \in [Parts -> Pairs \cup {Absent}]
    /\ output \in Outputs
    /\ command = [name |-> Idle] \/ Generating \/ Sampling \/ PredictingState

(* Rows 1..k were there when the command began. *)
Progress(k) ==
    /\ command.existing = 1..k
    /\ Len(output.rows) = IF command.next <= k THEN k ELSE command.next - 1
    /\ \A i \in 1..Len(output.rows) : output.rows[i].run = command.run

ProgressInv ==
    command.name = "predict" /\ ~output.broken => \E k \in 0..Count : Progress(k)

IInv ==
    /\ Typed
    /\ SampleIsOfOneDataset
    /\ OutputIsOneRun
    /\ ProgressInv

LEMMA FilesAreThree == Range(DatasetFiles) = Files /\ Range(SampleFiles) = Parts
BY DEF Range, DatasetFiles, SampleFiles, Files, Parts

LEMMA NamesDiffer ==
    /\ [name |-> Idle].name = Idle
    /\ Idle # "generate" /\ Idle # "sample" /\ Idle # "predict"
BY NamesAssumption

LEMMA TailStays ==
    ASSUME NEW S, NEW files \in Seq(S), files # <<>>, Len(files) # 1
    PROVE  Tail(files) \in Seq(S) /\ Tail(files) # <<>>
<1>1. Len(files) \in Nat \ {0} /\ Len(<<>>) = 0
    BY EmptySeq
<1>2. Tail(files) \in Seq(S) /\ Len(Tail(files)) = Len(files) - 1
    BY HeadTailProperties
<1>3. Len(Tail(files)) # Len(<<>>)
    BY <1>1, <1>2
<1>. QED
    BY <1>2, <1>3, Zenon

LEMMA AppendedType ==
    ASSUME output \in Outputs, NEW row \in Row
    PROVE  Appended(row) \in Outputs
<1>1. CASE ~output.open
    BY <1>1 DEF Appended, Outputs
<1>2. CASE output.open
  <2>1. SubSeq(output.rows, 1, Len(output.rows) - 1) \in Seq(Row)
      BY SubSeqProperties DEF Outputs
  <2>. QED
      BY <1>2, <2>1 DEF Appended, Outputs
<1>. QED
    BY <1>1, <1>2

(* A row that can be read was appended to a file without an open row. *)
LEMMA AppendedRows ==
    ASSUME output \in Outputs, NEW row \in Row, ~Appended(row).broken
    PROVE  /\ ~output.broken /\ ~output.open
           /\ Appended(row).rows = Append(output.rows, row)
           /\ Appended(row).exists = output.exists
BY DEF Appended, Outputs

LEMMA GenerateKeeps ==
    ASSUME IInv, Generate
    PROVE  IInv'
<1>1. PICK g \in Generations : command' = Writing("generate", g, DatasetFiles)
    BY DEF Generate
<1>2. UNCHANGED <<dataset, sample, output>>
    BY DEF Generate
<1>3. Generating' /\ command'.name = "generate"
    BY <1>1 DEF Generating, Writing, DatasetFiles, Files
<1>4. Typed'
    BY <1>2, <1>3 DEF IInv, Typed
<1>5. SampleIsOfOneDataset' /\ OutputIsOneRun'
    BY <1>2 DEF IInv, SampleIsOfOneDataset, OutputIsOneRun
<1>6. ProgressInv'
    BY <1>3 DEF ProgressInv
<1>. QED
    BY <1>4, <1>5, <1>6 DEF IInv

LEMMA SampleKeeps ==
    ASSUME IInv, Sample
    PROVE  IInv'
<1>1. command' = Writing("sample", <<dataset.feedback, dataset.provenance>>, SampleFiles)
    BY DEF Sample
<1>2. /\ dataset.feedback \in Generations /\ dataset.provenance = dataset.feedback
      /\ UNCHANGED <<dataset, sample, output>>
    BY DEF Sample, Verified, IInv, Typed, Files
<1>3. Sampling' /\ command'.name = "sample"
    BY <1>1, <1>2 DEF Sampling, Writing, SampleFiles, Parts, Pairs
<1>4. Typed'
    BY <1>2, <1>3 DEF IInv, Typed
<1>5. SampleIsOfOneDataset' /\ OutputIsOneRun'
    BY <1>2 DEF IInv, SampleIsOfOneDataset, OutputIsOneRun
<1>6. ProgressInv'
    BY <1>3 DEF ProgressInv
<1>. QED
    BY <1>4, <1>5, <1>6 DEF IInv

LEMMA ReplaceFileKeeps ==
    ASSUME IInv, ReplaceFile
    PROVE  IInv'
<1>1. UNCHANGED output /\ command' = Written
    BY DEF ReplaceFile
<1>2. CASE command.name = "generate" /\ dataset' = Replaced(dataset) /\ UNCHANGED sample
  <2>1. Generating
      BY <1>2, NamesDiffer DEF IInv, Typed, Sampling, PredictingState
  <2>2. dataset' \in [Files -> Generations \cup {Absent}]
      BY <1>2, <2>1 DEF IInv, Typed, Generating, Replaced
  <2>3. command' = [name |-> Idle] \/ Generating'
    <3>1. CASE Len(command.left) = 1
        BY <1>1, <3>1 DEF Written
    <3>2. CASE Len(command.left) # 1
      <4>1. Tail(command.left) \in Seq(Files) /\ Tail(command.left) # <<>>
          BY <2>1, <3>2, TailStays DEF Generating
      <4>2. command' = [command EXCEPT !.left = Tail(command.left)]
          BY <1>1, <3>2 DEF Written
      <4>. QED
          BY <2>1, <4>1, <4>2 DEF Generating
    <3>. QED
        BY <3>1, <3>2
  <2>4. command'.name # "predict"
      BY <2>3, NamesDiffer DEF Generating
  <2>5. Typed'
      BY <1>1, <1>2, <2>2, <2>3 DEF IInv, Typed
  <2>6. SampleIsOfOneDataset' /\ OutputIsOneRun'
      BY <1>1, <1>2 DEF IInv, SampleIsOfOneDataset, OutputIsOneRun
  <2>. QED
      BY <2>4, <2>5, <2>6 DEF IInv, ProgressInv
<1>3. CASE command.name = "sample" /\ sample' = Replaced(sample) /\ UNCHANGED dataset
  <2>1. Sampling
      BY <1>3, NamesDiffer DEF IInv, Typed, Generating, PredictingState
  <2>2. sample' \in [Parts -> Pairs \cup {Absent}]
      BY <1>3, <2>1 DEF IInv, Typed, Sampling, Replaced
  <2>3. command' = [name |-> Idle] \/ Sampling'
    <3>1. CASE Len(command.left) = 1
        BY <1>1, <3>1 DEF Written
    <3>2. CASE Len(command.left) # 1
      <4>1. Tail(command.left) \in Seq(Parts) /\ Tail(command.left) # <<>>
          BY <2>1, <3>2, TailStays DEF Sampling
      <4>2. command' = [command EXCEPT !.left = Tail(command.left)]
          BY <1>1, <3>2 DEF Written
      <4>. QED
          BY <2>1, <4>1, <4>2 DEF Sampling
    <3>. QED
        BY <3>1, <3>2
  <2>4. command'.name # "predict"
      BY <2>3, NamesDiffer DEF Sampling
  <2>5. Typed'
      BY <1>1, <1>3, <2>2, <2>3 DEF IInv, Typed
  <2>6. SampleIsOfOneDataset'
    <3>1. \A f \in Parts : sample'[f] \in {sample[f], command.content}
        BY <1>3, <2>1 DEF IInv, Typed, Sampling, Replaced
    <3>. QED
        BY <2>1, <2>2, <3>1 DEF IInv, Typed, Sampling, SampleIsOfOneDataset
  <2>7. OutputIsOneRun'
      BY <1>1 DEF IInv, OutputIsOneRun
  <2>. QED
      BY <2>4, <2>5, <2>6, <2>7 DEF IInv, ProgressInv
<1>. QED
    BY <1>2, <1>3 DEF ReplaceFile

(* The ids of the rows of an unbroken file are 1..k. *)
LEMMA PredictKeeps ==
    ASSUME IInv, Predict
    PROVE  IInv'
<1>1. PICK model \in Models, mode \in Modes, limit \in 1..Count :
          /\ mode = "resume" => MayResume(model)
          /\ output' = IF mode = "resume" THEN [output EXCEPT !.exists = TRUE]
                       ELSE [NoRows EXCEPT !.exists = TRUE]
          /\ command' = [name |-> "predict", run |-> Run(model), limit |-> limit,
                         existing |-> IF mode = "resume" THEN Ids(output.rows) ELSE {},
                         next |-> 1]
    BY DEF Predict
<1>2. sample.records \in Pairs /\ UNCHANGED <<dataset, sample>>
    BY DEF Predict, IInv, Typed, Parts
<1>3. Run(model) \in Models \X Pairs
    BY <1>2 DEF Run
<1>4. output.rows \in Seq(Row)
    BY DEF IInv, Typed, Outputs
<1>. PICK k : k = IF mode = "resume" THEN Len(output.rows) ELSE 0
    OBVIOUS
<1>5. /\ k \in 0..Count /\ command'.existing = 1..k
      /\ \A i \in 1..k : output.rows[i].run = Run(model)
  <2>1. CASE mode = "resume"
    <3>1. /\ ~output.broken /\ Ids(output.rows) \subseteq 1..Count
          /\ \A i \in DOMAIN output.rows : output.rows[i].run = Run(model)
        BY <1>1, <2>1 DEF MayResume
    <3>2. \A i \in 1..k : output.rows[i].id = i
        BY <1>4, <2>1, <3>1 DEF IInv, OutputIsOneRun
    <3>3. Ids(output.rows) = 1..k
        BY <1>4, <2>1, <3>2 DEF Ids
    <3>4. k \in Nat /\ k <= Count
        BY <1>4, <2>1, <3>1, <3>3, CountAssumption
    <3>. QED
        BY <1>1, <1>4, <2>1, <3>1, <3>3, <3>4
  <2>2. CASE mode # "resume"
      BY <1>1, <2>2, CountAssumption
  <2>. QED
      BY <2>1, <2>2
<1>6. /\ output' \in Outputs
      /\ output'.rows = IF mode = "resume" THEN output.rows ELSE <<>>
      /\ output'.broken => output.broken
  <2>1. NoRows \in Outputs
      BY DEF NoRows, Outputs
  <2>2. NoRows.rows = <<>> /\ ~NoRows.broken
      BY DEF NoRows
  <2>. HIDE DEF NoRows
  <2>. QED
      BY <1>1, <2>1, <2>2 DEF IInv, Typed, Outputs, MayResume
<1>7. PredictingState'
    BY <1>1, <1>3, <1>5, CountAssumption DEF PredictingState
<1>8. Typed'
    BY <1>2, <1>6, <1>7 DEF IInv, Typed
<1>9. SampleIsOfOneDataset'
    BY <1>2 DEF IInv, SampleIsOfOneDataset
<1>10. OutputIsOneRun'
    BY <1>1, <1>6 DEF IInv, OutputIsOneRun, MayResume
<1>11. Progress(k)'
    BY <1>1, <1>4, <1>5, <1>6, CountAssumption DEF Progress
<1>12. ProgressInv'
    BY <1>5, <1>11 DEF ProgressInv
<1>. QED
    BY <1>8, <1>9, <1>10, <1>12 DEF IInv

(* The next row that is missing has the next id. *)
LEMMA RowFits ==
    ASSUME IInv, PredictingState, ~output.broken, command.next \in 1..Count,
           command.next \notin command.existing,
           NEW row \in Row, row.id = command.next, row.run = command.run
    PROVE  \E k \in 0..Count :
               /\ Progress(k) /\ command.next > k
               /\ Len(Append(output.rows, row)) = command.next
               /\ \A i \in 1..command.next : /\ Append(output.rows, row)[i].id = i
                                            /\ Append(output.rows, row)[i].run = command.run
<1>1. PICK k \in 0..Count : Progress(k)
    BY DEF IInv, ProgressInv, PredictingState
<1>2. command.next > k /\ Len(output.rows) = command.next - 1
    BY <1>1 DEF Progress
<1>3. output.rows \in Seq(Row)
    BY DEF IInv, Typed, Outputs
<1>4. /\ Len(Append(output.rows, row)) = command.next
      /\ \A i \in 1..(command.next - 1) : Append(output.rows, row)[i] = output.rows[i]
      /\ Append(output.rows, row)[command.next] = row
    BY <1>2, <1>3, AppendProperties
<1>5. \A i \in 1..(command.next - 1) : output.rows[i].id = i /\ output.rows[i].run = command.run
    BY <1>1, <1>2, <1>3 DEF IInv, OutputIsOneRun, Progress
<1>6. \A i \in 1..command.next : /\ Append(output.rows, row)[i].id = i
                                /\ Append(output.rows, row)[i].run = command.run
    BY <1>4, <1>5
<1>. QED
    BY <1>1, <1>2, <1>4, <1>6

LEMMA PredictingKeeps ==
    ASSUME IInv, Predicting
    PROVE  IInv'
<1>1. PredictingState
    BY NamesDiffer DEF IInv, Typed, Generating, Sampling, Predicting
<1>2. PICK ok \in BOOLEAN :
          /\ output' = IF command.next \in command.existing THEN output
                       ELSE Appended([id |-> command.next, run |-> command.run, ok |-> ok])
          /\ command' = [command EXCEPT !.next = @ + 1]
    BY DEF Predicting, PredictRecord
<1>3. /\ command.next \in 1..Count /\ command.run \in Models \X Pairs
      /\ command.existing \subseteq 1..Count
      /\ UNCHANGED <<dataset, sample>>
    BY <1>1, CountAssumption DEF Predicting, PredictingState
<1>4. /\ PredictingState' /\ command'.next = command.next + 1
      /\ command'.run = command.run /\ command'.existing = command.existing
    BY <1>1, <1>2, <1>3, CountAssumption DEF PredictingState
<1>. DEFINE row == [id |-> command.next, run |-> command.run, ok |-> ok]
<1>5. row \in Row /\ row.id = command.next /\ row.run = command.run
    BY <1>3 DEF Row
<1>. HIDE DEF row
<1>6. output.rows \in Seq(Row)
    BY DEF IInv, Typed, Outputs
<1>7. output' \in Outputs
    BY <1>2, <1>5, AppendedType DEF IInv, Typed, row
<1>8. Typed'
    BY <1>3, <1>4, <1>7 DEF IInv, Typed
<1>9. SampleIsOfOneDataset'
    BY <1>3 DEF IInv, SampleIsOfOneDataset
<1>10. CASE command.next \in command.existing
  <2>1. output' = output
      BY <1>2, <1>10
  <2>2. OutputIsOneRun'
      BY <2>1 DEF IInv, OutputIsOneRun
  <2>3. ASSUME NEW k \in 0..Count, Progress(k)
        PROVE  Progress(k)'
      BY <1>3, <1>4, <1>6, <1>10, <2>1, <2>3 DEF Progress
  <2>4. ProgressInv'
      BY <1>1, <2>1, <2>3 DEF IInv, ProgressInv, PredictingState
  <2>. QED
      BY <1>8, <1>9, <2>2, <2>4 DEF IInv
<1>11. CASE command.next \notin command.existing /\ output'.broken
    BY <1>8, <1>9, <1>11 DEF IInv, OutputIsOneRun, ProgressInv
<1>12. CASE command.next \notin command.existing /\ ~output'.broken
  <2>1. output' = Appended(row)
      BY <1>2, <1>12 DEF row
  <2>2. ~output.broken /\ output'.rows = Append(output.rows, row)
      BY <1>5, <1>12, <2>1, AppendedRows DEF IInv, Typed
  <2>3. PICK k \in 0..Count :
            /\ Progress(k) /\ command.next > k
            /\ Len(output'.rows) = command.next
            /\ \A i \in 1..command.next : /\ output'.rows[i].id = i
                                         /\ output'.rows[i].run = command.run
      BY <1>1, <1>3, <1>5, <1>12, <2>2, RowFits
  <2>4. DOMAIN output'.rows = 1..command.next /\ 1 \in 1..command.next
      BY <1>3, <1>7, <2>3 DEF Outputs
  <2>5. OutputIsOneRun'
      BY <2>3, <2>4 DEF OutputIsOneRun
  <2>6. Progress(k)'
      BY <1>3, <1>4, <2>3 DEF Progress
  <2>7. ProgressInv'
      BY <2>6 DEF ProgressInv
  <2>. QED
      BY <1>8, <1>9, <2>5, <2>7 DEF IInv
<1>. QED
    BY <1>10, <1>11, <1>12

LEMMA PredictedKeeps ==
    ASSUME IInv, Predicted
    PROVE  IInv'
<1>1. command' = [name |-> Idle] /\ UNCHANGED <<dataset, sample, output>>
    BY DEF Predicted
<1>2. command'.name # "predict"
    BY <1>1, NamesDiffer
<1>. QED
    BY <1>1, <1>2 DEF IInv, Typed, SampleIsOfOneDataset, OutputIsOneRun, ProgressInv

LEMMA CrashKeeps ==
    ASSUME IInv, Crash
    PROVE  IInv'
<1>1. command' = [name |-> Idle] /\ UNCHANGED <<dataset, sample>>
    BY DEF Crash
<1>2. ProgressInv'
    BY <1>1, NamesDiffer DEF ProgressInv
<1>3. SampleIsOfOneDataset'
    BY <1>1 DEF IInv, SampleIsOfOneDataset
<1>4. SUFFICES output' \in Outputs /\ OutputIsOneRun'
    BY <1>1, <1>2, <1>3 DEF IInv, Typed
<1>5. CASE UNCHANGED output
    BY <1>5 DEF IInv, Typed, OutputIsOneRun
<1>6. CASE output' = [output EXCEPT !.open = FALSE, !.broken = TRUE]
    BY <1>6 DEF IInv, Typed, Outputs, OutputIsOneRun
<1>. DEFINE row == [id |-> command.next, run |-> command.run, ok |-> TRUE]
<1>7. CASE /\ command.name = "predict" /\ command.next <= command.limit
           /\ command.next \notin command.existing
           /\ ~output.open /\ output' = [Appended(row) EXCEPT !.open = TRUE]
  <2>1. PredictingState
      BY <1>7, NamesDiffer DEF IInv, Typed, Generating, Sampling
  <2>2. /\ command.next \in 1..Count
        /\ row \in Row /\ row.id = command.next /\ row.run = command.run
      BY <1>7, <2>1, CountAssumption DEF PredictingState, Row
  <2>. HIDE DEF row
  <2>3. Appended(row) \in Outputs
      BY <2>2, AppendedType DEF IInv, Typed
  <2>4. /\ output' \in Outputs /\ output'.rows = Appended(row).rows
        /\ output'.broken = Appended(row).broken
      BY <1>7, <2>3 DEF Outputs
  <2>5. CASE output'.broken
      BY <2>4, <2>5 DEF OutputIsOneRun
  <2>6. CASE ~output'.broken
    <3>1. ~output.broken /\ output'.rows = Append(output.rows, row)
        BY <2>2, <2>4, <2>6, AppendedRows DEF IInv, Typed
    <3>2. /\ Len(output'.rows) = command.next
          /\ \A i \in 1..command.next : /\ output'.rows[i].id = i
                                       /\ output'.rows[i].run = command.run
        BY <1>7, <2>1, <2>2, <3>1, RowFits
    <3>3. DOMAIN output'.rows = 1..command.next /\ 1 \in 1..command.next
        BY <2>2, <2>4, <3>2 DEF Outputs
    <3>. QED
        BY <2>4, <3>2, <3>3 DEF OutputIsOneRun
  <2>. QED
      BY <2>5, <2>6
<1>. QED
    BY <1>5, <1>6, <1>7 DEF Crash

LEMMA StepKeeps ==
    ASSUME IInv, [Next]_vars
    PROVE  IInv'
<1>1. CASE UNCHANGED vars
    BY <1>1 DEF vars, IInv, Typed, Generating, Sampling, PredictingState,
       SampleIsOfOneDataset, OutputIsOneRun, ProgressInv, Progress
<1>. QED
    BY <1>1, GenerateKeeps, SampleKeeps, ReplaceFileKeeps, PredictKeeps, PredictingKeeps,
       PredictedKeeps, CrashKeeps DEF Next

LEMMA InitKeeps == Init => IInv
<1>. SUFFICES ASSUME Init PROVE IInv
    OBVIOUS
<1>1. Range(DatasetFiles) = Files /\ Range(SampleFiles) = Parts
    BY FilesAreThree
<1>2. /\ dataset = [f \in Files |-> Absent] /\ sample = [f \in Parts |-> Absent]
      /\ output = NoRows /\ command = [name |-> Idle]
    BY <1>1 DEF Init
<1>3. NoRows \in Outputs /\ NoRows.rows = <<>>
    BY DEF NoRows, Outputs
<1>4. Typed
    BY <1>2, <1>3 DEF Typed
<1>5. SampleIsOfOneDataset
    BY <1>2 DEF SampleIsOfOneDataset
<1>6. OutputIsOneRun
    BY <1>2, <1>3 DEF OutputIsOneRun
<1>7. ProgressInv
    BY <1>2, NamesDiffer DEF ProgressInv
<1>. QED
    BY <1>4, <1>5, <1>6, <1>7 DEF IInv

(* The strengthened invariant of files and commands holds.                 *)
THEOREM EvaluationInvariant == Spec => []IInv
<1>1. Init => IInv
    BY InitKeeps
<1>2. IInv /\ [Next]_vars => IInv'
    BY StepKeeps
<1>. QED
    BY <1>1, <1>2, PTL DEF Spec

(* Every file of a sample was drawn from feedback and provenance of one    *)
(* generation.                                                             *)
THEOREM SamplesAreConsistent == Spec => []SampleIsOfOneDataset
<1>1. IInv => SampleIsOfOneDataset
    BY DEF IInv
<1>. QED
    BY <1>1, EvaluationInvariant, PTL

(* Predictions that can be read are the first rows of one run, in order,   *)
(* however often the command was cut short and resumed.                    *)
THEOREM PredictionsAreOneRun == Spec => []OutputIsOneRun
<1>1. IInv => OutputIsOneRun
    BY DEF IInv
<1>. QED
    BY <1>1, EvaluationInvariant, PTL

(* Files, rows and commands keep their types.                              *)
THEOREM EvaluationIsTyped == Spec => []TypeOK
<1>1. IInv => TypeOK
    BY FilesAreThree DEF IInv, Typed, TypeOK, Generating, Sampling, PredictingState, Outputs
<1>. QED
    BY <1>1, EvaluationInvariant, PTL
=============================================================================
