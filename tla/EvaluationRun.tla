---------------------------- MODULE EvaluationRun ----------------------------
(***************************************************************************)
(* The files of an evaluation and the commands that write them, one        *)
(* command at a time: feedback-synthetic generate (synthetic/generator.py),*)
(* feedback-evaluation sample (evaluation/sample.py) and predict           *)
(* (evaluation/predict.py). A command may end at any point: its process is *)
(* killed, or its disk is full. It may be started again.                   *)
(*                                                                         *)
(* A generation is a configuration and seed of the generator. Generations  *)
(* hold the same record ids (the ids depend on the seed and the position), *)
(* in the order 1..Count, so a file is named by what it was made from:     *)
(* Absent, a generation, or the pair of generations that a sample read.    *)
(***************************************************************************)
EXTENDS Integers, Sequences, SequencesExt

CONSTANTS
    Generations,  \* of the synthetic dataset
    Models,       \* that predictions are requested from
    Count,        \* records of a sample
    Absent, Idle

ASSUME CountAssumption == Count \in Nat \ {0}
ASSUME NamesAssumption ==
    /\ Absent \notin Generations \cup Generations \X Generations
    /\ Idle \notin {"generate", "sample", "predict"}

VARIABLES
    dataset,  \* the generations of feedback.jsonl, provenance.jsonl, seed-manifest.json
    sample,   \* the pairs of records.jsonl, labels.jsonl, selection-manifest.json
    output,   \* the predictions
    command   \* the command that runs

vars == <<dataset, sample, output, command>>

DatasetFiles == <<"feedback", "provenance", "manifest">>
SampleFiles == <<"records", "labels", "selection">>
Modes == {"new", "force", "resume"}

(* Of the predictions: whether the file exists, its readable rows, whether  *)
(* the last one lacks its line end, and whether some line is no row.        *)
NoRows == [exists |-> FALSE, rows |-> <<>>, open |-> FALSE, broken |-> FALSE]

Init ==
    /\ dataset = [f \in Range(DatasetFiles) |-> Absent]
    /\ sample = [f \in Range(SampleFiles) |-> Absent]
    /\ output = NoRows
    /\ command = [name |-> Idle]

-----------------------------------------------------------------------------
(* Datasets and samples *)

(* Files are replaced one by one, after their temporary ones were written;  *)
(* without --force none may exist.                                          *)
Writing(name, content, files) == [name |-> name, content |-> content, left |-> files]
MayWrite(files, force) == force \/ \A f \in DOMAIN files : files[f] = Absent

Generate ==
    /\ command.name = Idle
    /\ \E g \in Generations, force \in BOOLEAN :
          /\ MayWrite(dataset, force)
          /\ command' = Writing("generate", g, DatasetFiles)
    /\ UNCHANGED <<dataset, sample, output>>

(* Fault: only the checksum of the feedback is compared. *)
VerifiedFeedback == dataset.manifest # Absent /\ dataset.feedback = dataset.manifest

(* The checksums of the manifest are those of both files. *)
Verified == /\ dataset.manifest # Absent
            /\ dataset.feedback = dataset.manifest
            /\ dataset.provenance = dataset.manifest

Sample ==
    /\ command.name = Idle
    /\ Verified
    /\ \E force \in BOOLEAN :
          /\ MayWrite(sample, force)
          /\ command' = Writing("sample", <<dataset.feedback, dataset.provenance>>, SampleFiles)
    /\ UNCHANGED <<dataset, sample, output>>

Replaced(files) == [files EXCEPT ![Head(command.left)] = command.content]
Written == IF Len(command.left) = 1 THEN [name |-> Idle]
           ELSE [command EXCEPT !.left = Tail(@)]

ReplaceFile ==
    /\ \/ command.name = "generate" /\ dataset' = Replaced(dataset) /\ UNCHANGED sample
       \/ command.name = "sample" /\ sample' = Replaced(sample) /\ UNCHANGED dataset
    /\ command' = Written
    /\ UNCHANGED output

-----------------------------------------------------------------------------
(* Predictions *)

Run(model) == <<model, sample.records>>
Ids(rows) == {rows[i].id : i \in DOMAIN rows}
HasDuplicates(rows) == \E i, j \in DOMAIN rows : i # j /\ rows[i].id = rows[j].id

(* Fault: rows of another run are taken for its own. *)
MayResumeAny(model) == ~output.broken /\ ~HasDuplicates(output.rows)

(* _existing reads every line, and the rows must be those of this run.      *)
MayResume(model) ==
    /\ ~output.broken /\ ~HasDuplicates(output.rows)
    /\ Ids(output.rows) \subseteq 1..Count
    /\ \A i \in DOMAIN output.rows : output.rows[i].run = Run(model)

Predict ==
    /\ command.name = Idle
    /\ sample.records # Absent
    /\ \E model \in Models, mode \in Modes, limit \in 1..Count :
          /\ mode = "new" => ~output.exists
          /\ mode = "resume" => MayResume(model)
          /\ output' = IF mode = "resume" THEN [output EXCEPT !.exists = TRUE]
                       ELSE [NoRows EXCEPT !.exists = TRUE]
          /\ command' = [name |-> "predict", run |-> Run(model), limit |-> limit,
                         existing |-> IF mode = "resume" THEN Ids(output.rows) ELSE {},
                         next |-> 1]
    /\ UNCHANGED <<dataset, sample>>

(* A row that follows one without its line end makes a line that is no row. *)
Appended(row) ==
    IF output.open
    THEN [output EXCEPT !.rows = SubSeq(@, 1, Len(@) - 1), !.open = FALSE, !.broken = TRUE]
    ELSE [output EXCEPT !.rows = Append(@, row)]

(* Fault: the existing rows are counted, not looked up. *)
PredictRecordAgain ==
    /\ output' = Appended([id |-> command.next, run |-> command.run, ok |-> TRUE])
    /\ command' = [command EXCEPT !.next = @ + 1]

(* One round of the loop; a failure of the engine is a row of its own.      *)
PredictRecord ==
    \E ok \in BOOLEAN :
        /\ output' = IF command.next \in command.existing THEN output
                     ELSE Appended([id |-> command.next, run |-> command.run, ok |-> ok])
        /\ command' = [command EXCEPT !.next = @ + 1]

Predicting ==
    /\ command.name = "predict" /\ command.next <= command.limit
    /\ PredictRecord
    /\ UNCHANGED <<dataset, sample>>

Predicted ==
    /\ command.name = "predict" /\ command.next > command.limit
    /\ command' = [name |-> Idle]
    /\ UNCHANGED <<dataset, sample, output>>

(* The row that was being written is absent, incomplete, or only without    *)
(* its line end.                                                            *)
Crash ==
    /\ command.name # Idle
    /\ command' = [name |-> Idle]
    /\ \/ UNCHANGED output
       \/ /\ command.name = "predict" /\ command.next <= command.limit
          /\ command.next \notin command.existing
          /\ \/ output' = [output EXCEPT !.open = FALSE, !.broken = TRUE]
             \/ /\ ~output.open
                /\ output' = [Appended([id |-> command.next, run |-> command.run, ok |-> TRUE])
                              EXCEPT !.open = TRUE]
    /\ UNCHANGED <<dataset, sample>>

Next == Generate \/ Sample \/ ReplaceFile \/ Predict \/ Predicting \/ Predicted \/ Crash

Spec == Init /\ [][Next]_vars

-----------------------------------------------------------------------------
(* Properties *)

Pairs == Generations \X Generations
Row == [id : 1..Count, run : Models \X Pairs, ok : BOOLEAN]

TypeOK ==
    /\ dataset \in [Range(DatasetFiles) -> Generations \cup {Absent}]
    /\ sample \in [Range(SampleFiles) -> Pairs \cup {Absent}]
    /\ output \in [exists : BOOLEAN, rows : Seq(Row), open : BOOLEAN, broken : BOOLEAN]
    /\ \/ command = [name |-> Idle]
       \/ command \in [name : {"generate"}, content : Generations,
                       left : Seq(Range(DatasetFiles))]
       \/ command \in [name : {"sample"}, content : Pairs, left : Seq(Range(SampleFiles))]
       \/ command \in [name : {"predict"}, run : Models \X Pairs, limit : 1..Count,
                       existing : SUBSET (1..Count), next : 1..(Count + 1)]

(* However the commands were cut short, a sample was drawn from a feedback  *)
(* and a provenance file of one generation (generator.py replaces three     *)
(* files one by one, sample.py verifies both checksums).                    *)
SampleIsOfOneDataset ==
    \A f \in DOMAIN sample : sample[f] # Absent => sample[f][1] = sample[f][2]

(* Predictions that can be read and hold every record are those of one run: *)
(* one row per record in the order of the records, one model, and records   *)
(* that stayed as they are while it was stopped and resumed.                *)
OutputIsOneRun ==
    ~output.broken =>
        \A i \in DOMAIN output.rows : /\ output.rows[i].id = i
                                      /\ output.rows[i].run = output.rows[1].run

=============================================================================
