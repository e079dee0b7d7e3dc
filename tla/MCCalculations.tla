--------------------------- MODULE MCCalculations ---------------------------
(***************************************************************************)
(* The calculations on small inputs: every state is one input of one       *)
(* calculation. The split targets of the sample are in the proportion      *)
(* 80 : 300 : 100.                                                         *)
(***************************************************************************)
EXTENDS StudyChecks, RecordChecks, ProviderChecks

MCTargets == <<8, 30, 10>>

Init == StudyInit \/ RecordInit \/ ProviderInit
Next == UNCHANGED input
Spec == Init /\ [][Next]_input

(* The trend detectors and their backtest: the probability compared is the  *)
(* one defined, alert episodes are matched to the planted events as the     *)
(* protocol says, and reports agree with themselves                         *)
(* (beta_greater_probability, form_alert_episodes, match_episodes,          *)
(* run_synthetic_backtest).                                                 *)
TrendsAreSound == ProbabilityIsExact /\ AlertsAreMatched /\ ReportsAreConsistent

(* The results of a run: filters, facets, pages, summaries and trends agree *)
(* on the same rows; the rules that made them do not depend on the order of *)
(* a template, and fail for a text exactly when a topic found in it has no  *)
(* priority, which an accepted template may lack (analysis.py).             *)
ResultsAreConsistent == FacetsMatchSelection /\ RulesAreStable

(* Every row of an upload is accepted or has an issue. Every row of a source*)
(* is a record or is counted as refused, for the reason that the code gives *)
(* it, if its load does not raise; which loads raise is said exactly: those *)
(* of Olist tables with certain short rows, and of files of records with a  *)
(* line that cannot be converted (parse_upload, validate_import, the _load  *)
(* of the data providers).                                                  *)
ImportIsAccounted == UploadIsAccounted /\ ProvidedIsAccounted

(* The sample that is labelled, its splits, and the sample a user runs take *)
(* from every stratum and bucket what they promise (_select,                *)
(* _assign_splits, sample_records, runs/preview).                           *)
SamplesAreBalanced == SelectionIsProportional /\ SplitsAreProportional /\ SampleIsBalanced

(* What is scored is what was asked for, a prediction run gains nothing by  *)
(* failing, and its measures have the properties that make them comparable  *)
(* (score_evaluation).                                                      *)
ScoresAreStandard == ScoredAreSelected /\ FailuresNeverHelp /\ MeasuresAreStandard
=============================================================================
