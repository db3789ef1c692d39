--------------------------- MODULE VerdictPipeline ---------------------------
(* One pull request's verdict: the pre-filter on its diff, the two reviews, the *)
(* adjudication of their disagreement, and the admin who may decide at any      *)
(* moment between their writes (hackathon/judging_prefilter.go,                 *)
(* judging_stages.go, judging_pipeline.go).                                     *)
EXTENDS Naturals, FiniteSets, FiniteSetsExt

CONSTANTS
  File,              \* the kinds of changed file a diff is made of
  Diff,              \* the diffs a pull request may have
  MinMeaningful,     \* qualifying_pr_min_meaningful_lines
  Judging,           \* runs of the pipeline under way at one time
  NoRun,
  MaxReviews         \* bound on runs of the pipeline and decisions of an admin

ASSUME VerdictAssumption ==
  /\ File \subseteq [kind : {"lockfile", "generated", "doc", "code"}, added : Nat, blank : Nat]
  /\ NoRun \notin Judging
  /\ Diff \subseteq SUBSET File /\ MinMeaningful \in Nat /\ MaxReviews \in Nat

VARIABLES
  diff, docsIssue,      \* the changed files; whether the issue asks for documentation
  ci, ciRequired,       \* the checks of the head; qualifying_pr_requires_ci_pass
  injected, truncated,  \* what DetectInjection and the diff's length say
  prefilter,            \* prefilter_status
  judge, crossCheck,    \* the reviews stored with the verdict
  evidenceOf,           \* history: the run that stored them
  final, finalSource,   \* final_bucket and who set it
  needsReview,
  pipeline,             \* the runs under way: their step and their two answers
  orphaned,             \* history: the last to act was not the run whose evidence is stored
  reviews

verdictVars == <<diff, docsIssue, ci, ciRequired, injected, truncated, prefilter, judge, crossCheck,
                 evidenceOf, final, finalSource, needsReview, pipeline, orphaned, reviews>>
verdictInputs == <<diff, docsIssue, ci, ciRequired, injected, truncated>>

Bucket == {"accepted", "substantial"}   \* rejected is judged as accepted is, exceptional as substantial
Review == [bucket : Bucket, confidence : {"low", "high"}]
FailedReview == [bucket |-> "", confidence |-> "low"]
NoReview == [bucket |-> "none", confidence |-> "none"]
Resting == [pc |-> "idle", judge |-> NoReview, cross |-> NoReview]

VerdictInit ==
  /\ diff \in Diff /\ docsIssue \in BOOLEAN
  /\ ci = "unknown" /\ ciRequired \in BOOLEAN
  /\ injected \in BOOLEAN /\ truncated \in BOOLEAN
  /\ prefilter = "pending" /\ judge = NoReview /\ crossCheck = NoReview /\ evidenceOf = NoRun
  /\ final = "" /\ finalSource = "" /\ needsReview = FALSE
  /\ pipeline = [k \in Judging |-> Resting] /\ orphaned = FALSE /\ reviews = 0

-----------------------------------------------------------------------------
(* Stage 1: plain code over the diff.                                          *)

\* Lockfiles and generated files count nothing, blank lines neither.
MeaningfulLines(files) ==
  FoldSet(LAMBDA f, n : n + (IF f.kind \in {"lockfile", "generated"} THEN 0 ELSE f.added - f.blank), 0, files)

DocsOnly(files) == files # {} /\ \A f \in files : f.kind = "doc"

Prefilter(files) ==
  IF \/ ciRequired /\ ci = "failing"
     \/ DocsOnly(files) /\ ~docsIssue
     \/ MeaningfulLines(files) = 0
     \/ MeaningfulLines(files) < MinMeaningful
  THEN "rejected" ELSE "passed"

\* A verdict a person decided is left alone.
SyncVerdictRow ==
  /\ finalSource # "human_override"
  /\ prefilter' = Prefilter(diff)
  /\ UNCHANGED <<verdictInputs, judge, crossCheck, evidenceOf, final, finalSource, needsReview, pipeline, orphaned, reviews>>

\* The checks of the head finish, or are run again.
ChecksReport(result) ==
  /\ reviews < MaxReviews /\ reviews' = reviews + 1
  /\ ci # result /\ ci' = result
  /\ UNCHANGED <<diff, docsIssue, ciRequired, injected, truncated, prefilter, judge, crossCheck,
                 evidenceOf, final, finalSource, needsReview, pipeline, orphaned>>

-----------------------------------------------------------------------------
(* Stages 3 to 5.                                                              *)

TrustedAsAnswered(r) == r \* mutant

\* What must not depend on the model: it only ever lowers the confidence.
applyStructuralOverrides(r) ==
  IF truncated \/ (injected /\ r.bucket = "substantial") THEN [r EXCEPT !.confidence = "low"] ELSE r

\* Both providers are asked before anything is written. A failed judging call is a
\* review without a bucket, a failed or absent cross-check no review at all. Nothing
\* keeps two runs of one verdict apart.
AskReviewers(k, j, c) ==
  /\ pipeline[k].pc = "idle" /\ reviews < MaxReviews /\ reviews' = reviews + 1
  /\ prefilter = "passed"
  /\ pipeline' = [pipeline EXCEPT ![k] = [pc |-> "asked", judge |-> applyStructuralOverrides(j),
                                        cross |-> IF c = NoReview THEN NoReview ELSE applyStructuralOverrides(c)]]
  /\ UNCHANGED <<verdictInputs, prefilter, judge, crossCheck, evidenceOf, final, finalSource, needsReview, orphaned>>

\* The evidence is stored whatever the verdict already says, over any other run's.
persistStageVerdicts(k) ==
  /\ pipeline[k].pc = "asked" /\ pipeline' = [pipeline EXCEPT ![k].pc = "stored"]
  /\ judge' = pipeline[k].judge /\ crossCheck' = pipeline[k].cross /\ evidenceOf' = k
  /\ UNCHANGED <<verdictInputs, prefilter, final, finalSource, needsReview, orphaned, reviews>>

EscalateOnDisagreement(j, c) == c # NoReview /\ j.bucket # c.bucket \* mutant

NeedsEscalation(j, c) ==
  \/ j.confidence = "low" \/ j.bucket = ""
  \/ c = NoReview \/ c.confidence = "low"
  \/ j.bucket # c.bucket

Rests(k) == pipeline' = [pipeline EXCEPT ![k] = Resting]

SettleAnyway(k) == \* mutant
  /\ pipeline[k].pc = "stored" /\ Rests(k) /\ orphaned' = (evidenceOf # k)
  /\ IF NeedsEscalation(pipeline[k].judge, pipeline[k].cross)
     THEN needsReview' = TRUE /\ UNCHANGED <<final, finalSource>>
     ELSE final' = pipeline[k].judge.bucket /\ finalSource' = "auto_confirmed" /\ needsReview' = FALSE
  /\ UNCHANGED <<verdictInputs, prefilter, judge, crossCheck, evidenceOf, reviews>>

\* Agreement confirms itself; everything else becomes a recommendation for a person.
\* Neither write touches what a person has decided meanwhile, and neither asks whose
\* evidence is stored by now.
SettleOrEscalate(k) ==
  /\ pipeline[k].pc = "stored" /\ Rests(k) /\ orphaned' = (evidenceOf # k)
  /\ IF finalSource = "human_override" THEN UNCHANGED <<final, finalSource, needsReview>>
     ELSE IF NeedsEscalation(pipeline[k].judge, pipeline[k].cross)
     THEN needsReview' = TRUE /\ UNCHANGED <<final, finalSource>>
     ELSE final' = pipeline[k].judge.bucket /\ finalSource' = "auto_confirmed" /\ needsReview' = FALSE
  /\ UNCHANGED <<verdictInputs, prefilter, judge, crossCheck, evidenceOf, reviews>>

\* The process dies between its writes.
PipelineDies(k) ==
  /\ pipeline[k].pc # "idle" /\ Rests(k)
  /\ orphaned' = (orphaned \/ (pipeline[k].pc = "stored" /\ evidenceOf = k))
  /\ UNCHANGED <<verdictInputs, prefilter, judge, crossCheck, evidenceOf, final, finalSource, needsReview, reviews>>

OverrideVerdict(b) ==
  /\ reviews < MaxReviews /\ reviews' = reviews + 1
  /\ final' = b /\ finalSource' = "human_override" /\ needsReview' = FALSE
  /\ UNCHANGED <<verdictInputs, prefilter, judge, crossCheck, evidenceOf, pipeline, orphaned>>

VerdictNext ==
  \/ SyncVerdictRow
  \/ \E k \in Judging : \/ persistStageVerdicts(k) \/ SettleOrEscalate(k) \/ PipelineDies(k)
                        \/ \E j \in Review \cup {FailedReview}, c \in Review \cup {NoReview} : AskReviewers(k, j, c)
  \/ \E b \in Bucket : OverrideVerdict(b)
  \/ \E result \in {"passing", "failing"} : ChecksReport(result)

VerdictSpec == VerdictInit /\ [][VerdictNext]_verdictVars

-----------------------------------------------------------------------------
\* A bucket that confirmed itself is never of a diff that was cut, and never a high
\* one on text that tried to raise it. It is the one the stored evidence gives, two
\* confident reviews that agree and never one alone, unless it waits for a person,
\* its run is about to act, or the evidence is orphaned: its run died before it
\* acted, or an earlier run acted after it.
ConfirmedByTwo ==
  finalSource = "auto_confirmed" =>
    /\ ~truncated /\ (injected => final # "substantial")
    /\ ~needsReview /\ ~orphaned /\ (\A k \in Judging : evidenceOf = k => pipeline[k].pc # "stored") =>
         judge = [bucket |-> final, confidence |-> "high"] /\ crossCheck = judge

\* What a person decided stands until a person decides again, whatever the runs that
\* were under way write after it.
HumanBucketStands ==
  [][finalSource = "human_override" => final' = final \/ \E b \in Bucket : OverrideVerdict(b)]_verdictVars
=============================================================================
