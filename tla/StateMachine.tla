---------------------------- MODULE StateMachine ----------------------------
(* The project states and the moves between them, state-manager/StateMachine *)
EXTENDS Naturals

ProjectStates ==
  {"collecting", "clarifying", "prd_drafting", "prd_approved", "srs_drafting", "srs_approved",
   "sds_drafting", "sds_approved", "issues_creating", "issues_created", "implementing",
   "validating", "pr_review", "merged", "cancelled"}

\* The place in PIPELINE_STAGES; 0 for a state that is not in it
Place ==
  [collecting |-> 1, clarifying |-> 2, prd_drafting |-> 3, prd_approved |-> 4,
   srs_drafting |-> 5, srs_approved |-> 6, sds_drafting |-> 7, sds_approved |-> 8,
   issues_creating |-> 9, issues_created |-> 10, implementing |-> 11, validating |-> 12,
   pr_review |-> 13, merged |-> 14, cancelled |-> 0]

\* VALID_TRANSITIONS
ValidTransitions ==
  [collecting |-> {"clarifying", "prd_drafting", "cancelled"},
   clarifying |-> {"collecting", "prd_drafting", "cancelled"},
   prd_drafting |-> {"prd_approved", "collecting", "cancelled"},
   prd_approved |-> {"srs_drafting", "prd_drafting", "cancelled"},
   srs_drafting |-> {"srs_approved", "prd_approved", "cancelled"},
   srs_approved |-> {"sds_drafting", "srs_drafting", "cancelled"},
   sds_drafting |-> {"sds_approved", "srs_approved", "cancelled"},
   sds_approved |-> {"issues_creating", "sds_drafting", "cancelled"},
   issues_creating |-> {"issues_created", "sds_approved", "cancelled"},
   issues_created |-> {"implementing", "issues_creating", "cancelled"},
   implementing |-> {"validating", "pr_review", "issues_created", "cancelled"},
   validating |-> {"pr_review", "implementing", "cancelled"},
   pr_review |-> {"merged", "implementing", "cancelled"},
   merged |-> {},
   cancelled |-> {}]

\* ENHANCED_TRANSITIONS, its recovery paths
RecoveryOptions ==
  [collecting |-> {}, clarifying |-> {"collecting"},
   prd_drafting |-> {"collecting", "clarifying"},
   prd_approved |-> {"prd_drafting", "clarifying"},
   srs_drafting |-> {"prd_approved", "prd_drafting"},
   srs_approved |-> {"srs_drafting", "prd_approved"},
   sds_drafting |-> {"srs_approved", "srs_drafting"},
   sds_approved |-> {"sds_drafting", "srs_approved"},
   issues_creating |-> {"sds_approved", "srs_approved"},
   issues_created |-> {"issues_creating", "sds_approved"},
   implementing |-> {"issues_created", "issues_creating"},
   validating |-> {"implementing"},
   pr_review |-> {"implementing", "issues_created"},
   merged |-> {}, cancelled |-> {}]

\* ENHANCED_TRANSITIONS, the states it can skip to
SkipOptions(from) ==
  CASE from = "collecting" -> {"prd_drafting"}
    [] from \in {"prd_approved", "srs_drafting"} -> {"sds_drafting"}
    [] from \in {"srs_approved", "sds_drafting"} -> {"issues_creating"}
    [] OTHER -> {}

IsStageRequired(state) ==
  state \notin {"clarifying", "srs_drafting", "srs_approved", "sds_drafting", "sds_approved",
                "validating", "cancelled"}

StagesBetween(from, to) ==
  {s \in ProjectStates : Place[from] > 0 /\ Place[from] < Place[s] /\ Place[s] < Place[to]}

\* skipTo refuses to skip a required stage unless it is forced
MaySkip(from, to, force) ==
  /\ to \in SkipOptions(from)
  /\ force \/ ~\E s \in StagesBetween(from, to) : IsStageRequired(s)
=============================================================================
