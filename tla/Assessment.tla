----------------------------- MODULE Assessment -----------------------------
(***************************************************************************)
(* What becomes of a model's answer before it is sent: its assembly into   *)
(* an assessment by committee/worker_contract.py, the validation of that   *)
(* by committee/assessment.py, which the service repeats, and the worker's *)
(* reading of a rejection as its own defect or the model's.                *)
(*                                                                         *)
(* Evidence ids are listed as the model lists them; of a text or a number  *)
(* only whether it is within its bounds is kept. A check is written as the *)
(* name it gives in its message and the condition it fails on.             *)
(***************************************************************************)
EXTENDS Integers, Sequences, FiniteSets, FiniteSetsExt, SequencesExt

CONSTANTS
  Pack,              \* the evidence ids of the pinned artifact
  Taxonomy,          \* the claim keys of the comparator specification
  ClaimsTotal,       \* its bounds
  MaterialClaims,
  MaterialThreshold,
  Absent

NeutralRoles == {"neutral_analyst_a", "neutral_analyst_b"}
Targeted == {"red_team", "arbiter"}
ClaimVerdicts == {"resolved_for_a", "resolved_for_b", "both_wrong", "unresolved"}

\* The message of the first check that fails, or Absent.
Error(checks) ==
  LET failed == {n \in DOMAIN checks : checks[n][2]}
  IN IF failed = {} THEN Absent ELSE checks[Min(failed)][1]

\* normalize_claims fills a missing list of citations, and nothing else.
Filled(ids) == IF ids = Absent THEN <<>> ELSE ids
Normalized(claims) ==
  [n \in DOMAIN claims |-> [claims[n] EXCEPT !.cited = Filled(@), !.contradictory = Filled(@)]]

\* assemble_assessment's index of citations: what the claims cite, not what they
\* name as contradictory.
Index(claims) == UNION {ToSet(claims[n].cited) : n \in DOMAIN claims}

-----------------------------------------------------------------------------
(* validate_assessment. Identity, route, usage and cost come from the work *)
(* envelope or are fixed, so those checks pass.                            *)

IdList(name, ids) == <<name, ~IsInjective(ids) \/ ~(ToSet(ids) \subseteq Pack)>>

ClaimChecks(claims, n) ==
  LET c == claims[n] IN
  <<<<"claim fields", ~c.whole>>,
    <<"claim identity", c.key \notin Taxonomy>>,
    <<"claim slot", \E x \in 1..(n - 1) : claims[x].key = c.key /\ claims[x].kind = c.kind>>,
    <<"materiality", c.materiality \notin 1..5>>,
    <<"other materiality", c.key = "other" /\ c.materiality > 2>>,
    <<"statement", ~c.text>>,
    IdList("cited_evidence_ids", c.cited),
    IdList("contradictory_evidence_ids", c.contradictory),
    <<"disjoint", ToSet(c.cited) \cap ToSet(c.contradictory) # {}>>,
    <<"material claim", c.materiality >= MaterialThreshold /\ c.cited = <<>>>>,
    <<"falsification_condition", c.kind = "projection" /\ ~c.condition>>>>

VerdictChecks(verdicts, n) ==
  LET v == verdicts[n] IN
  <<<<"verdict fields", ~v.whole>>,
    <<"verdict item", \E x \in 1..(n - 1) : verdicts[x].key = v.key>>,
    <<"verdict", v.kind \notin ClaimVerdicts>>,
    <<"verdict statement", ~v.text>>,
    IdList("verdict evidence", v.cited),
    <<"resolving verdict", v.kind # "unresolved" /\ v.cited = <<>>>>>>

\* The first claim at fault decides.
ItemError(role, claims) ==
  LET error(n) == Error(IF role \in Targeted THEN VerdictChecks(claims, n)
                        ELSE ClaimChecks(claims, n))
      failed == {n \in DOMAIN claims : error(n) # Absent}
  IN IF failed = {} THEN Absent ELSE error(Min(failed))

\* What a claim cites for or against; a verdict has no contradictory evidence.
Citations(role, claims) ==
  Index(claims) \cup
    (IF role \in Targeted THEN {}
     ELSE UNION {ToSet(claims[n].contradictory) : n \in DOMAIN claims})

Validate(role, a, claims, index) ==
  LET error == ItemError(role, claims)
      material == {n \in DOMAIN claims : claims[n].materiality >= MaterialThreshold}
  IN Error(<<<<"confidence", ~a.numbers>>,
             <<"claims bound", Len(claims) > ClaimsTotal>>,
             <<"verdicts", role \in Targeted /\ claims = <<>>>>,
             <<error, error # Absent>>,
             <<"material bound", role \in NeutralRoles /\ Cardinality(material) > MaterialClaims>>,
             <<"assessment cited_evidence_ids", ~(index \subseteq Pack)>>,
             <<"citation index", index # Citations(role, claims)>>,
             <<"missing evidence", ~a.missing>>,
             <<"thesis", ~a.thesis>>>>)

\* assemble_assessment and preflight.
Preflight(role, a) ==
  LET claims == Normalized(a.claims) IN Validate(role, a, claims, Index(claims))

\* _harness_owned_error: the message contains the name of a field the harness
\* fills. It also fills the index, whose message does not name it so.
HarnessOwned(error) == error \in {"cited_evidence_ids", "assessment cited_evidence_ids"}
=============================================================================
