--------------------------- MODULE OperationsProofs ---------------------------
(***************************************************************************)
(* Theorems about the execution side: PaperAutonomy.tla, for any           *)
(* proposals, any number of overlapping runs and any policy limits, and    *)
(* Phase4.tla, for every set of calls and tokens and every quantity.       *)
(***************************************************************************)
EXTENDS MCOperations, Sums

Paid == {"preview", "recheck", "submit", "place"}
InEnvelope == {"usage", "charge", "record", "archive"} \cup Paid

\* A run inside the loop works on a proposal.
Working == \A r \in Runners : run[r].pc \in InEnvelope => Cur(r) \in Proposals

AutonomyTypeInv == TypeOK /\ Working

\* A run between its charge and its submission holds the charge alone, and the
\* charge has bought nothing yet.
PaidRuns ==
  /\ \A r \in Runners : run[r].pc \in Paid =>
       Charge(r) \in charges /\ orders[Charge(r)] = 0
  /\ \A r, s \in Runners :
       r # s /\ run[r].pc \in Paid /\ run[s].pc \in Paid => Charge(r) # Charge(s)

\* What a run that submitted has left behind.
TriedRuns ==
  \A r \in Runners :
    /\ run[r].pc = "record" => Charge(r) \in charges
    /\ run[r].pc = "archive" =>
         Charge(r) \in charges \cap ledger

AutonomyInv == /\ AutonomyTypeInv /\ PaidRuns /\ TriedRuns
       /\ OneOrderPerCharge /\ ProcessedWasTried

-----------------------------------------------------------------------------
(* How a run's locals change.                                              *)

LEMMA GotoEffect ==
  ASSUME AutonomyTypeInv, NEW r \in Runners, NEW p \in Points, Goto(r, p)
  PROVE  /\ run' \in [Runners -> Run]
         /\ run'[r].pc = p /\ run'[r].cur = run[r].cur
         /\ run'[r].day = run[r].day
         /\ \A s \in Runners \ {r} : run'[s] = run[s]
BY DEF AutonomyTypeInv, TypeOK, Goto, Run

LEMMA StopEffect ==
  ASSUME AutonomyTypeInv, NEW r \in Runners, run' = [run EXCEPT ![r] = Stopped]
  PROVE  /\ run' \in [Runners -> Run]
         /\ run'[r].pc = "idle"
         /\ \A s \in Runners \ {r} : run'[s] = run[s]
<1>1. Stopped \in Run /\ Stopped.pc = "idle"
  BY DayAssumption DEF Stopped, Run, Points, Days
<1> QED
  BY <1>1 DEF AutonomyTypeInv, TypeOK

LEMMA AutonomyInitInv == Init => AutonomyInv
<1> SUFFICES ASSUME Init PROVE AutonomyInv
  OBVIOUS
<1>1. 0 \in Days
  BY DayAssumption DEF Days
<1>2. Stopped \in Run /\ Stopped.pc = "idle"
  BY <1>1 DEF Stopped, Run, Points
<1>3. \A r \in Runners : run[r].pc = "idle"
  BY <1>2 DEF Init
<1>4. "idle" \notin InEnvelope /\ "idle" \notin Paid
  BY DEF InEnvelope, Paid
<1>5. TypeOK
  BY <1>1, <1>2 DEF Init, TypeOK
<1>6. Working /\ PaidRuns /\ TriedRuns
  BY <1>3, <1>4 DEF Working, PaidRuns, TriedRuns
<1>7. OneOrderPerCharge
  BY DEF Init, OneOrderPerCharge
<1>8. ProcessedWasTried
  BY DEF Init, ProcessedWasTried
<1> QED
  BY <1>5, <1>6, <1>7, <1>8 DEF AutonomyInv, AutonomyTypeInv

-----------------------------------------------------------------------------
(* Steps.                                                                  *)

\* A step of a run that buys nothing and moves nothing: it stays where it is
\* paid for, or goes to a point where nothing need be paid.
LEMMA QuietStep ==
  ASSUME AutonomyInv, NEW r \in Runners,
         UNCHANGED <<day, exports, inbox, processed, blocked, budget>>,
         run' \in [Runners -> Run],
         \A s \in Runners \ {r} : run'[s] = run[s],
         run'[r].pc \in InEnvelope => run'[r].cur \in Proposals,
         run'[r].pc \in Paid \cup {"record"} =>
           /\ run[r].pc \in Paid
           /\ run'[r].cur = run[r].cur /\ run'[r].day = run[r].day,
         run'[r].pc # "archive"
  PROVE  AutonomyInv'
<1>1. AutonomyTypeInv'
  BY DEF AutonomyInv, AutonomyTypeInv, TypeOK, Working, Cur, exports, budget
<1>2. PaidRuns'
  BY DEF AutonomyInv, PaidRuns, Charge, Cur, budget
<1>3. TriedRuns'
  BY DEF AutonomyInv, PaidRuns, TriedRuns, Charge, Cur, budget, Paid
<1>4. OneOrderPerCharge' /\ ProcessedWasTried'
  BY DEF AutonomyInv, OneOrderPerCharge, ProcessedWasTried, budget
<1> QED
  BY <1>1, <1>2, <1>3, <1>4 DEF AutonomyInv

LEMMA QuietSteps ==
  ASSUME AutonomyInv, NEW r \in Runners,
         \/ StartRun(r) \/ ProvePaper(r) \/ NextEnvelope(r) \/ FinishRun(r)
         \/ DailyUsage(r) \/ Preview(r) \/ RecheckKillSwitch(r) \/ Submit(r)
         \/ RunnerDies(r)
  PROVE  AutonomyInv'
<1>a. /\ UNCHANGED <<day, exports, inbox, processed, blocked, budget>>
      /\ AutonomyTypeInv /\ run \in [Runners -> Run]
      /\ run[r].pc \in InEnvelope => run[r].cur \in Proposals
  BY DEF StartRun, ProvePaper, NextEnvelope, FinishRun, DailyUsage, Preview,
     RecheckKillSwitch, Submit, RunnerDies, AutonomyInv, AutonomyTypeInv, TypeOK, Working, Cur
<1>1. CASE run' = [run EXCEPT ![r] = Stopped]
  BY <1>a, <1>1, StopEffect, QuietStep DEF InEnvelope, Paid
<1>2. CASE StartRun(r)
  <2> DEFINE j == [pc |-> "proof", day |-> day, files |-> inbox, cur |-> None]
  <2>1. j \in Run /\ j.pc = "proof"
    BY <1>a DEF AutonomyTypeInv, TypeOK, Run, Points
  <2>2. run' = [run EXCEPT ![r] = j]
    BY <1>2 DEF StartRun
  <2> HIDE DEF j
  <2>3. /\ run' \in [Runners -> Run] /\ run'[r].pc = "proof"
        /\ \A s \in Runners \ {r} : run'[s] = run[s]
    BY <1>a, <2>1, <2>2
  <2> QED
    BY <1>a, <2>3, QuietStep DEF InEnvelope, Paid
<1>3. CASE NextEnvelope(r)
  <2> PICK p : \/ /\ p \in inbox \cap authority
                  /\ run' = [run EXCEPT ![r].pc = "usage", ![r].cur = p,
                                        ![r].files = @ \ {p}]
               \/ run' = [run EXCEPT ![r].files = @ \ {p}]
    BY <1>3 DEF NextEnvelope
  <2>0. run[r] \in Run /\ run[r].pc = "next"
    BY <1>a, <1>3 DEF NextEnvelope, At
  <2>1. CASE /\ p \in inbox \cap authority
             /\ run' = [run EXCEPT ![r].pc = "usage", ![r].cur = p,
                                   ![r].files = @ \ {p}]
    <3> DEFINE j == [run[r] EXCEPT !.pc = "usage", !.cur = p,
                                   !.files = @ \ {p}]
    <3>1. /\ j \in Run /\ j.pc = "usage" /\ j.cur = p /\ p \in Proposals
      BY <1>a, <2>0, <2>1 DEF AutonomyTypeInv, TypeOK, Run, Points
    <3>2. run' = [run EXCEPT ![r] = j]
      BY <2>1
    <3> HIDE DEF j
    <3>3. /\ run' \in [Runners -> Run] /\ run'[r] = j
          /\ \A s \in Runners \ {r} : run'[s] = run[s]
      BY <1>a, <3>1, <3>2
    <3> QED
      BY <1>a, <3>1, <3>3, QuietStep DEF Paid
  <2>2. CASE run' = [run EXCEPT ![r].files = @ \ {p}]
    <3> DEFINE j == [run[r] EXCEPT !.files = @ \ {p}]
    <3>1. j \in Run /\ j.pc = "next"
      BY <2>0 DEF Run
    <3>2. run' = [run EXCEPT ![r] = j]
      BY <2>2
    <3> HIDE DEF j
    <3>3. /\ run' \in [Runners -> Run] /\ run'[r] = j
          /\ \A s \in Runners \ {r} : run'[s] = run[s]
      BY <1>a, <3>1, <3>2
    <3> QED
      BY <1>a, <3>1, <3>3, QuietStep DEF Paid, InEnvelope
  <2> QED
    BY <2>1, <2>2
<1>4. CASE \/ ProvePaper(r) \/ DailyUsage(r) \/ Preview(r)
           \/ RecheckKillSwitch(r) \/ Submit(r)
  <2>1. CASE run' = [run EXCEPT ![r] = Stopped]
    BY <1>1, <2>1
  <2>2. CASE run' # [run EXCEPT ![r] = Stopped]
    <3> PICK p \in Points :
          /\ Goto(r, p)
          /\ \/ p = "next"
             \/ run[r].pc = "usage" /\ p = "charge"
             \/ run[r].pc = "preview" /\ p = "recheck"
             \/ run[r].pc = "recheck" /\ p = "submit"
             \/ run[r].pc = "submit" /\ p \in {"record", "place"}
      BY <1>4, <2>2 DEF ProvePaper, DailyUsage, Preview, RecheckKillSwitch,
         Submit, At, Points
    <3>1. /\ p \in InEnvelope => run[r].pc \in InEnvelope
          /\ p \in Paid \cup {"record"} => run[r].pc \in Paid
          /\ p # "archive"
      BY DEF InEnvelope, Paid
    <3> QED
      BY <1>a, <3>1, GotoEffect, QuietStep
  <2> QED
    BY <2>1, <2>2
<1>5. CASE FinishRun(r) \/ RunnerDies(r)
  BY <1>1, <1>5 DEF FinishRun, RunnerDies
<1> QED
  BY <1>2, <1>3, <1>4, <1>5

\* The three steps that buy: the charge, the submission, and its record.
LEMMA ChargeStep ==
  ASSUME AutonomyInv, NEW r \in Runners, ChargeBudget(r)
  PROVE  AutonomyInv'
<1>a. /\ run[r].pc = "charge" /\ AutonomyTypeInv /\ Cur(r) \in Proposals
      /\ UNCHANGED <<day, exports, inbox, processed, blocked, ledger, orders>>
      /\ Charge(r) \in Days \X Proposals
  BY DEF ChargeBudget, At, AutonomyInv, AutonomyTypeInv, TypeOK, Working, InEnvelope, Charge, Run
<1>1. CASE Charge(r) \in charges
  <2>1. Goto(r, "next") /\ UNCHANGED budget
    BY <1>a, <1>1 DEF ChargeBudget, budget
  <2> QED
    BY <1>a, <2>1, GotoEffect, QuietStep DEF Points, InEnvelope, Paid
<1>2. CASE Charge(r) \notin charges
  <2>1. /\ charges' = charges \cup {Charge(r)} /\ Goto(r, "preview")
        /\ orders[Charge(r)] = 0
    <3>1. orders[Charge(r)] \in Nat
      BY <1>a DEF AutonomyTypeInv, TypeOK
    <3> QED
      BY <1>a, <1>2, <3>1 DEF ChargeBudget, AutonomyInv, OneOrderPerCharge
  <2>2. /\ run' \in [Runners -> Run] /\ run'[r].pc = "preview"
        /\ run'[r].cur = run[r].cur /\ run'[r].day = run[r].day
        /\ \A s \in Runners \ {r} : run'[s] = run[s]
    BY <1>a, <2>1, GotoEffect DEF Points
  <2>3. /\ Charge(r)' = Charge(r)
        /\ \A s \in Runners \ {r} : Charge(s)' = Charge(s)
    BY <2>2 DEF Charge, Cur
  <2>4. AutonomyTypeInv'
    BY <1>a, <2>1, <2>2
       DEF AutonomyTypeInv, TypeOK, Working, Cur, exports
  <2>5. PaidRuns'
    BY <1>a, <1>2, <2>1, <2>2, <2>3 DEF AutonomyInv, PaidRuns
  <2>6. TriedRuns'
    BY <1>a, <2>1, <2>2, <2>3 DEF AutonomyInv, TriedRuns
  <2>7. OneOrderPerCharge' /\ ProcessedWasTried'
    BY <1>a, <2>1 DEF AutonomyInv, OneOrderPerCharge, ProcessedWasTried
  <2> QED
    BY <2>4, <2>5, <2>6, <2>7 DEF AutonomyInv
<1> QED
  BY <1>1, <1>2

LEMMA PlaceStep ==
  ASSUME AutonomyInv, NEW r \in Runners, Place(r)
  PROVE  AutonomyInv'
<1>a. /\ run[r].pc = "place" /\ AutonomyTypeInv /\ Goto(r, "record")
      /\ UNCHANGED <<day, exports, inbox, processed, blocked, charges, ledger>>
      /\ Charge(r) \in charges /\ orders[Charge(r)] = 0
      /\ Charge(r) \in Days \X Proposals
  BY DEF Place, At, AutonomyInv, AutonomyTypeInv, TypeOK, PaidRuns, Paid
<1>b. /\ run' \in [Runners -> Run] /\ run'[r].pc = "record"
      /\ run'[r].cur = run[r].cur /\ run'[r].day = run[r].day
      /\ \A s \in Runners \ {r} : run'[s] = run[s]
  BY <1>a, GotoEffect DEF Points
<1>c. /\ Charge(r)' = Charge(r)
      /\ \A s \in Runners \ {r} : Charge(s)' = Charge(s)
  BY <1>b DEF Charge, Cur
<1>d. /\ orders' \in [Days \X Proposals -> Nat]
      /\ orders'[Charge(r)] \in {0, 1}
      /\ \A c \in (Days \X Proposals) \ {Charge(r)} : orders'[c] = orders[c]
  BY <1>a DEF Place, AutonomyTypeInv, TypeOK
<1>1. AutonomyTypeInv'
  BY <1>a, <1>b, <1>d
     DEF AutonomyTypeInv, TypeOK, Working, Cur, exports, InEnvelope, Paid
<1>2. PaidRuns'
  <2>1. ASSUME NEW s \in Runners \ {r}, run[s].pc \in Paid
        PROVE  /\ Charge(s) \in charges /\ Charge(s) # Charge(r)
               /\ orders'[Charge(s)] = 0
    BY <1>a, <1>d, <2>1 DEF AutonomyInv, PaidRuns, Paid, AutonomyTypeInv, TypeOK
  <2> QED
    BY <1>a, <1>b, <1>c, <2>1 DEF AutonomyInv, PaidRuns, Paid
<1>3. TriedRuns'
  BY <1>a, <1>b, <1>c DEF AutonomyInv, TriedRuns
<1>4. OneOrderPerCharge'
  BY <1>a, <1>d DEF AutonomyInv, OneOrderPerCharge
<1>5. ProcessedWasTried'
  BY <1>a DEF AutonomyInv, ProcessedWasTried
<1> QED
  BY <1>1, <1>2, <1>3, <1>4, <1>5 DEF AutonomyInv

LEMMA RecordStep ==
  ASSUME AutonomyInv, NEW r \in Runners, RecordLedger(r) \/ Archive(r)
  PROVE  AutonomyInv'
<1>a. /\ run[r].pc \in {"record", "archive"} /\ AutonomyTypeInv
      /\ Cur(r) \in Proposals /\ Charge(r) \in charges
      /\ run[r].pc = "archive" => Charge(r) \in ledger
      /\ UNCHANGED <<day, exports, blocked, charges, orders>>
  BY DEF RecordLedger, Archive, At, AutonomyInv, AutonomyTypeInv, Working, InEnvelope,
     TriedRuns, budget
<1>b. PICK p \in {"archive", "next"} :
        /\ Goto(r, p)
        /\ p = "archive" => ledger' = ledger \cup {Charge(r)}
        /\ ledger' \in {ledger, ledger \cup {Charge(r)}}
        /\ \/ UNCHANGED <<inbox, processed>>
           \/ /\ run[r].pc = "archive"
              /\ inbox' = inbox \ {Cur(r)}
              /\ processed' = processed \cup {Cur(r)}
  BY DEF RecordLedger, Archive, At, budget
<1>c. /\ run' \in [Runners -> Run] /\ run'[r].pc = p
      /\ run'[r].cur = run[r].cur /\ run'[r].day = run[r].day
      /\ \A s \in Runners \ {r} : run'[s] = run[s]
  BY <1>a, <1>b, GotoEffect DEF Points
<1>d. /\ Charge(r)' = Charge(r)
      /\ \A s \in Runners \ {r} : Charge(s)' = Charge(s)
  BY <1>c DEF Charge, Cur
<1>e. Charge(r) \in Days \X Proposals
  BY <1>a DEF AutonomyTypeInv, TypeOK
<1>1. AutonomyTypeInv'
  <2>1. TypeOK'
    BY <1>a, <1>b, <1>c, <1>e DEF AutonomyTypeInv, TypeOK, exports
  <2>2. Working'
    BY <1>a, <1>c DEF AutonomyTypeInv, Working, Cur
  <2> QED
    BY <2>1, <2>2 DEF AutonomyTypeInv
<1>2. PaidRuns'
  BY <1>a, <1>c, <1>d DEF AutonomyInv, PaidRuns, Paid
<1>3. TriedRuns'
  BY <1>a, <1>b, <1>c, <1>d DEF AutonomyInv, TriedRuns
<1>4. OneOrderPerCharge'
  BY <1>a DEF AutonomyInv, OneOrderPerCharge
<1>5. ProcessedWasTried'
  <2> SUFFICES ASSUME NEW q \in processed'
               PROVE  \E d \in Days : <<d, q>> \in ledger' \cap charges
    BY <1>a DEF ProcessedWasTried
  <2>1. CASE q \in processed
    BY <1>b, <2>1 DEF AutonomyInv, ProcessedWasTried
  <2>2. CASE q \notin processed
    <3>1. q = Cur(r) /\ Charge(r) \in ledger \cap charges
      BY <1>a, <1>b, <2>2
    <3>2. Charge(r) = <<run[r].day, q>> /\ run[r].day \in Days
      BY <1>e, <3>1 DEF Charge
    <3> QED
      BY <1>b, <3>1, <3>2
  <2> QED
    BY <2>1, <2>2
<1> QED
  BY <1>1, <1>2, <1>3, <1>4, <1>5 DEF AutonomyInv

LEMMA OutsideStep ==
  ASSUME AutonomyInv,
         \/ \E p \in Proposals :
              PersistProposal(p) \/ PublishAuthority(p) \/ PublishEnvelope(p)
         \/ SetKillSwitch \/ Midnight \/ UNCHANGED vars
  PROVE  AutonomyInv'
<1>1. UNCHANGED <<processed, charges, ledger, orders, run>>
  BY DEF PersistProposal, PublishAuthority, PublishEnvelope, SetKillSwitch,
     Midnight, vars, exports, budget
<1>2. TypeOK'
  <2>a. TypeOK
    BY DEF AutonomyInv, AutonomyTypeInv
  <2>1. /\ authority' \subseteq Proposals /\ inbox' \subseteq Proposals
        /\ blocked' \in BOOLEAN
    BY <2>a DEF TypeOK, PersistProposal, PublishAuthority, PublishEnvelope,
       SetKillSwitch, Midnight, vars, exports, budget
  <2>2. created' \in [Proposals -> Days \cup {None}]
    BY <2>a DEF TypeOK, PersistProposal, PublishAuthority, PublishEnvelope,
       SetKillSwitch, Midnight, vars, exports, budget
  <2>3. day' \in Days
    <3>1. day' = day \/ (day < LastDay /\ day' = day + 1)
      BY DEF PersistProposal, PublishAuthority, PublishEnvelope, SetKillSwitch,
         Midnight, vars
    <3> QED
      BY <2>a, <3>1, DayAssumption DEF TypeOK, Days
  <2> QED
    BY <1>1, <2>a, <2>1, <2>2, <2>3 DEF TypeOK
<1>3. Working' /\ PaidRuns' /\ TriedRuns'
  BY <1>1 DEF AutonomyInv, AutonomyTypeInv, Working, PaidRuns, TriedRuns, Charge, Cur
<1>4. OneOrderPerCharge' /\ ProcessedWasTried'
  BY <1>1 DEF AutonomyInv, OneOrderPerCharge, ProcessedWasTried
<1> QED
  BY <1>2, <1>3, <1>4 DEF AutonomyInv, AutonomyTypeInv

LEMMA AutonomyNextInv == AutonomyInv /\ [Next]_vars => AutonomyInv'
BY QuietSteps, ChargeStep, PlaceStep, RecordStep, OutsideStep DEF Next, RunStep

LEMMA InvariantHolds == Spec => []AutonomyInv
BY AutonomyInitInv, AutonomyNextInv, PTL DEF Spec

-----------------------------------------------------------------------------
(* Theorems.                                                               *)

\* Type correctness of the directories, the budget ledger and the runs.
THEOREM AutonomyTypeCorrect == Spec => []TypeOK
<1>1. AutonomyInv => TypeOK
  BY DEF AutonomyInv, AutonomyTypeInv
<1> QED
  BY <1>1, InvariantHolds, PTL

\* A charge of the daily budget buys at most one order, and no order is sent
\* without one, for any number of overlapping, dying and repeated runs.
THEOREM ChargedOnce == Spec => []OneOrderPerCharge
<1>1. AutonomyInv => OneOrderPerCharge
  BY DEF AutonomyInv
<1> QED
  BY <1>1, InvariantHolds, PTL

\* No envelope is archived without an execution on record and a charge for it.
THEOREM ArchivedWasTried == Spec => []ProcessedWasTried
<1>1. AutonomyInv => ProcessedWasTried
  BY DEF AutonomyInv
<1> QED
  BY <1>1, InvariantHolds, PTL

\* Both at once: what was sent was paid for, what is gone was tried.
THEOREM EnvelopesAccounted == Spec => []EnvelopesAreAccounted
<1>1. OneOrderPerCharge /\ ProcessedWasTried => EnvelopesAreAccounted
  BY DEF EnvelopesAreAccounted
<1> QED
  BY <1>1, ChargedOnce, ArchivedWasTried, PTL

-----------------------------------------------------------------------------
(* What a day's proposals may spend together.                              *)

\* Two members of a set of at most one are the same.
LEMMA AtMostOne ==
  ASSUME NEW S, IsFiniteSet(S), ~(Cardinality(S) > 1), NEW x \in S, NEW y \in S
  PROVE  x = y
<1> SUFFICES ASSUME x # y PROVE FALSE
  OBVIOUS
<1>1. {x, y} \subseteq S
  OBVIOUS
<1>2. IsFiniteSet({x}) /\ Cardinality({x}) = 1
  BY FS_Singleton
<1>3. Cardinality({x} \cup {y}) = Cardinality({x}) + 1
  BY <1>2, FS_AddElement
<1>4. {x} \cup {y} = {x, y}
  OBVIOUS
<1>5. Cardinality({x, y}) <= Cardinality(S) /\ Cardinality(S) \in Nat
  BY <1>1, FS_Subset, FS_CardinalityType
<1> QED BY <1>2, <1>3, <1>4, <1>5

\* The sum of the community modules, unfolded.
LEMMA UsedUnfolds ==
  ASSUME NEW S,
         \E g : g = [s \in SUBSET S |->
                       IF s = {} THEN 0
                       ELSE Notional[CHOOSE x \in s : TRUE] + g[s \ {CHOOSE x \in s : TRUE}]]
  PROVE  \E g : /\ g = [s \in SUBSET S |->
                          IF s = {} THEN 0
                          ELSE Notional[CHOOSE x \in s : TRUE]
                               + g[s \ {CHOOSE x \in s : TRUE}]]
                /\ NotionalOf(S) = g[S]
BY DEF NotionalOf, MapThenSumSet, MapThenFoldSet

\* It is the total of Sums.tla.
LEMMA UsedTotal ==
  ASSUME NEW S, IsFiniteSet(S)
  PROVE  NotionalOf(S) = Total(Notional, S)
<1> DEFINE Adds(g) == g = [s \in SUBSET S |->
                       IF s = {} THEN 0
                       ELSE Notional[CHOOSE x \in s : TRUE] + g[s \ {CHOOSE x \in s : TRUE}]]
<1>1. ASSUME NEW g PROVE IsSum(g, Notional, S) <=> Adds(g)
  BY DEF IsSum, Pick
<1>2. \E g : Adds(g)
  <2>1. PICK g : IsSum(g, Notional, S)
    BY SumExists
  <2>2. Adds(g)
    BY <1>1, <2>1
  <2> HIDE DEF Adds
  <2> QED BY <2>2
<1>3. \E g : Adds(g) /\ NotionalOf(S) = g[S]
  BY <1>2, UsedUnfolds
<1> HIDE DEF Adds
<1>4. PICK g : IsSum(g, Notional, S) /\ NotionalOf(S) = g[S]
  BY <1>1, <1>3
<1>5. S \in SUBSET S
  OBVIOUS
<1> QED BY <1>4, <1>5, TotalOf

\* One proposal more adds its notional, once.
LEMMA UsedAdd ==
  ASSUME NEW S, S \subseteq Proposals, IsFiniteSet(S), NEW p \in Proposals \ S
  PROVE  /\ IsFiniteSet(S \cup {p}) /\ Cardinality(S \cup {p}) = Cardinality(S) + 1
         /\ NotionalOf(S \cup {p}) = NotionalOf(S) + Notional[p]
<1>1. IsFiniteSet(S \cup {p}) /\ Cardinality(S \cup {p}) = Cardinality(S) + 1
  BY FS_AddElement
<1>2. PICK g : IsSum(g, Notional, S \cup {p})
  BY <1>1, SumExists
<1>3. PICK w : w = [x \in S \cup {p} |-> Notional[x]]
  OBVIOUS
<1>4. w \in [S \cup {p} -> Nat]
  BY <1>3, BudgetAssumption
<1>5. ASSUME NEW T, T \in SUBSET (S \cup {p})
      PROVE  Total(Notional, T) = Total(w, T)
  <2>1. \A s \in SUBSET (S \cup {p}) : s # {} => w[Pick(s)] = Notional[Pick(s)]
    BY <1>3, PickIn
  <2>2. [s \in SUBSET (S \cup {p}) |-> IF s = {} THEN 0 ELSE w[Pick(s)] + g[s \ {Pick(s)}]]
          = [s \in SUBSET (S \cup {p}) |->
               IF s = {} THEN 0 ELSE Notional[Pick(s)] + g[s \ {Pick(s)}]]
    BY <2>1
  <2>3. IsSum(g, w, S \cup {p})
    BY <1>2, <2>2 DEF IsSum
  <2> QED BY <1>1, <1>2, <1>5, <2>3, TotalOf
<1>6. Total(w, S \cup {p}) = Total(w, S) + w[p]
  BY <1>1, <1>4, TotalAdd
<1>7. w[p] = Notional[p]
  BY <1>3
<1> QED BY <1>1, <1>5, <1>6, <1>7, UsedTotal
-----------------------------------------------------------------------------
(* The day's budgets hold for runs that do not overlap: what daily_usage   *)
(* found is still true when charge() writes its row.                       *)

Active == {r \in Runners : ~At(r, "idle")}

AloneInv ==
  /\ \A d \in Days : IsFiniteSet(Charged(d))
  /\ IsFiniteSet(Active)
  /\ ~overlapped =>
       /\ \A r, s \in Active : r = s
       /\ BudgetHolds
       /\ \A r \in Runners : At(r, "charge") => WithinBudget(Cur(r), run[r].day)

\* A step of a run leaves the other runs alone, and comes to its charge only from
\* a check that found room for it.
LEMMA RunEffect ==
  ASSUME AutonomyTypeInv, NEW r \in Runners, RunStep(r)
  PROVE  /\ \A s \in Runners \ {r} : run'[s] = run[s]
         /\ run'[r].pc = "charge" =>
              /\ At(r, "usage") /\ charges' = charges
              /\ WithinBudget(Cur(r), run[r].day)
              /\ run'[r].cur = run[r].cur /\ run'[r].day = run[r].day
         /\ charges' # charges =>
              /\ ChargeBudget(r) /\ charges' = charges \cup {Charge(r)}
              /\ Charge(r) \notin charges
<1>1. run \in [Runners -> Run]
  BY DEF AutonomyTypeInv, TypeOK, Points
<1>2. CASE run' = [run EXCEPT ![r] = Stopped] /\ charges' = charges
  BY <1>2, StopEffect
<1>3. CASE StartRun(r)
  <2> DEFINE j == [pc |-> "proof", day |-> day, files |-> inbox, cur |-> None]
  <2>1. run' = [run EXCEPT ![r] = j] /\ j.pc = "proof" /\ charges' = charges
    BY <1>3 DEF StartRun, budget
  <2> HIDE DEF j
  <2> QED BY <1>1, <2>1
<1>4. CASE NextEnvelope(r)
  <2>1. PICK p : \/ run' = [run EXCEPT ![r].pc = "usage", ![r].cur = p, ![r].files = @ \ {p}]
                 \/ run' = [run EXCEPT ![r].files = @ \ {p}]
    BY <1>4 DEF NextEnvelope
  <2>2. run[r] \in Run /\ run[r].pc = "next" /\ charges' = charges
    BY <1>1, <1>4 DEF NextEnvelope, At, budget
  <2>3. \E j : run' = [run EXCEPT ![r] = j] /\ j.pc \in {"usage", "next"}
    <3>1. CASE run' = [run EXCEPT ![r].pc = "usage", ![r].cur = p, ![r].files = @ \ {p}]
      <4> DEFINE j == [run[r] EXCEPT !.pc = "usage", !.cur = p, !.files = @ \ {p}]
      <4>1. j.pc = "usage" /\ run' = [run EXCEPT ![r] = j]
        BY <3>1, <2>2 DEF Run
      <4> QED BY <4>1
    <3>2. CASE run' = [run EXCEPT ![r].files = @ \ {p}]
      <4> DEFINE j == [run[r] EXCEPT !.files = @ \ {p}]
      <4>1. j.pc = "next" /\ run' = [run EXCEPT ![r] = j]
        BY <3>2, <2>2 DEF Run
      <4> QED BY <4>1
    <3> QED BY <2>1, <3>1, <3>2
  <2> QED BY <1>1, <2>2, <2>3
<1>5. CASE DailyUsage(r)
  <2>1. CASE WithinBudget(Cur(r), run[r].day) /\ Goto(r, "charge")
    <3>1. "charge" \in Points
      BY DEF Points
    <3> QED BY <1>5, <2>1, <3>1, GotoEffect DEF DailyUsage, budget
  <2>2. CASE Goto(r, "next")
    <3>1. "next" \in Points
      BY DEF Points
    <3> QED BY <1>5, <2>2, <3>1, GotoEffect DEF DailyUsage, budget
  <2> QED BY <1>5, <2>1, <2>2 DEF DailyUsage
<1>6. CASE ChargeBudget(r)
  <2>1. "preview" \in Points /\ "next" \in Points
    BY DEF Points
  <2>2. CASE /\ Charge(r) \notin charges /\ charges' = charges \cup {Charge(r)}
             /\ Goto(r, "preview")
    BY <1>6, <2>1, <2>2, GotoEffect
  <2>3. CASE Goto(r, "next") /\ UNCHANGED charges
    BY <2>1, <2>3, GotoEffect
  <2> QED BY <1>6, <2>2, <2>3 DEF ChargeBudget
<1>7. CASE charges' = charges /\ \E p \in Points \ {"charge"} : Goto(r, p)
  <2>1. PICK p \in Points \ {"charge"} : Goto(r, p)
    BY <1>7
  <2> QED BY <1>7, <2>1, GotoEffect
<1>8. CASE \/ ProvePaper(r) \/ Preview(r) \/ RecheckKillSwitch(r) \/ Submit(r)
           \/ Place(r) \/ RecordLedger(r) \/ Archive(r)
  <2>1. charges' = charges
    BY <1>8 DEF ProvePaper, Preview, RecheckKillSwitch, Submit, Place, RecordLedger,
       Archive, budget
  <2>2. \/ run' = [run EXCEPT ![r] = Stopped]
        \/ \E p \in {"next", "recheck", "submit", "record", "place", "archive"} : Goto(r, p)
    BY <1>8 DEF ProvePaper, Preview, RecheckKillSwitch, Submit, Place, RecordLedger, Archive
  <2>3. {"next", "recheck", "submit", "record", "place", "archive"} \subseteq Points \ {"charge"}
    BY DEF Points
  <2> QED BY <1>2, <1>7, <2>1, <2>2, <2>3
<1>9. CASE FinishRun(r) \/ RunnerDies(r)
  BY <1>2, <1>9 DEF FinishRun, RunnerDies, budget
<1> QED BY <1>3, <1>4, <1>5, <1>6, <1>8, <1>9 DEF RunStep

\* Day d's charges are within its limits.
Within(d) == Cardinality(Charged(d)) <= MaxCount /\ UsedNotional(d) <= MaxNotional

\* A charge adds its proposal to what its day has charged.
LEMMA ChargeAdds ==
  ASSUME AutonomyTypeInv, NEW r \in Runners, Cur(r) \in Proposals, NEW d \in Days,
         IsFiniteSet(Charged(d)),
         charges' = charges \cup {Charge(r)}, Charge(r) \notin charges
  PROVE  /\ IsFiniteSet(Charged(d)')
         /\ (WithinBudget(Cur(r), run[r].day) /\ Within(d)) => Within(d)'
<1>1. run[r].day \in Days /\ Charge(r) = <<run[r].day, Cur(r)>>
  BY DEF AutonomyTypeInv, TypeOK, Run, Charge
<1>2. UsedNotional(d)' = NotionalOf(Charged(d)') /\ UsedNotional(d) = NotionalOf(Charged(d))
  BY DEF UsedNotional
<1>3. CASE d # run[r].day
  <2>1. Charged(d)' = Charged(d)
    BY <1>1, <1>3 DEF Charged
  <2> QED BY <1>2, <2>1 DEF Within
<1>4. CASE d = run[r].day
  <2>1. Charged(d)' = Charged(d) \cup {Cur(r)} /\ Cur(r) \in Proposals \ Charged(d)
    BY <1>1, <1>4 DEF Charged
  <2>2. Charged(d) \subseteq Proposals /\ Cur(r) \in Proposals \ Charged(d)
    BY <2>1 DEF Charged
  <2>3. /\ IsFiniteSet(Charged(d)') /\ Cardinality(Charged(d)') = Cardinality(Charged(d)) + 1
        /\ NotionalOf(Charged(d)') = NotionalOf(Charged(d)) + Notional[Cur(r)]
    BY <2>1, <2>2, UsedAdd
  <2>4. WithinBudget(Cur(r), run[r].day) =>
          /\ Cardinality(Charged(d)) < MaxCount
          /\ NotionalOf(Charged(d)) + Notional[Cur(r)] <= MaxNotional
    BY <1>2, <1>4 DEF WithinBudget
  <2>5. Cardinality(Charged(d)) \in Nat /\ MaxCount \in Nat
    BY <2>2, FS_CardinalityType, BudgetAssumption
  <2> QED BY <1>2, <2>3, <2>4, <2>5 DEF Within
<1> QED BY <1>3, <1>4

\* The charges alone say what a day has left.
LEMMA SameBudget ==
  ASSUME charges' = charges
  PROVE  /\ \A d : Charged(d)' = Charged(d)
         /\ BudgetHolds' <=> BudgetHolds
         /\ \A p, d : WithinBudget(p, d)' <=> WithinBudget(p, d)
<1>1. \A d : Charged(d)' = Charged(d)
  BY DEF Charged
<1>2. \A d : UsedNotional(d)' = UsedNotional(d)
  BY <1>1 DEF UsedNotional
<1> QED BY <1>1, <1>2 DEF BudgetHolds, WithinBudget

LEMMA AloneStep ==
  ASSUME AutonomyInv, AloneInv, Next, overlapped' = (overlapped \/ Overlap')
  PROVE  AloneInv'
<1>1. CASE UNCHANGED <<charges, run>>
  <2>1. /\ Active' = Active /\ \A d \in Days : Charged(d)' = Charged(d)
        /\ BudgetHolds' <=> BudgetHolds
    BY <1>1, SameBudget DEF Active, At
  <2>2. \A r \in Runners : At(r, "charge")' => At(r, "charge")
    BY <1>1 DEF At
  <2>3. \A r \in Runners : WithinBudget(Cur(r), run[r].day)' <=> WithinBudget(Cur(r), run[r].day)
    <3> SUFFICES ASSUME NEW r \in Runners
                 PROVE WithinBudget(Cur(r), run[r].day)' <=> WithinBudget(Cur(r), run[r].day)
      OBVIOUS
    <3>1. Cur(r)' = Cur(r) /\ run'[r].day = run[r].day
      BY <1>1 DEF Cur
    <3> QED BY <1>1, <3>1, SameBudget
  <2>4. ~overlapped' => ~overlapped
    OBVIOUS
  <2> QED BY <2>1, <2>2, <2>3, <2>4 DEF AloneInv
<1>2. ASSUME NEW r \in Runners, RunStep(r) PROVE AloneInv'
  <2>1. AutonomyTypeInv
    BY DEF AutonomyInv
  <2>2. /\ \A s \in Runners \ {r} : run'[s] = run[s]
        /\ run'[r].pc = "charge" =>
             /\ At(r, "usage") /\ charges' = charges
             /\ WithinBudget(Cur(r), run[r].day)
             /\ run'[r].cur = run[r].cur /\ run'[r].day = run[r].day
        /\ charges' # charges =>
             /\ ChargeBudget(r) /\ charges' = charges \cup {Charge(r)}
             /\ Charge(r) \notin charges
    BY <1>2, <2>1, RunEffect
  <2>a. charges' # charges => At(r, "charge") /\ Cur(r) \in Proposals
    BY <2>1, <2>2 DEF ChargeBudget, At, AutonomyTypeInv, Working, InEnvelope
  <2>3. \A d \in Days : IsFiniteSet(Charged(d)')
    <3>1. CASE charges' = charges
      BY <3>1 DEF AloneInv, Charged
    <3>2. CASE charges' # charges
      BY <2>1, <2>2, <2>a, <3>2, ChargeAdds DEF AloneInv
    <3> QED BY <3>1, <3>2
  <2>4. IsFiniteSet(Active)'
    <3>1. Active' \subseteq Active \cup {r}
      BY <2>2 DEF Active, At
    <3>2. IsFiniteSet(Active \cup {r})
      BY FS_AddElement DEF AloneInv
    <3> QED BY <3>1, <3>2, FS_Subset
  <2>5. ASSUME ~overlapped'
        PROVE  /\ \A q, s \in Active' : q = s
               /\ BudgetHolds'
               /\ \A s \in Runners : At(s, "charge")' => WithinBudget(Cur(s), run[s].day)'
    <3>1. ~overlapped /\ ~Overlap'
      BY <2>5
    <3>2. \A q, s \in Active' : q = s
      BY <2>4, <3>1, AtMostOne DEF Overlap, Active
    <3>3. BudgetHolds /\ \A s \in Runners : At(s, "charge") => WithinBudget(Cur(s), run[s].day)
      BY <3>1 DEF AloneInv
    <3>4. BudgetHolds'
      <4>1. CASE charges' = charges
        BY <3>3, <4>1, SameBudget
      <4>2. CASE charges' # charges
        <5>1. \A d \in Days : Within(d)
          BY <3>3 DEF BudgetHolds, Within
        <5>2. WithinBudget(Cur(r), run[r].day)
          BY <2>a, <3>3, <4>2
        <5>3. \A d \in Days : Within(d)'
          BY <2>1, <2>2, <2>a, <4>2, <5>1, <5>2, ChargeAdds DEF AloneInv
        <5> QED BY <5>3 DEF BudgetHolds, Within
      <4> QED BY <4>1, <4>2
    <3>5. ASSUME NEW s \in Runners, At(s, "charge")'
          PROVE  WithinBudget(Cur(s), run[s].day)'
      <4>1. CASE s = r
        <5>1. /\ charges' = charges /\ WithinBudget(Cur(r), run[r].day)
              /\ Cur(r)' = Cur(r) /\ run'[r].day = run[r].day
          BY <2>2, <3>5, <4>1 DEF At, Cur
        <5> QED BY <4>1, <5>1, SameBudget
      <4>2. CASE s # r
        <5>1. run'[s] = run[s] /\ At(s, "charge")
          BY <2>2, <3>5, <4>2 DEF At
        <5>2. s \in Active /\ s \in Active'
          BY <3>5, <5>1 DEF Active, At
        <5>3. r \notin Active
          BY <3>1, <4>2, <5>2 DEF AloneInv
        <5>4. ~At(r, "charge")
          BY <5>3 DEF Active, At
        <5>5. charges' = charges
          BY <2>2, <5>4 DEF ChargeBudget
        <5>6. WithinBudget(Cur(s), run[s].day)
          BY <3>3, <5>1
        <5> QED BY <5>1, <5>5, <5>6, SameBudget DEF Cur
      <4> QED BY <4>1, <4>2
    <3> QED BY <3>2, <3>4, <3>5
  <2> QED BY <2>3, <2>4, <2>5 DEF AloneInv
<1>3. CASE \/ \E p \in Proposals : \/ PersistProposal(p) \/ PublishAuthority(p)
                                   \/ PublishEnvelope(p)
           \/ SetKillSwitch \/ Midnight
  <2>1. UNCHANGED <<charges, run>>
    BY <1>3 DEF PersistProposal, PublishAuthority, PublishEnvelope, SetKillSwitch,
       Midnight, budget
  <2> QED BY <1>1, <2>1
<1> QED BY <1>2, <1>3 DEF Next

\* A first state has charged nothing.
LEMMA AloneInit == MCInit => AutonomyInv /\ AloneInv
<1> SUFFICES ASSUME MCInit PROVE AutonomyInv /\ AloneInv
  OBVIOUS
<1>1. Init /\ overlapped = FALSE /\ AutonomyInv
  BY AutonomyInitInv DEF MCInit
<1>2. charges = {} /\ Active = {}
  BY <1>1 DEF Init, Active, At, Stopped
<1>3. \A d \in Days : Charged(d) = {}
  BY <1>2 DEF Charged
<1>4. NotionalOf({}) = 0 /\ Cardinality({}) = 0 /\ IsFiniteSet({})
  BY UsedTotal, TotalEmpty, FS_EmptySet
<1>5. BudgetHolds
  <2>1. \A d \in Days : UsedNotional(d) = 0 /\ Cardinality(Charged(d)) = 0
    BY <1>3, <1>4 DEF UsedNotional
  <2> QED BY <2>1, BudgetAssumption DEF BudgetHolds
<1>6. \A r \in Runners : ~At(r, "charge")
  BY <1>2 DEF Active, At
<1> QED BY <1>1, <1>2, <1>3, <1>4, <1>5, <1>6 DEF AloneInv

-----------------------------------------------------------------------------
(* The calls on an approved proposal: the types, that the row only ever    *)
(* names an order the broker has, and that what was applied was filled and *)
(* moved the owned quantity exactly once.                                  *)
(*                                                                         *)
(* The argument: find_confirmation_by_client_request_id refuses as soon as *)
(* a second confirmation is alive or submitted. So two calls about to      *)
(* submit different tokens cannot both be unexpired, a token whose order   *)
(* id is recorded (or about to be) is the only such token, and the row's   *)
(* order reference never changes once it is set. A reconciliation may be   *)
(* stale, but it is stale about that one order, whose fill only grows.     *)

\* Tokens whose order id is in the row or on its way there.
Recorded(t) ==
  \/ link.ref = t
  \/ \E c \in Calls : call[c].pc \in {"persist", "mark"} /\ call[c].tok = t

Submitting(c) == call[c].pc = "submit" /\ ~conf[call[c].tok].expired

\* A call about to submit, or to record its order, has a token.
HasToken ==
  \A c \in Calls :
    /\ call[c].pc = "save" =>
         /\ call[c].tok \in Tokens /\ conf[call[c].tok].state # "absent"
    /\ call[c].pc = "submit" =>
         /\ call[c].tok \in Tokens /\ conf[call[c].tok].state # "absent"
    /\ call[c].pc \in {"persist", "mark"} => call[c].tok \in Tokens

\* The order of a recorded token is at the broker, its token consumed.
RecordedIsReal ==
  \A t \in Tokens :
    Recorded(t) => broker[t] # Null /\ conf[t].state = "SUBMITTED"

OneSubmitting ==
  \A c, d \in Calls :
    Submitting(c) /\ Submitting(d) => call[c].tok = call[d].tok

SubmittingIsRecorded ==
  \A c \in Calls, t \in Tokens :
    Submitting(c) /\ Recorded(t) => call[c].tok = t

OneRecorded ==
  \A t, u \in Tokens : Recorded(t) /\ Recorded(u) => t = u

\* A row past its preview has an order id, and so has one being marked.
StateHasRef ==
  /\ link.state \notin {"absent", "PREVIEWED"} => link.ref # Null
  /\ \A c \in Calls : call[c].pc = "mark" => link.ref # Null

\* What a call read of the row is older than the row, never of another order.
SnapOk(r) ==
  /\ r.snap.ref # Null => r.snap.ref = link.ref
  /\ r.snap.owned = Owns(Held, r.snap.applied)
  /\ r.snap.applied > 0 =>
       r.snap.ref # Null /\ r.snap.applied <= broker[r.snap.ref].filled
  /\ r.pc \in {"list", "settle"} => r.snap.ref # Null
  /\ r.pc = "settle" /\ r.seen # Null =>
       r.seen.filled <= broker[r.snap.ref].filled

SnapIsOlder == \A c \in Calls : SnapOk(call[c])

Phase4Inv == /\ Phase4TypeOK /\ HasToken /\ RecordedIsReal /\ OneSubmitting
       /\ SubmittingIsRecorded /\ OneRecorded /\ StateHasRef /\ SnapIsOlder
       /\ OwnedFollowsApplied /\ AppliedWasFilled

-----------------------------------------------------------------------------
(* Arithmetic.                                                             *)

\* The community modules' Min and Max of two numbers.
LEMMA MinMaxOfTwo ==
  ASSUME NEW a \in Int, NEW b \in Int
  PROVE  /\ Min({a, b}) = IF a <= b THEN a ELSE b
         /\ Max({a, b}) = IF a >= b THEN a ELSE b
<1>1. \E m \in {a, b} : \A n \in {a, b} : m <= n
  BY SMT
<1>2. \E m \in {a, b} : \A n \in {a, b} : n <= m
  BY SMT
<1>3. Min({a, b}) \in {a, b} /\ \A n \in {a, b} : Min({a, b}) <= n
  BY <1>1, Zenon DEF Min
<1>4. Max({a, b}) \in {a, b} /\ \A n \in {a, b} : n <= Max({a, b})
  BY <1>2, Zenon DEF Max
<1> QED BY <1>3, <1>4, SMT

\* Moving the owned quantity by a, then from a to b, moves it by b.
LEMMA OwnsAdds ==
  ASSUME NEW a \in Nat, NEW b \in Nat, a <= b
  PROVE  /\ Owns(Held, a) \in Nat
         /\ Owns(Owns(Held, a), b - a) = Owns(Held, b)
<1>1. Held \in Nat /\ Side \in {"BUY", "SELL"}
  BY QuantityAssumption, SideAssumption
<1>2. CASE Side = "BUY"
  <2>1. Owns(Held, a) = Held + a /\ Owns(Held, b) = Held + b
    BY <1>2 DEF Owns
  <2>2. Owns(Owns(Held, a), b - a) = Owns(Held, a) + (b - a)
    BY <1>2 DEF Owns
  <2>3. Owns(Owns(Held, a), b - a) = (Held + a) + (b - a)
    BY <2>1, <2>2
  <2> QED BY <1>1, <2>1, <2>3
<1>3. CASE Side = "SELL"
  <2>1. \A x, y \in Int : Owns(x, y) = x - (IF x <= y THEN x ELSE y)
    <3> SUFFICES ASSUME NEW x \in Int, NEW y \in Int
                 PROVE  Owns(x, y) = x - (IF x <= y THEN x ELSE y)
      OBVIOUS
    <3>1. Owns(x, y) = x - Min({x, y})
      BY <1>3 DEF Owns
    <3> QED BY <3>1, MinMaxOfTwo
  <2>2. Owns(Held, a) \in Int /\ Owns(Held, a) = Held - (IF Held <= a THEN Held ELSE a)
    BY <2>1, <1>1
  <2>3. Owns(Owns(Held, a), b - a)
          = Owns(Held, a) - (IF Owns(Held, a) <= b - a THEN Owns(Held, a) ELSE b - a)
    BY <2>1, <2>2
  <2>4. Owns(Held, b) = Held - (IF Held <= b THEN Held ELSE b)
    BY <2>1, <1>1
  <2> QED BY <2>2, <2>3, <2>4, <1>1
<1> QED BY <1>1, <1>2, <1>3

\* Nothing applied moves nothing.
LEMMA OwnsNothing == Owns(Held, 0) = Held
<1>1. Held \in Nat /\ Side \in {"BUY", "SELL"}
  BY QuantityAssumption, SideAssumption
<1>2. Min({Held, 0}) = 0
  BY <1>1, MinMaxOfTwo
<1> QED BY <1>1, <1>2 DEF Owns

\* What a settlement writes, from what its call read.
LEMMA AppliedAfterBounds ==
  ASSUME NEW snap \in Link, NEW o \in Order \cup {Null}
  PROVE  /\ AppliedAfter(snap, o) \in 0..Quantity
         /\ snap.applied <= AppliedAfter(snap, o)
         /\ o = Null => AppliedAfter(snap, o) = snap.applied
         /\ o # Null => \/ AppliedAfter(snap, o) = snap.applied
                        \/ AppliedAfter(snap, o) = o.filled
<1>0. Quantity \in Nat /\ snap.applied \in 0..Quantity
  BY QuantityAssumption DEF Link
<1>1. CASE o = Null
  BY <1>0, <1>1 DEF AppliedAfter
<1>2. CASE o # Null
  <2>1. o.filled \in 0..Quantity
    BY <1>2 DEF Order
  <2>2. AppliedAfter(snap, o) = IF snap.applied >= o.filled THEN snap.applied
                                                            ELSE o.filled
    <3>1. AppliedAfter(snap, o) = Max({snap.applied, o.filled})
      BY <1>2 DEF AppliedAfter
    <3>2. snap.applied \in Int /\ o.filled \in Int
      BY <1>0, <2>1
    <3>3. Max({snap.applied, o.filled})
            = IF snap.applied >= o.filled THEN snap.applied ELSE o.filled
      BY <3>2, MinMaxOfTwo, Zenon
    <3> QED BY <3>1, <3>3
  <2> QED BY <1>0, <1>2, <2>1, <2>2
<1> QED BY <1>1, <1>2

-----------------------------------------------------------------------------
(* Types.                                                                  *)

\* An idle call has its type, and has read nothing.
LEMMA IdleIsCall == NoLink \in Link /\ Idle \in Call /\ SnapOk(Idle)
<1>1. Held \in Nat /\ 0 \in 0..Quantity
  BY QuantityAssumption
<1>2. NoLink \in Link
  BY <1>1 DEF NoLink, Link, LinkStates
<1>3. Idle \in Call
  BY <1>2 DEF Idle, Call, CallPoints
<1>4. SnapOk(Idle)
  BY OwnsNothing DEF SnapOk, Idle, NoLink
<1> QED BY <1>2, <1>3, <1>4

\* The initial state satisfies the invariant.
LEMMA InitHolds == Phase4Init => Phase4Inv
<1> SUFFICES ASSUME Phase4Init PROVE Phase4Inv
  OBVIOUS
<1>1. Phase4TypeOK
  BY IdleIsCall DEF Phase4Init, Phase4TypeOK, Confirmation
<1>2. \A t \in Tokens : ~Recorded(t)
  BY NullAssumption DEF Phase4Init, Recorded, NoLink, Idle
<1>3. HasToken /\ StateHasRef /\ \A c \in Calls : ~Submitting(c)
  BY DEF Phase4Init, HasToken, StateHasRef, Submitting, NoLink, Idle
<1>4. SnapIsOlder
  BY IdleIsCall DEF Phase4Init, SnapIsOlder
<1>5. OwnedFollowsApplied /\ AppliedWasFilled
  BY OwnsNothing DEF Phase4Init, NoLink, OwnedFollowsApplied, AppliedWasFilled
<1> QED BY <1>1, <1>2, <1>3, <1>4, <1>5
        DEF Phase4Inv, RecordedIsReal, OneSubmitting, SubmittingIsRecorded, OneRecorded

\* A record of Link with one column replaced stays in Link.
LEMMA LinkColumns ==
  ASSUME NEW r \in Link
  PROVE  /\ \A s \in LinkStates, t \in Tokens :
              [r EXCEPT !.state = s, !.approval = t] \in Link
         /\ \A s \in LinkStates : [r EXCEPT !.state = s] \in Link
         /\ \A t \in Tokens : [r EXCEPT !.ref = t] \in Link
         /\ \A s \in LinkStates, n \in 0..Quantity, m \in Nat :
              [r EXCEPT !.state = s, !.applied = n, !.owned = m] \in Link
BY DEF Link

\* The four shapes of a call's step.
LEMMA CallColumns ==
  ASSUME NEW r \in Call
  PROVE  /\ \A p \in CallPoints : [r EXCEPT !.pc = p] \in Call
         /\ \A p \in CallPoints, t \in Tokens :
              [r EXCEPT !.pc = p, !.tok = t] \in Call
         /\ \A p \in CallPoints, l \in Link : [r EXCEPT !.pc = p, !.snap = l] \in Call
         /\ \A p \in CallPoints, o \in Order \cup {Null} :
              [r EXCEPT !.pc = p, !.seen = o] \in Call
BY DEF Call

LEMMA SettlementIsState ==
  ASSUME NEW o \in Order \cup {Null}
  PROVE  Settlement(o) \in SettlementStates \cap LinkStates
<1>1. CASE o = Null
  BY <1>1, Zenon DEF Settlement, SettlementStates, LinkStates
<1>2. CASE o # Null
  <2>1. o.live \in BOOLEAN /\ o.filled \in 0..Quantity /\ Quantity \in Nat \ {0}
    BY <1>2, QuantityAssumption DEF Order
  <2>2. \/ ~o.live /\ o.filled < Quantity
        \/ o.filled = Quantity
        \/ o.live /\ o.filled \in 1..(Quantity - 1)
        \/ o.live /\ o.filled = 0
    BY <2>1
  <2> QED BY <1>2, <2>1, <2>2 DEF Settlement, SettlementStates, LinkStates
<1> QED BY <1>1, <1>2

-----------------------------------------------------------------------------
(* Steps that leave the row alone.                                         *)

\* Confirmations and orders only move on.
WorldGrows ==
  \A t \in Tokens :
    /\ conf[t].state # "absent" => conf'[t].state # "absent"
    /\ conf[t].state = "SUBMITTED" => conf'[t].state = "SUBMITTED"
    /\ conf[t].expired => conf'[t].expired
    /\ broker[t] # Null => /\ broker'[t] # Null
                           /\ broker[t].filled <= broker'[t].filled

\* What a call says of the world stays true while the world moves on.
LEMMA SnapKeeps ==
  ASSUME Phase4Inv, WorldGrows, Phase4TypeOK', NEW r \in Call, SnapOk(r),
         link' = link
  PROVE  SnapOk(r)'
<1> USE DEF SnapOk
<1>1. CASE r.snap.ref = Null
  BY <1>1
<1>2. CASE r.snap.ref # Null
  <2>1. r.snap.ref \in Tokens /\ r.snap.ref = link.ref
    BY <1>2 DEF Call, Link
  <2>2. broker[r.snap.ref] # Null
    BY <2>1 DEF Phase4Inv, RecordedIsReal, Recorded
  <2>3. broker[r.snap.ref] \in Order /\ broker'[r.snap.ref] \in Order
    BY <2>1, <2>2 DEF Phase4Inv, Phase4TypeOK, WorldGrows
  <2>4. /\ broker[r.snap.ref].filled <= broker'[r.snap.ref].filled
        /\ broker[r.snap.ref].filled \in Int /\ broker'[r.snap.ref].filled \in Int
    BY <2>1, <2>2, <2>3, QuantityAssumption DEF WorldGrows, Order
  <2>5. r.snap.applied \in Int
    BY QuantityAssumption DEF Call, Link
  <2>6. r.seen # Null => r.seen.filled \in Int
    BY QuantityAssumption DEF Call, Order
  <2> QED BY <2>1, <2>4, <2>5, <2>6
<1> QED BY <1>1, <1>2

\* An applied fill stays within the fill of the recorded order.
LEMMA AppliedKeeps ==
  ASSUME Phase4Inv, WorldGrows, Phase4TypeOK', link' = link
  PROVE  AppliedWasFilled'
<1> SUFFICES ASSUME link.applied > 0 PROVE AppliedWasFilled'
  BY DEF AppliedWasFilled
<1>1. /\ link.ref # Null /\ broker[link.ref] # Null
      /\ link.applied <= broker[link.ref].filled
  BY DEF Phase4Inv, AppliedWasFilled
<1>2. link.ref \in Tokens /\ link.applied \in Int
  BY <1>1, QuantityAssumption DEF Phase4Inv, Phase4TypeOK, Link
<1>3. /\ broker[link.ref] \in Order /\ broker'[link.ref] \in Order
      /\ broker[link.ref].filled <= broker'[link.ref].filled
      /\ broker'[link.ref] # Null
  BY <1>1, <1>2 DEF Phase4Inv, Phase4TypeOK, WorldGrows
<1>4. broker[link.ref].filled \in Int /\ broker'[link.ref].filled \in Int
  BY <1>3, QuantityAssumption DEF Order
<1>5. link.applied <= broker'[link.ref].filled
  BY <1>1, <1>2, <1>3, <1>4
<1> QED BY <1>1, <1>3, <1>5 DEF AppliedWasFilled

\* A step of one call that leaves the row alone and is not on its way to
\* record an order.
LEMMA QuietCall ==
  ASSUME Phase4Inv, Phase4TypeOK', WorldGrows, link' = link,
         NEW c \in Calls, NEW r \in Call,
         call'[c] = r, \A d \in Calls \ {c} : call'[d] = call[d],
         r.pc \notin {"persist", "mark"},
         r.pc = "save" => r.tok \in Tokens /\ conf'[r.tok].state # "absent",
         r.pc = "submit" => /\ r.tok \in Tokens /\ Candidates = {r.tok}
                            /\ conf' = conf,
         SnapOk(r)
  PROVE  Phase4Inv'
<1>1. \A t \in Tokens : Recorded(t)' => Recorded(t)
  BY DEF Recorded
<1>2. RecordedIsReal'
  BY <1>1 DEF Phase4Inv, RecordedIsReal, WorldGrows
<1>3. OneRecorded'
  BY <1>1 DEF Phase4Inv, OneRecorded
<1>4. StateHasRef'
  BY DEF Phase4Inv, StateHasRef
<1>5. OwnedFollowsApplied'
  BY DEF Phase4Inv, OwnedFollowsApplied
<1>6. AppliedWasFilled'
  BY AppliedKeeps
<1>7. SnapIsOlder'
  <2> SUFFICES ASSUME NEW d \in Calls PROVE SnapOk(call[d])'
    BY DEF SnapIsOlder
  <2>1. SnapOk(r)'
    BY SnapKeeps
  <2>2. call[d] \in Call /\ SnapOk(call[d])
    BY DEF Phase4Inv, Phase4TypeOK, SnapIsOlder
  <2>3. \A q \in Call : SnapOk(q) => SnapOk(q)'
    BY SnapKeeps
  <2>4. CASE d = c
    BY <2>1, <2>4 DEF SnapOk
  <2>5. CASE d # c
    <3> HIDE DEF SnapOk
    <3>1. PICK q \in Call : q = call[d]
      BY <2>2
    <3>2. SnapOk(q)'
      BY <2>2, <2>3, <3>1 DEF SnapOk
    <3> QED BY <2>5, <3>1, <3>2 DEF SnapOk
  <2> QED BY <2>4, <2>5
<1>8. HasToken'
  <2> SUFFICES ASSUME NEW d \in Calls
               PROVE  /\ call'[d].pc = "save" =>
                           call'[d].tok \in Tokens /\ conf'[call'[d].tok].state # "absent"
                      /\ call'[d].pc = "submit" =>
                           call'[d].tok \in Tokens /\ conf'[call'[d].tok].state # "absent"
                      /\ call'[d].pc \in {"persist", "mark"} => call'[d].tok \in Tokens
    BY DEF HasToken
  <2>1. CASE d = c
    BY <2>1 DEF Candidates
  <2>2. CASE d # c
    BY <2>2 DEF Phase4Inv, HasToken, WorldGrows
  <2> QED BY <2>1, <2>2
<1>9. \A d \in Calls \ {c} : Submitting(d)' => Submitting(d)
  BY DEF Submitting, Phase4Inv, HasToken, WorldGrows
<1>10. Submitting(c)' =>
         \A t \in Tokens : conf[t].state = "absent" \/ conf[t].expired \/ t = r.tok
  BY DEF Submitting, Candidates
<1>11. Submitting(c)' =>
         \A t \in Tokens : conf[t].state = "SUBMITTED" => t = r.tok
  BY DEF Submitting, Candidates
<1>12. OneSubmitting'
  <2> SUFFICES ASSUME NEW d \in Calls, NEW e \in Calls,
                      Submitting(d)', Submitting(e)'
               PROVE  call'[d].tok = call'[e].tok
    BY DEF OneSubmitting
  <2>1. CASE d # c /\ e # c
    BY <2>1, <1>9 DEF Phase4Inv, OneSubmitting
  <2>2. \A f \in Calls \ {c} : Submitting(c)' /\ Submitting(f)' => call'[f].tok = r.tok
    BY <1>9, <1>10 DEF Submitting, Phase4Inv, HasToken
  <2> QED BY <2>1, <2>2
<1>13. SubmittingIsRecorded'
  <2> SUFFICES ASSUME NEW d \in Calls, NEW t \in Tokens, Submitting(d)', Recorded(t)'
               PROVE  call'[d].tok = t
    BY DEF SubmittingIsRecorded
  <2>1. Recorded(t) /\ conf[t].state = "SUBMITTED"
    BY <1>1 DEF Phase4Inv, RecordedIsReal
  <2>2. CASE d = c
    BY <2>1, <2>2, <1>11
  <2>3. CASE d # c
    BY <2>1, <2>3, <1>9 DEF Phase4Inv, SubmittingIsRecorded
  <2> QED BY <2>2, <2>3
<1> QED BY <1>2, <1>3, <1>4, <1>5, <1>6, <1>7, <1>8, <1>12, <1>13 DEF Phase4Inv

\* A step of the world alone.
LEMMA WorldStep ==
  ASSUME Phase4Inv, Phase4TypeOK', WorldGrows, link' = link, call' = call
  PROVE  Phase4Inv'
<1>1. \A t \in Tokens : Recorded(t)' = Recorded(t)
  BY DEF Recorded
<1>2. RecordedIsReal' /\ OneRecorded'
  BY <1>1 DEF Phase4Inv, RecordedIsReal, OneRecorded, WorldGrows
<1>3. StateHasRef' /\ OwnedFollowsApplied'
  BY DEF Phase4Inv, StateHasRef, OwnedFollowsApplied
<1>4. AppliedWasFilled'
  BY AppliedKeeps
<1>5. SnapIsOlder'
  <2> SUFFICES ASSUME NEW d \in Calls PROVE SnapOk(call[d])'
    BY DEF SnapIsOlder
  <2>1. \A q \in Call : SnapOk(q) => SnapOk(q)'
    BY SnapKeeps
  <2>2. PICK q \in Call : q = call[d] /\ SnapOk(q)
    BY DEF Phase4Inv, Phase4TypeOK, SnapIsOlder
  <2>3. SnapOk(q)'
    BY <2>1, <2>2
  <2> QED BY <2>2, <2>3 DEF SnapOk
<1>6. HasToken'
  BY DEF Phase4Inv, HasToken, WorldGrows
<1>7. \A d \in Calls : Submitting(d)' => Submitting(d)
  BY DEF Submitting, Phase4Inv, HasToken, WorldGrows
<1>8. OneSubmitting' /\ SubmittingIsRecorded'
  BY <1>1, <1>7 DEF Phase4Inv, OneSubmitting, SubmittingIsRecorded
<1> QED BY <1>2, <1>3, <1>4, <1>5, <1>6, <1>8 DEF Phase4Inv

-----------------------------------------------------------------------------
(* Steps that write the row.                                               *)

\* A call that writes columns other than the order reference, and returns.
LEMMA RowWritten ==
  ASSUME Phase4Inv, Phase4TypeOK', UNCHANGED <<conf, broker>>, NEW c \in Calls,
         call' = [call EXCEPT ![c] = Idle], link'.ref = link.ref,
         link'.state \notin {"absent", "PREVIEWED"} => link.ref # Null,
         OwnedFollowsApplied', AppliedWasFilled'
  PROVE  Phase4Inv'
<1>1. /\ call'[c] = Idle /\ \A d \in Calls \ {c} : call'[d] = call[d]
      /\ Idle.pc = "idle" /\ Idle.snap = NoLink
  BY DEF Phase4Inv, Phase4TypeOK, Idle
<1>2. \A t \in Tokens : Recorded(t)' => Recorded(t)
  BY <1>1 DEF Recorded
<1>3. RecordedIsReal' /\ OneRecorded'
  BY <1>2 DEF Phase4Inv, RecordedIsReal, OneRecorded
<1>4. StateHasRef'
  BY <1>1 DEF Phase4Inv, StateHasRef
<1>5. SnapIsOlder'
  <2> SUFFICES ASSUME NEW d \in Calls PROVE SnapOk(call[d])'
    BY DEF SnapIsOlder
  <2>1. CASE d = c
    BY <1>1, <2>1, OwnsNothing DEF SnapOk, NoLink
  <2>2. CASE d # c
    BY <1>1, <2>2 DEF Phase4Inv, SnapIsOlder, SnapOk
  <2> QED BY <2>1, <2>2
<1>6. HasToken'
  BY <1>1 DEF Phase4Inv, HasToken
<1>7. \A d \in Calls : Submitting(d)' => Submitting(d) /\ d # c
  BY <1>1 DEF Submitting
<1>8. OneSubmitting' /\ SubmittingIsRecorded'
  BY <1>1, <1>2, <1>7 DEF Phase4Inv, OneSubmitting, SubmittingIsRecorded
<1> QED BY <1>3, <1>4, <1>5, <1>6, <1>8 DEF Phase4Inv

\* The calls after one of them moves to a record r.
LEMMA CallMoves ==
  ASSUME Phase4TypeOK, NEW c \in Calls, NEW r \in Call,
         call' = [call EXCEPT ![c] = r]
  PROVE  /\ call' \in [Calls -> Call] /\ call'[c] = r
         /\ \A d \in Calls \ {c} : call'[d] = call[d]
BY DEF Phase4TypeOK

-----------------------------------------------------------------------------
(* The steps of a call.                                                    *)

\* Returning is quiet whatever the world does meanwhile.
LEMMA ReturnStep ==
  ASSUME Phase4Inv, NEW c \in Calls, Return(c), WorldGrows, link' = link,
         conf' \in [Tokens -> Confirmation],
         broker' \in [Tokens -> Order \cup {Null}]
  PROVE  Phase4Inv'
<1>1. call' = [call EXCEPT ![c] = Idle] /\ Idle \in Call /\ SnapOk(Idle)
  BY IdleIsCall DEF Return
<1>2. /\ call' \in [Calls -> Call] /\ call'[c] = Idle
      /\ \A d \in Calls \ {c} : call'[d] = call[d]
  BY <1>1, CallMoves DEF Phase4Inv
<1>3. Phase4TypeOK'
  BY <1>2 DEF Phase4Inv, Phase4TypeOK
<1>4. Idle.pc = "idle"
  BY DEF Idle
<1> QED BY <1>1, <1>2, <1>3, <1>4, QuietCall, Zenon

\* A world that does not change has not gone back.
LEMMA WorldStays ==
  ASSUME Phase4Inv, UNCHANGED <<conf, broker>>
  PROVE  WorldGrows
<1> SUFFICES ASSUME NEW t \in Tokens, broker[t] # Null
             PROVE  broker[t].filled <= broker[t].filled
  BY DEF WorldGrows
<1>1. broker[t].filled \in Int
  BY QuantityAssumption DEF Phase4Inv, Phase4TypeOK, Order
<1> QED BY <1>1

\* A call moves on to r, and nothing else changes.
LEMMA MoveStep ==
  ASSUME Phase4Inv, NEW c \in Calls, NEW r \in Call,
         call' = [call EXCEPT ![c] = r], UNCHANGED <<conf, broker, link>>,
         r.pc \notin {"save", "persist", "mark"},
         r.pc = "submit" => r.tok \in Tokens /\ Candidates = {r.tok},
         SnapOk(r)
  PROVE  Phase4Inv'
<1>1. /\ call' \in [Calls -> Call] /\ call'[c] = r
      /\ \A d \in Calls \ {c} : call'[d] = call[d]
  BY CallMoves DEF Phase4Inv
<1>2. Phase4TypeOK'
  BY <1>1 DEF Phase4Inv, Phase4TypeOK
<1>3. WorldGrows
  BY WorldStays
<1> QED BY <1>1, <1>2, <1>3, QuietCall, Zenon

\* Beginning: what is remembered is the row as it is.
LEMMA SnapOfNow ==
  ASSUME Phase4Inv, NEW r \in Call, r.snap = link, r.pc \notin {"list", "settle"}
  PROVE  SnapOk(r)
BY DEF Phase4Inv, SnapOk, OwnedFollowsApplied, AppliedWasFilled

LEMMA BeginSteps ==
  ASSUME Phase4Inv, NEW c \in Calls,
         PreviewProposal(c) \/ AffirmApproval(c) \/ ReconcileProposal(c)
  PROVE  Phase4Inv'
<1>0. call[c] \in Call /\ link \in Link /\ SnapOk(call[c])
  BY DEF Phase4Inv, Phase4TypeOK, SnapIsOlder
<1>1. CASE PreviewProposal(c)
  <2> DEFINE r == [call[c] EXCEPT !.pc = "mint"]
  <2>1. r \in Call /\ call' = [call EXCEPT ![c] = r]
    BY <1>0, <1>1, CallColumns DEF PreviewProposal, CallGoto, CallPoints, Phase4Inv, Phase4TypeOK
  <2>2. r.pc = "mint" /\ r.snap = call[c].snap /\ SnapOk(r)
    BY <1>0 DEF SnapOk, Call
  <2> HIDE DEF r
  <2> QED BY <1>1, <2>1, <2>2, MoveStep DEF PreviewProposal
<1>2. CASE AffirmApproval(c)
  <2> DEFINE r == [call[c] EXCEPT !.pc = "recover", !.snap = link]
  <2>1. r \in Call /\ call' = [call EXCEPT ![c] = r]
    BY <1>0, <1>2, CallColumns DEF AffirmApproval, CallPoints, Phase4Inv, Phase4TypeOK
  <2>2. r.pc = "recover" /\ r.snap = link
    BY <1>0 DEF Call
  <2> HIDE DEF r
  <2> QED BY <1>2, <2>1, <2>2, MoveStep, SnapOfNow DEF AffirmApproval
<1>3. CASE ReconcileProposal(c)
  <2> DEFINE r == [call[c] EXCEPT !.pc = "locate", !.snap = link]
  <2>1. r \in Call /\ call' = [call EXCEPT ![c] = r]
    BY <1>0, <1>3, CallColumns DEF ReconcileProposal, CallPoints, Phase4Inv, Phase4TypeOK
  <2>2. r.pc = "locate" /\ r.snap = link
    BY <1>0 DEF Call
  <2> HIDE DEF r
  <2> QED BY <1>3, <2>1, <2>2, MoveStep, SnapOfNow DEF ReconcileProposal
<1> QED BY <1>1, <1>2, <1>3

\* Finding the authority, and listing the broker's orders.
LEMMA RecoverSteps ==
  ASSUME Phase4Inv, NEW c \in Calls,
         RecoverToSubmit(c) \/ RecoverToList(c) \/ ListOrders(c)
  PROVE  Phase4Inv'
<1>0. /\ call[c] \in Call /\ SnapOk(call[c])
      /\ conf \in [Tokens -> Confirmation]
      /\ broker \in [Tokens -> Order \cup {Null}]
  BY DEF Phase4Inv, Phase4TypeOK, SnapIsOlder
<1>1. ASSUME UNCHANGED <<conf, broker, link>>, Return(c) PROVE Phase4Inv'
  BY <1>0, <1>1, WorldStays, ReturnStep
<1>2. CASE RecoverToSubmit(c)
  <2>1. CASE Return(c)
    BY <1>1, <1>2, <2>1 DEF RecoverToSubmit
  <2>2. CASE ~Return(c)
    <3>1. Candidates = {call[c].snap.approval}
      BY <1>2, <2>2 DEF RecoverToSubmit, Recovers
    <3>2. PICK t \in Tokens : t = call[c].snap.approval /\ Candidates = {t}
      BY <3>1 DEF Candidates
    <3> DEFINE r == [call[c] EXCEPT !.pc = "submit", !.tok = t]
    <3>3. r \in Call
      BY <1>0, CallColumns DEF CallPoints
    <3>4. call' = [call EXCEPT ![c] = r] /\ UNCHANGED <<conf, broker, link>>
      BY <1>2, <2>2, <3>2 DEF RecoverToSubmit, Phase4Inv, Phase4TypeOK
    <3>5. r.pc = "submit" /\ r.tok = t /\ r.snap = call[c].snap
      BY <1>0 DEF Call
    <3>6. SnapOk(r)
      BY <1>0, <3>5 DEF SnapOk
    <3> HIDE DEF r
    <3> QED BY <3>2, <3>3, <3>4, <3>5, <3>6, MoveStep
  <2> QED BY <2>1, <2>2
<1>3. CASE RecoverToList(c)
  <2>1. CASE Return(c)
    BY <1>1, <1>3, <2>1 DEF RecoverToList
  <2>2. CASE ~Return(c)
    <3> DEFINE r == [call[c] EXCEPT !.pc = "list"]
    <3>1. r \in Call
      BY <1>0, CallColumns DEF CallPoints
    <3>2. /\ call' = [call EXCEPT ![c] = r] /\ UNCHANGED <<conf, broker, link>>
          /\ call[c].snap.ref # Null
      BY <1>3, <2>2 DEF RecoverToList, CallGoto, Phase4Inv, Phase4TypeOK
    <3>3. r.pc = "list" /\ r.snap = call[c].snap
      BY <1>0 DEF Call
    <3>4. SnapOk(r)
      BY <1>0, <3>2, <3>3 DEF SnapOk
    <3> HIDE DEF r
    <3> QED BY <3>1, <3>2, <3>3, <3>4, MoveStep
  <2> QED BY <2>1, <2>2
<1>4. CASE ListOrders(c)
  <2>1. call[c].pc = "list" /\ call[c].snap.ref # Null
    BY <1>0, <1>4 DEF ListOrders, CallAt, SnapOk
  <2>2. call[c].snap.ref \in Tokens
    BY <1>0, <2>1 DEF Call, Link
  <2>3. PICK o \in Order \cup {Null} :
          /\ o \in {broker[call[c].snap.ref], Null}
          /\ call' = [call EXCEPT ![c].pc = "settle", ![c].seen = o]
    BY <1>0, <1>4, <2>2 DEF ListOrders
  <2> DEFINE r == [call[c] EXCEPT !.pc = "settle", !.seen = o]
  <2>4. r \in Call
    BY <1>0, CallColumns DEF CallPoints
  <2>5. call' = [call EXCEPT ![c] = r] /\ UNCHANGED <<conf, broker, link>>
    BY <1>4, <2>3 DEF ListOrders, Phase4Inv, Phase4TypeOK
  <2>6. r.pc = "settle" /\ r.snap = call[c].snap /\ r.seen = o
    BY <1>0 DEF Call
  <2>7. o # Null => o = broker[call[c].snap.ref] /\ o.filled \in Int
    BY <2>3, QuantityAssumption DEF Order
  <2>8. SnapOk(r)
    BY <1>0, <2>1, <2>6, <2>7 DEF SnapOk
  <2> HIDE DEF r
  <2> QED BY <2>4, <2>5, <2>6, <2>8, MoveStep
<1> QED BY <1>2, <1>3, <1>4

\* POST /orders/preview: the new confirmation is the call's own.
LEMMA PreviewOrderStep ==
  ASSUME Phase4Inv, NEW c \in Calls, NEW t \in Tokens, PreviewOrder(c, t)
  PROVE  Phase4Inv'
<1>1. call[c] \in Call /\ SnapOk(call[c]) /\ conf[t] \in Confirmation
  BY DEF Phase4Inv, Phase4TypeOK, SnapIsOlder
<1> DEFINE r == [call[c] EXCEPT !.pc = "save", !.tok = t]
<1>2. r \in Call
  BY <1>1, CallColumns DEF CallPoints
<1>3. call' = [call EXCEPT ![c] = r] /\ UNCHANGED <<broker, link>>
  BY DEF PreviewOrder, Phase4Inv, Phase4TypeOK
<1>4. r.pc = "save" /\ r.tok = t /\ r.snap = call[c].snap
  BY <1>1 DEF Call
<1>5. SnapOk(r)
  BY <1>1, <1>4 DEF SnapOk
<1> HIDE DEF r
<1>6. /\ call' \in [Calls -> Call] /\ call'[c] = r
      /\ \A d \in Calls \ {c} : call'[d] = call[d]
  BY <1>2, <1>3, CallMoves DEF Phase4Inv
<1>7. conf' \in [Tokens -> Confirmation] /\ conf'[t].state = "READY"
  BY <1>1 DEF PreviewOrder, Phase4Inv, Phase4TypeOK, Confirmation
<1>8. Phase4TypeOK'
  BY <1>3, <1>6, <1>7 DEF Phase4Inv, Phase4TypeOK
<1>9. WorldGrows
  <2>1. \A u \in Tokens : broker[u] # Null => broker[u].filled \in Int
    BY QuantityAssumption DEF Phase4Inv, Phase4TypeOK, Order
  <2>2. \A u \in Tokens \ {t} : conf'[u] = conf[u]
    BY DEF PreviewOrder, Phase4Inv, Phase4TypeOK
  <2>3. conf'[t].expired = conf[t].expired /\ conf[t].state = "absent"
    BY <1>1 DEF PreviewOrder, Phase4Inv, Phase4TypeOK, Confirmation
  <2> QED BY <1>3, <1>7, <2>1, <2>2, <2>3 DEF WorldGrows
<1> QED BY <1>2, <1>3, <1>4, <1>5, <1>6, <1>7, <1>8, <1>9, QuietCall

\* What a submission does to the world: the token leaves READY and its order
\* stays or appears.
LEMMA SubmittedWorld ==
  ASSUME Phase4Inv, NEW t \in Tokens, Submittable(t), NEW s \in {"UNCERTAIN", "SUBMITTED"},
         conf' = [conf EXCEPT ![t].state = s],
         \/ broker' = [broker EXCEPT ![t] = Accepted(t)]
         \/ UNCHANGED broker
  PROVE  /\ WorldGrows
         /\ conf' \in [Tokens -> Confirmation]
         /\ broker' \in [Tokens -> Order \cup {Null}]
         /\ Accepted(t) \in Order
         /\ conf'[t].state = s
         /\ \A u \in Tokens : conf'[u].expired = conf[u].expired
         /\ \A u \in Tokens \ {t} : conf'[u] = conf[u]
<1>1. /\ conf \in [Tokens -> Confirmation] /\ conf[t].state = "READY"
      /\ broker \in [Tokens -> Order \cup {Null}]
  BY DEF Phase4Inv, Phase4TypeOK, Submittable
<1>2. /\ conf'[t].state = s /\ \A u \in Tokens : conf'[u].expired = conf[u].expired
      /\ \A u \in Tokens \ {t} : conf'[u] = conf[u]
      /\ conf' \in [Tokens -> Confirmation]
  BY <1>1 DEF Confirmation
<1>3. 0 \in 0..Quantity
  BY QuantityAssumption
<1>4. [live |-> TRUE, filled |-> 0] \in Order
  BY <1>3 DEF Order
<1>5. Accepted(t) \in Order /\ (broker[t] # Null => Accepted(t) = broker[t])
  BY <1>1, <1>4 DEF Accepted
<1>6. \A u \in Tokens : broker[u] # Null => broker[u].filled \in Int
  BY <1>1, QuantityAssumption DEF Order
<1>7. \A u \in Tokens : broker[u] # Null => broker'[u] = broker[u]
  BY <1>1, <1>5
<1>8. \A u \in Tokens : broker[u] # Null => broker[u].filled <= broker'[u].filled
  BY <1>6, <1>7
<1>9. WorldGrows
  BY <1>1, <1>2, <1>7, <1>8 DEF WorldGrows
<1> QED BY <1>1, <1>2, <1>5, <1>9

\* The answers that end the call.
LEMMA SubmitEnds ==
  ASSUME Phase4Inv, NEW c \in Calls,
         SubmitDryRun(c) \/ SubmitUncertain(c) \/ SubmitRefused(c) \/ CallFails(c)
  PROVE  Phase4Inv'
<1>1. conf \in [Tokens -> Confirmation] /\ broker \in [Tokens -> Order \cup {Null}]
  BY DEF Phase4Inv, Phase4TypeOK
<1>2. CASE SubmitRefused(c) \/ CallFails(c)
  BY <1>1, <1>2, WorldStays, ReturnStep DEF SubmitRefused, CallFails
<1>3. CASE SubmitDryRun(c)
  <2>1. PICK t \in Tokens : t = call[c].tok
    BY <1>3 DEF SubmitDryRun, CallAt, Phase4Inv, HasToken
  <2>2. /\ Submittable(t) /\ conf' = [conf EXCEPT ![t].state = "SUBMITTED"]
        /\ UNCHANGED <<broker, link>> /\ Return(c)
    BY <1>3, <2>1 DEF SubmitDryRun
  <2>3. /\ WorldGrows /\ conf' \in [Tokens -> Confirmation]
        /\ broker' \in [Tokens -> Order \cup {Null}]
    BY <2>2, SubmittedWorld
  <2> QED BY <2>2, <2>3, ReturnStep
<1>4. CASE SubmitUncertain(c)
  <2>1. PICK t \in Tokens : t = call[c].tok
    BY <1>4 DEF SubmitUncertain, CallAt, Phase4Inv, HasToken
  <2>2. /\ Submittable(t) /\ conf' = [conf EXCEPT ![t].state = "UNCERTAIN"]
        /\ \/ broker' = [broker EXCEPT ![t] = Accepted(t)]
           \/ UNCHANGED broker
        /\ UNCHANGED link /\ Return(c)
    BY <1>4, <2>1 DEF SubmitUncertain
  <2>3. /\ WorldGrows /\ conf' \in [Tokens -> Confirmation]
        /\ broker' \in [Tokens -> Order \cup {Null}]
    BY <2>2, SubmittedWorld
  <2> QED BY <2>2, <2>3, ReturnStep
<1> QED BY <1>2, <1>3, <1>4

\* An accepted submission: no other token is recorded, none can be submitted.
LEMMA SubmitSucceedsStep ==
  ASSUME Phase4Inv, NEW c \in Calls, SubmitSucceeds(c)
  PROVE  Phase4Inv'
<1>1. PICK t \in Tokens : t = call[c].tok
  BY DEF SubmitSucceeds, CallAt, Phase4Inv, HasToken
<1>2. /\ Submittable(t) /\ conf' = [conf EXCEPT ![t].state = "SUBMITTED"]
      /\ broker' = [broker EXCEPT ![t] = Accepted(t)]
      /\ call[c].pc = "submit" /\ link' = link /\ CallGoto(c, "persist")
  BY <1>1 DEF SubmitSucceeds, CallAt
<1>3. /\ WorldGrows /\ conf' \in [Tokens -> Confirmation]
      /\ broker' \in [Tokens -> Order \cup {Null}] /\ Accepted(t) \in Order
      /\ conf'[t].state = "SUBMITTED"
      /\ \A u \in Tokens : conf'[u].expired = conf[u].expired
      /\ \A u \in Tokens \ {t} : conf'[u] = conf[u]
  BY <1>2, SubmittedWorld
<1>4. call[c] \in Call /\ SnapOk(call[c])
  BY DEF Phase4Inv, Phase4TypeOK, SnapIsOlder
<1> DEFINE r == [call[c] EXCEPT !.pc = "persist"]
<1>5. r \in Call
  BY <1>4, CallColumns DEF CallPoints
<1>6. call' = [call EXCEPT ![c] = r]
  BY <1>2 DEF CallGoto, Phase4Inv, Phase4TypeOK
<1>7. r.pc = "persist" /\ r.tok = t /\ r.snap = call[c].snap
  BY <1>1, <1>4 DEF Call
<1>8. SnapOk(r)
  BY <1>4, <1>7 DEF SnapOk
<1> HIDE DEF r
<1>9. /\ call' \in [Calls -> Call] /\ call'[c] = r
      /\ \A d \in Calls \ {c} : call'[d] = call[d]
  BY <1>5, <1>6, CallMoves DEF Phase4Inv
<1>10. Phase4TypeOK'
  BY <1>2, <1>3, <1>9 DEF Phase4Inv, Phase4TypeOK
<1>11. Submitting(c) /\ \A u \in Tokens : Recorded(u) => u = t
  BY <1>1, <1>2 DEF Submitting, Submittable, Phase4Inv, SubmittingIsRecorded
<1>12. \A u \in Tokens : Recorded(u)' => u = t
  BY <1>2, <1>7, <1>9, <1>11 DEF Recorded
<1>13. \A d \in Calls : Submitting(d)' => Submitting(d) /\ d # c /\ call'[d] = call[d]
  BY <1>3, <1>7, <1>9 DEF Submitting, Phase4Inv, HasToken
<1>14. OneRecorded' /\ OneSubmitting' /\ SubmittingIsRecorded'
  <2>1. OneRecorded'
    BY <1>12 DEF OneRecorded
  <2>2. OneSubmitting'
    BY <1>13 DEF Phase4Inv, OneSubmitting
  <2>3. \A d \in Calls : Submitting(d)' => call'[d].tok = t
    BY <1>1, <1>11, <1>13 DEF Phase4Inv, OneSubmitting
  <2> QED BY <1>12, <2>1, <2>2, <2>3 DEF SubmittingIsRecorded
<1>15. RecordedIsReal'
  <2>1. broker'[t] = Accepted(t)
    BY <1>2 DEF Phase4Inv, Phase4TypeOK
  <2>2. broker'[t] # Null
    BY <1>3, <2>1, NullAssumption
  <2> QED BY <1>3, <1>12, <2>2 DEF RecordedIsReal
<1>16. StateHasRef' /\ OwnedFollowsApplied'
  BY <1>2, <1>7, <1>9 DEF Phase4Inv, StateHasRef, OwnedFollowsApplied
<1>17. AppliedWasFilled'
  BY <1>2, <1>3, <1>10, AppliedKeeps
<1>18. HasToken'
  BY <1>3, <1>7, <1>9 DEF Phase4Inv, HasToken, WorldGrows
<1>19. SnapIsOlder'
  <2>1. \A q \in Call : SnapOk(q) => SnapOk(q)'
    BY <1>2, <1>3, <1>10, SnapKeeps
  <2> SUFFICES ASSUME NEW d \in Calls PROVE SnapOk(call[d])'
    BY DEF SnapIsOlder
  <2>2. PICK q \in Call : q = call'[d] /\ SnapOk(q)
    BY <1>5, <1>8, <1>9 DEF Phase4Inv, Phase4TypeOK, SnapIsOlder
  <2>3. SnapOk(q)'
    BY <2>1, <2>2
  <2> QED BY <2>2, <2>3 DEF SnapOk
<1> QED BY <1>10, <1>14, <1>15, <1>16, <1>17, <1>18, <1>19 DEF Phase4Inv

\* The order id is written: it is the one that was there, or the first.
LEMMA PersistStep ==
  ASSUME Phase4Inv, NEW c \in Calls, PersistOrderRef(c)
  PROVE  Phase4Inv'
<1>1. PICK t \in Tokens : t = call[c].tok
  BY DEF PersistOrderRef, CallAt, Phase4Inv, HasToken
<1>2. /\ call[c].pc = "persist" /\ link' = [link EXCEPT !.ref = t]
      /\ UNCHANGED <<conf, broker>> /\ CallGoto(c, "mark")
  BY <1>1 DEF PersistOrderRef, CallAt
<1>3. link \in Link /\ call[c] \in Call /\ SnapOk(call[c])
  BY DEF Phase4Inv, Phase4TypeOK, SnapIsOlder
<1>4. /\ link' \in Link /\ link'.ref = t /\ link'.state = link.state
      /\ link'.applied = link.applied /\ link'.owned = link.owned
  BY <1>2, <1>3, LinkColumns DEF Link
<1> DEFINE r == [call[c] EXCEPT !.pc = "mark"]
<1>5. r \in Call
  BY <1>3, CallColumns DEF CallPoints
<1>6. call' = [call EXCEPT ![c] = r]
  BY <1>2 DEF CallGoto, Phase4Inv, Phase4TypeOK
<1>7. r.pc = "mark" /\ r.tok = t /\ r.snap = call[c].snap
  BY <1>1, <1>3 DEF Call
<1> HIDE DEF r
<1>8. /\ call' \in [Calls -> Call] /\ call'[c] = r
      /\ \A d \in Calls \ {c} : call'[d] = call[d]
  BY <1>5, <1>6, CallMoves DEF Phase4Inv
<1>9. Phase4TypeOK'
  BY <1>2, <1>4, <1>8 DEF Phase4Inv, Phase4TypeOK
<1>10. Recorded(t) /\ (link.ref # Null => link.ref = t)
  <2>1. Recorded(t)
    BY <1>1, <1>2 DEF Recorded
  <2>2. link.ref # Null => link.ref \in Tokens /\ Recorded(link.ref)
    BY <1>3 DEF Link, Recorded
  <2> QED BY <2>1, <2>2 DEF Phase4Inv, OneRecorded
<1>11. \A u \in Tokens : Recorded(u)' => Recorded(u)
  BY <1>4, <1>7, <1>8, <1>10 DEF Recorded
<1>12. RecordedIsReal' /\ OneRecorded'
  BY <1>2, <1>11 DEF Phase4Inv, RecordedIsReal, OneRecorded
<1>13. \A d \in Calls : Submitting(d)' => Submitting(d) /\ call'[d] = call[d]
  BY <1>2, <1>7, <1>8 DEF Submitting
<1>14. OneSubmitting' /\ SubmittingIsRecorded'
  BY <1>11, <1>13 DEF Phase4Inv, OneSubmitting, SubmittingIsRecorded
<1>15. HasToken'
  BY <1>2, <1>7, <1>8 DEF Phase4Inv, HasToken
<1>16. StateHasRef' /\ OwnedFollowsApplied'
  BY <1>4, NullAssumption DEF Phase4Inv, StateHasRef, OwnedFollowsApplied
<1>17. AppliedWasFilled'
  BY <1>2, <1>4, <1>10, NullAssumption DEF Phase4Inv, AppliedWasFilled
<1>18. SnapIsOlder'
  <2> SUFFICES ASSUME NEW d \in Calls PROVE SnapOk(call[d])'
    BY DEF SnapIsOlder
  <2>1. SnapOk(call[d]) /\ call'[d].snap = call[d].snap
    BY <1>7, <1>8 DEF Phase4Inv, SnapIsOlder
  <2>2. call[d].snap.ref # Null => call[d].snap.ref = t
    BY <1>10, <2>1 DEF SnapOk
  <2>3. CASE d = c
    BY <1>2, <1>4, <1>7, <1>8, <2>1, <2>2, <2>3 DEF SnapOk
  <2>4. CASE d # c
    BY <1>2, <1>4, <1>8, <2>1, <2>2, <2>4 DEF SnapOk
  <2> QED BY <2>3, <2>4
<1> QED BY <1>9, <1>12, <1>14, <1>15, <1>16, <1>17, <1>18 DEF Phase4Inv

\* The two updates of the state column, and the settlement.
LEMMA RowSteps ==
  ASSUME Phase4Inv, NEW c \in Calls, SaveLink(c) \/ MarkSubmitted(c) \/ Settle(c)
  PROVE  Phase4Inv'
<1>1. /\ call[c] \in Call /\ link \in Link /\ SnapOk(call[c])
      /\ OwnedFollowsApplied /\ AppliedWasFilled
  BY DEF Phase4Inv, Phase4TypeOK, SnapIsOlder
<1>2. ASSUME Return(c), UNCHANGED <<conf, broker>>, link' \in Link
      PROVE  Phase4TypeOK' /\ call' = [call EXCEPT ![c] = Idle]
  <2>1. call' = [call EXCEPT ![c] = Idle] /\ Idle \in Call
    BY <1>2, IdleIsCall DEF Return
  <2>2. call' \in [Calls -> Call]
    BY <2>1, CallMoves DEF Phase4Inv
  <2> QED BY <1>2, <2>1, <2>2 DEF Phase4Inv, Phase4TypeOK
<1>3. CASE SaveLink(c)
  <2>1. PICK t \in Tokens : t = call[c].tok
    BY <1>3 DEF SaveLink, CallAt, Phase4Inv, HasToken
  <2>2. link' = [link EXCEPT !.state = "PREVIEWED", !.approval = t]
    BY <1>3, <2>1 DEF SaveLink
  <2>3. "PREVIEWED" \in LinkStates
    BY DEF LinkStates
  <2>4. link' \in Link
    BY <1>1, <2>2, <2>3, LinkColumns, Zenon
  <2>5. /\ link'.ref = link.ref /\ link'.state = "PREVIEWED"
        /\ link'.applied = link.applied /\ link'.owned = link.owned
    BY <1>1, <2>2 DEF Link
  <2>6. OwnedFollowsApplied' /\ AppliedWasFilled'
    BY <1>1, <1>3, <2>5 DEF SaveLink, OwnedFollowsApplied, AppliedWasFilled
  <2> QED BY <1>2, <1>3, <2>4, <2>5, <2>6, RowWritten DEF SaveLink
<1>4. CASE MarkSubmitted(c)
  <2>1. link' = [link EXCEPT !.state = "SUBMITTED"] /\ link.ref # Null
    BY <1>4 DEF MarkSubmitted, CallAt, Phase4Inv, StateHasRef
  <2>2. link' \in Link
    BY <1>1, <2>1, LinkColumns DEF LinkStates
  <2>3. /\ link'.ref = link.ref
        /\ link'.applied = link.applied /\ link'.owned = link.owned
    BY <1>1, <2>1 DEF Link
  <2>4. OwnedFollowsApplied' /\ AppliedWasFilled'
    BY <1>1, <1>4, <2>3 DEF MarkSubmitted, OwnedFollowsApplied, AppliedWasFilled
  <2> QED BY <1>2, <1>4, <2>1, <2>2, <2>3, <2>4, RowWritten DEF MarkSubmitted
<1>5. CASE Settle(c)
  <2> DEFINE snap == call[c].snap
             o == call[c].seen
             applied == AppliedAfter(snap, o)
             owned == Owns(snap.owned, applied - snap.applied)
  <2>1. link' = [link EXCEPT !.state = Settlement(o), !.applied = applied,
                             !.owned = owned]
    BY <1>5 DEF Settle
  <2>2. snap \in Link /\ o \in Order \cup {Null} /\ call[c].pc = "settle"
    BY <1>1, <1>5 DEF Call, Settle, CallAt
  <2>3. /\ applied \in 0..Quantity /\ snap.applied <= applied
        /\ o = Null => applied = snap.applied
        /\ o # Null => applied = snap.applied \/ applied = o.filled
    BY <2>2, AppliedAfterBounds
  <2>4. snap.applied \in Nat /\ applied \in Nat
    BY <2>2, <2>3, QuantityAssumption DEF Link
  <2>5. snap.owned = Owns(Held, snap.applied)
    BY <1>1 DEF SnapOk
  <2>6. owned = Owns(Held, applied) /\ Owns(Held, applied) \in Nat
    <3>1. Owns(Owns(Held, snap.applied), applied - snap.applied) = Owns(Held, applied)
      BY <2>3, <2>4, OwnsAdds
    <3>2. applied <= applied
      BY <2>4
    <3>3. Owns(Held, applied) \in Nat
      BY <2>4, <3>2, OwnsAdds
    <3> QED BY <2>5, <3>1, <3>3
  <2>7. Settlement(o) \in LinkStates
    BY <2>2, SettlementIsState
  <2> HIDE DEF applied, owned
  <2>8. link' \in Link
    BY <1>1, <2>1, <2>3, <2>6, <2>7, LinkColumns
  <2>9. link'.ref = link.ref /\ link'.applied = applied /\ link'.owned = owned
    BY <1>1, <2>1 DEF Link
  <2>10. OwnedFollowsApplied'
    BY <2>6, <2>9 DEF OwnedFollowsApplied
  <2>11. snap.ref # Null /\ snap.ref = link.ref
    BY <1>1, <2>2 DEF SnapOk
  <2>12. link.ref \in Tokens /\ broker[link.ref] # Null
    BY <1>1, <2>11 DEF Link, Phase4Inv, RecordedIsReal, Recorded
  <2>13. applied > 0 => applied <= broker[link.ref].filled
    <3>1. snap.applied > 0 => snap.applied <= broker[link.ref].filled
      BY <1>1, <2>11 DEF SnapOk
    <3>2. o # Null => o.filled <= broker[link.ref].filled
      BY <1>1, <2>2, <2>11 DEF SnapOk
    <3> QED BY <2>3, <3>1, <3>2
  <2>14. AppliedWasFilled'
    BY <1>5, <2>9, <2>11, <2>12, <2>13 DEF Settle, AppliedWasFilled
  <2> QED BY <1>2, <1>5, <2>8, <2>9, <2>10, <2>11, <2>14, RowWritten DEF Settle
<1> QED BY <1>3, <1>4, <1>5

-----------------------------------------------------------------------------
(* The steps of the service and the broker.                                *)

LEMMA OutsideSteps ==
  ASSUME Phase4Inv, NEW t \in Tokens,
         Expire(t) \/ DecideUncertain(t) \/ Fill(t) \/ Close(t)
  PROVE  Phase4Inv'
<1>1. /\ conf \in [Tokens -> Confirmation] /\ broker \in [Tokens -> Order \cup {Null}]
      /\ \A u \in Tokens : broker[u] # Null =>
           broker[u] \in Order /\ broker[u].filled \in Int
  BY QuantityAssumption DEF Phase4Inv, Phase4TypeOK, Order
<1>2. CASE Expire(t) \/ DecideUncertain(t)
  <2>1. UNCHANGED <<broker, link, call>>
    BY <1>2 DEF Expire, DecideUncertain
  <2>2. /\ conf' \in [Tokens -> Confirmation]
        /\ \A u \in Tokens \ {t} : conf'[u] = conf[u]
        /\ conf[t].expired => conf'[t].expired
        /\ conf[t].state = "SUBMITTED" => conf'[t].state = "SUBMITTED"
        /\ conf'[t].state # "absent"
    <3>1. PICK o \in Confirmation : o = conf[t]
      BY <1>1
    <3>2. CASE Expire(t)
      <4>1. PICK c : c = [o EXCEPT !.expired = TRUE] /\ conf' = [conf EXCEPT ![t] = c]
        BY <3>1, <3>2 DEF Expire
      <4>2. c \in Confirmation /\ c.state = o.state /\ c.expired
        BY <4>1 DEF Confirmation
      <4> QED BY <1>1, <3>1, <3>2, <4>1, <4>2 DEF Expire
    <3>3. CASE DecideUncertain(t)
      <4>1. PICK s \in {"READY", "SUBMITTED"} : conf' = [conf EXCEPT ![t].state = s]
        BY <3>3 DEF DecideUncertain
      <4>2. PICK c : c = [o EXCEPT !.state = s] /\ conf' = [conf EXCEPT ![t] = c]
        BY <3>1, <4>1
      <4>3. c \in Confirmation /\ c.expired = o.expired /\ c.state = s
        BY <4>2 DEF Confirmation
      <4> QED BY <1>1, <3>1, <3>3, <4>2, <4>3 DEF DecideUncertain
    <3> QED BY <1>2, <3>2, <3>3
  <2>3. Phase4TypeOK' /\ WorldGrows
    BY <1>1, <2>1, <2>2 DEF Phase4Inv, Phase4TypeOK, WorldGrows
  <2> QED BY <2>1, <2>3, WorldStep
<1>3. CASE Fill(t) \/ Close(t)
  <2>1. UNCHANGED <<conf, link, call>> /\ broker[t] \in Order
    BY <1>1, <1>3 DEF Fill, Close
  <2>2. PICK o \in Order : /\ broker' = [broker EXCEPT ![t] = o]
                           /\ broker[t].filled <= o.filled
    <3>1. CASE Fill(t)
      <4> DEFINE n == broker[t].filled + 1
      <4>1. n \in 0..Quantity /\ broker[t].filled <= n
        BY <2>1, <3>1, QuantityAssumption DEF Fill, Order
      <4> DEFINE b == n < Quantity
                 new == [broker[t] EXCEPT !.filled = n, !.live = b]
      <4>2. broker' = [broker EXCEPT ![t] = new]
        BY <1>1, <3>1 DEF Fill
      <4>3. b \in BOOLEAN
        OBVIOUS
      <4> HIDE DEF b, n
      <4>4. new \in Order /\ new.filled = n
        BY <2>1, <4>1, <4>3 DEF Order
      <4> HIDE DEF new
      <4> QED BY <4>1, <4>2, <4>4
    <3>2. CASE Close(t)
      <4>1. [broker[t] EXCEPT !.live = FALSE] \in Order
        BY <2>1 DEF Order
      <4>2. broker' = [broker EXCEPT ![t] = [broker[t] EXCEPT !.live = FALSE]]
        BY <3>2 DEF Close
      <4>3. broker[t].filled <= [broker[t] EXCEPT !.live = FALSE].filled
        BY <1>1, <2>1, QuantityAssumption DEF Order
      <4> QED BY <4>1, <4>2, <4>3
    <3> QED BY <1>3, <3>1, <3>2
  <2>3. broker' \in [Tokens -> Order \cup {Null}]
    BY <1>1, <2>2
  <2>4. \A u \in Tokens \ {t} : broker'[u] = broker[u]
    BY <1>1, <2>2
  <2>5. broker'[t] = o /\ o # Null
    BY <1>1, <2>2, NullAssumption
  <2>6. Phase4TypeOK' /\ WorldGrows
    BY <1>1, <2>1, <2>2, <2>3, <2>4, <2>5 DEF Phase4Inv, Phase4TypeOK, WorldGrows
  <2> QED BY <2>1, <2>6, WorldStep
<1> QED BY <1>2, <1>3

-----------------------------------------------------------------------------
(* The theorems.                                                           *)

LEMMA Inductive == Phase4Inv /\ [Phase4Next]_phase4Vars => Phase4Inv'
<1> SUFFICES ASSUME Phase4Inv, [Phase4Next]_phase4Vars PROVE Phase4Inv'
  OBVIOUS
<1>1. CASE UNCHANGED phase4Vars
  <2>1. Phase4TypeOK' /\ WorldGrows
    BY <1>1, WorldStays DEF phase4Vars, Phase4Inv, Phase4TypeOK
  <2> QED BY <1>1, <2>1, WorldStep DEF phase4Vars
<1>2. ASSUME NEW c \in Calls, CallStep(c) PROVE Phase4Inv'
  BY <1>2, BeginSteps, RecoverSteps, PreviewOrderStep, SubmitEnds,
     SubmitSucceedsStep, PersistStep, RowSteps DEF CallStep
<1> QED BY <1>1, <1>2, OutsideSteps DEF Phase4Next

LEMMA Invariance == Phase4Spec => []Phase4Inv
BY InitHolds, Inductive, PTL DEF Phase4Spec

\* Every variable keeps its type.
THEOREM Phase4TypeCorrect == Phase4Spec => []Phase4TypeOK
<1>1. Phase4Inv => Phase4TypeOK
  BY DEF Phase4Inv
<1> QED BY <1>1, Invariance, PTL

\* _persist_link_callback writes the applied fill and the owned quantity
\* together: the owned quantity always is the holding moved by the applied
\* fill, however many reconciliations overlap.
THEOREM AppliedOnce == Phase4Spec => []OwnedFollowsApplied
<1>1. Phase4Inv => OwnedFollowsApplied
  BY DEF Phase4Inv
<1> QED BY <1>1, Invariance, PTL

\* apply_fill_to_portfolio never applies more than the recorded order's fill.
THEOREM AppliedIsReal == Phase4Spec => []AppliedWasFilled
<1>1. Phase4Inv => AppliedWasFilled
  BY DEF Phase4Inv
<1> QED BY <1>1, Invariance, PTL

\* A row past its preview names an order the broker has and a token consumed.
THEOREM RecordedOrderIsReal == Phase4Spec => []RefIsReal
<1>1. Phase4Inv => RefIsReal
  BY DEF Phase4Inv, RefIsReal, StateHasRef, RecordedIsReal, Recorded, Phase4TypeOK, Link
<1> QED BY <1>1, Invariance, PTL

\* All at once: the link never speaks of an order or a fill that is not there, and
\* the owned quantity never of another.
THEOREM LinkStaysReal == Phase4Spec => []LinkIsReal
<1>1. OwnedFollowsApplied /\ AppliedWasFilled /\ RefIsReal => LinkIsReal
  BY DEF LinkIsReal
<1> QED BY <1>1, AppliedOnce, AppliedIsReal, RecordedOrderIsReal, PTL

-----------------------------------------------------------------------------
(* Calls that do not overlap: what a call read of the row is the row, an   *)
(* order whose token is not consumed is the one the row was previewed for, *)
(* and a call about to submit is about to send the only order.             *)

Busy == {c \in Calls : call[c].pc # "idle"}

LoneCall(r) ==
  /\ r.pc \in {"recover", "submit", "locate", "list", "settle"} => r.snap = link
  /\ r.pc \in {"mint", "save"} => link.state \notin ActiveStates
  /\ r.pc \in {"recover", "submit"} => link.state = "PREVIEWED"
  /\ r.pc = "submit" =>
       r.tok = link.approval /\ \A u \in Tokens : broker[u] # Null => u = r.tok

OrdersKnown ==
  /\ \A t \in Tokens : broker[t] # Null /\ conf[t].state # "SUBMITTED" =>
       link.approval = t /\ link.state = "PREVIEWED"
  /\ OneOrderPerApproval

LoneInv ==
  /\ IsFiniteSet(Busy)
  /\ ~overlapped =>
       /\ \A c, d \in Busy : c = d
       /\ \A c \in Calls : LoneCall(call[c])
       /\ OrdersKnown

\* A call that returns, or has none of these points before it, claims nothing.
LEMMA ReturnedLone ==
  ASSUME Phase4TypeOK, NEW c \in Calls, Return(c)
  PROVE  /\ LoneCall(call[c])' /\ call'[c].pc = "idle"
         /\ \A d \in Calls \ {c} : call'[d] = call[d]
<1>1. call'[c] = Idle /\ Idle.pc = "idle" /\ \A d \in Calls \ {c} : call'[d] = call[d]
  BY DEF Phase4TypeOK, Return, Idle
<1> QED BY <1>1 DEF LoneCall

LEMMA OrdersRest ==
  ASSUME OrdersKnown, UNCHANGED <<conf, broker, link>>
  PROVE  OrdersKnown'
BY DEF OrdersKnown, OneOrderPerApproval

\* The steps of a call that only read.
LEMMA ReadingLone ==
  ASSUME Phase4Inv, NEW c \in Calls, LoneCall(call[c]), OrdersKnown,
         \/ PreviewProposal(c) \/ AffirmApproval(c) \/ ReconcileProposal(c)
         \/ RecoverToSubmit(c) \/ RecoverToList(c) \/ ListOrders(c)
         \/ SubmitRefused(c) \/ CallFails(c)
  PROVE  /\ LoneCall(call[c])' /\ OrdersKnown'
         /\ \A d \in Calls \ {c} : call'[d] = call[d]
<1>1. Phase4TypeOK /\ call \in [Calls -> Call] /\ call[c] \in Call
  BY DEF Phase4Inv, Phase4TypeOK
<1>2. UNCHANGED <<conf, broker, link>>
  BY DEF PreviewProposal, AffirmApproval, ReconcileProposal, RecoverToSubmit,
     RecoverToList, ListOrders, SubmitRefused, CallFails
<1>3. OrdersKnown'
  BY <1>2, OrdersRest
<1>4. CASE Return(c)
  BY <1>1, <1>3, <1>4, ReturnedLone
<1>5. ASSUME NEW r, call' = [call EXCEPT ![c] = r], LoneCall(r)
      PROVE  LoneCall(call[c])' /\ \A d \in Calls \ {c} : call'[d] = call[d]
  <2>1. call'[c] = r /\ \A d \in Calls \ {c} : call'[d] = call[d]
    BY <1>1, <1>5
  <2> QED BY <1>2, <1>5, <2>1 DEF LoneCall
<1>6. CASE PreviewProposal(c)
  <2> DEFINE r == [call[c] EXCEPT !.pc = "mint"]
  <2>1. r.pc = "mint" /\ call' = [call EXCEPT ![c] = r] /\ link.state \notin ActiveStates
    BY <1>1, <1>6 DEF PreviewProposal, CallGoto, Call
  <2> HIDE DEF r
  <2>2. LoneCall(r)
    BY <2>1 DEF LoneCall
  <2> QED BY <1>3, <1>5, <2>1, <2>2
<1>7. CASE AffirmApproval(c)
  <2> DEFINE r == [call[c] EXCEPT !.pc = "recover", !.snap = link]
  <2>1. /\ r.pc = "recover" /\ r.snap = link /\ call' = [call EXCEPT ![c] = r]
        /\ link.state = "PREVIEWED"
    BY <1>1, <1>7 DEF AffirmApproval, Call
  <2> HIDE DEF r
  <2>2. LoneCall(r)
    BY <2>1 DEF LoneCall
  <2> QED BY <1>3, <1>5, <2>1, <2>2
<1>8. CASE ReconcileProposal(c)
  <2> DEFINE r == [call[c] EXCEPT !.pc = "locate", !.snap = link]
  <2>1. r.pc = "locate" /\ r.snap = link /\ call' = [call EXCEPT ![c] = r]
    BY <1>1, <1>8 DEF ReconcileProposal, Call
  <2> HIDE DEF r
  <2>2. LoneCall(r)
    BY <2>1 DEF LoneCall
  <2> QED BY <1>3, <1>5, <2>1, <2>2
<1>9. CASE RecoverToSubmit(c) /\ ~Return(c)
  <2> DEFINE r == [call[c] EXCEPT !.pc = "submit", !.tok = call[c].snap.approval]
  <2>1. /\ r.pc = "submit" /\ r.tok = call[c].snap.approval /\ r.snap = call[c].snap
        /\ call' = [call EXCEPT ![c] = r]
        /\ call[c].pc = "recover" /\ Candidates = {call[c].snap.approval}
    BY <1>1, <1>9 DEF RecoverToSubmit, CallAt, Recovers, Call
  <2> HIDE DEF r
  <2>2. call[c].snap = link /\ link.state = "PREVIEWED"
    BY <2>1 DEF LoneCall
  <2>3. ASSUME NEW u \in Tokens, broker[u] # Null PROVE u = r.tok
    <3>1. CASE conf[u].state = "SUBMITTED"
      BY <2>1, <3>1 DEF Candidates
    <3>2. CASE conf[u].state # "SUBMITTED"
      BY <2>1, <2>2, <2>3, <3>2 DEF OrdersKnown
    <3> QED BY <3>1, <3>2
  <2>4. LoneCall(r)
    BY <2>1, <2>2, <2>3 DEF LoneCall
  <2> QED BY <1>3, <1>5, <2>1, <2>4
<1>10. CASE RecoverToList(c) /\ ~Return(c)
  <2> DEFINE r == [call[c] EXCEPT !.pc = "list"]
  <2>1. /\ r.pc = "list" /\ r.snap = call[c].snap /\ call' = [call EXCEPT ![c] = r]
        /\ call[c].pc = "locate"
    BY <1>1, <1>10 DEF RecoverToList, CallAt, CallGoto, Call
  <2> HIDE DEF r
  <2>2. LoneCall(r)
    BY <2>1 DEF LoneCall
  <2> QED BY <1>3, <1>5, <2>1, <2>2
<1>11. CASE ListOrders(c)
  <2>1. PICK o : call' = [call EXCEPT ![c].pc = "settle", ![c].seen = o]
    BY <1>11 DEF ListOrders
  <2> DEFINE r == [call[c] EXCEPT !.pc = "settle", !.seen = o]
  <2>2. /\ r.pc = "settle" /\ r.snap = call[c].snap /\ call' = [call EXCEPT ![c] = r]
        /\ call[c].pc = "list"
    BY <1>1, <1>11, <2>1 DEF ListOrders, CallAt, Call
  <2> HIDE DEF r
  <2>3. LoneCall(r)
    BY <2>2 DEF LoneCall
  <2> QED BY <1>3, <1>5, <2>2, <2>3
<1>12. CASE SubmitRefused(c) \/ CallFails(c)
  BY <1>4, <1>12 DEF SubmitRefused, CallFails
<1> QED BY <1>4, <1>6, <1>7, <1>8, <1>9, <1>10, <1>11, <1>12

\* A new confirmation is of no order.
LEMMA PreviewLone ==
  ASSUME Phase4Inv, NEW c \in Calls, LoneCall(call[c]), OrdersKnown,
         NEW t \in Tokens, PreviewOrder(c, t)
  PROVE  /\ LoneCall(call[c])' /\ OrdersKnown'
         /\ \A d \in Calls \ {c} : call'[d] = call[d]
<1>1. call \in [Calls -> Call] /\ call[c] \in Call /\ conf \in [Tokens -> Confirmation]
  BY DEF Phase4Inv, Phase4TypeOK
<1>2. /\ call[c].pc = "mint" /\ conf[t].state = "absent" /\ UNCHANGED <<broker, link>>
      /\ \A u \in Tokens \ {t} : conf'[u] = conf[u]
  BY <1>1 DEF PreviewOrder, CallAt
<1>3. link.state \notin ActiveStates /\ "PREVIEWED" \in ActiveStates
  BY <1>2 DEF LoneCall, ActiveStates
<1>4. broker[t] = Null
  BY <1>2, <1>3 DEF OrdersKnown
<1>5. OrdersKnown'
  BY <1>2, <1>4 DEF OrdersKnown, OneOrderPerApproval
<1> DEFINE r == [call[c] EXCEPT !.pc = "save", !.tok = t]
<1>6. r.pc = "save" /\ call' = [call EXCEPT ![c] = r]
  BY <1>1 DEF PreviewOrder, Call
<1> HIDE DEF r
<1>7. call'[c] = r /\ \A d \in Calls \ {c} : call'[d] = call[d]
  BY <1>1, <1>6
<1> QED BY <1>2, <1>3, <1>5, <1>6, <1>7 DEF LoneCall

\* A submission consumes the token of the row, or leaves it uncertain, and makes
\* the only order there is.
LEMMA SubmittingLone ==
  ASSUME Phase4Inv, NEW c \in Calls, LoneCall(call[c]), OrdersKnown,
         SubmitSucceeds(c) \/ SubmitDryRun(c) \/ SubmitUncertain(c)
  PROVE  /\ LoneCall(call[c])' /\ OrdersKnown'
         /\ \A d \in Calls \ {c} : call'[d] = call[d]
<1>1. /\ Phase4TypeOK /\ call \in [Calls -> Call] /\ call[c] \in Call
      /\ conf \in [Tokens -> Confirmation] /\ broker \in [Tokens -> Order \cup {Null}]
  BY DEF Phase4Inv, Phase4TypeOK
<1>2. PICK t \in Tokens : t = call[c].tok
  BY DEF SubmitSucceeds, SubmitDryRun, SubmitUncertain, CallAt, Phase4Inv, HasToken
<1>3. call[c].pc = "submit" /\ Submittable(t) /\ link' = link
  BY <1>2 DEF SubmitSucceeds, SubmitDryRun, SubmitUncertain, CallAt
<1>4. /\ link.state = "PREVIEWED" /\ link.approval = t
      /\ \A u \in Tokens : broker[u] # Null => u = t
  BY <1>2, <1>3 DEF LoneCall
<1>5. /\ \A u \in Tokens \ {t} : conf'[u] = conf[u] /\ broker'[u] = broker[u]
  <2>1. \/ conf' = [conf EXCEPT ![t].state = "SUBMITTED"]
        \/ conf' = [conf EXCEPT ![t].state = "UNCERTAIN"]
    BY <1>2 DEF SubmitSucceeds, SubmitDryRun, SubmitUncertain
  <2>2. broker' = [broker EXCEPT ![t] = Accepted(t)] \/ broker' = broker
    BY <1>2 DEF SubmitSucceeds, SubmitDryRun, SubmitUncertain
  <2> QED BY <1>1, <2>1, <2>2
<1>6. OrdersKnown'
  BY <1>3, <1>4, <1>5 DEF OrdersKnown, OneOrderPerApproval
<1>7. CASE Return(c)
  BY <1>1, <1>6, <1>7, ReturnedLone
<1>8. CASE CallGoto(c, "persist")
  <2> DEFINE r == [call[c] EXCEPT !.pc = "persist"]
  <2>1. r.pc = "persist" /\ call' = [call EXCEPT ![c] = r]
    BY <1>1, <1>8 DEF CallGoto, Call
  <2> HIDE DEF r
  <2>2. call'[c] = r /\ \A d \in Calls \ {c} : call'[d] = call[d]
    BY <1>1, <2>1
  <2> QED BY <1>6, <2>1, <2>2 DEF LoneCall
<1> QED BY <1>7, <1>8 DEF SubmitSucceeds, SubmitDryRun, SubmitUncertain

\* The row is written by a call that is alone with it.
LEMMA WritingLone ==
  ASSUME Phase4Inv, NEW c \in Calls, LoneCall(call[c]), OrdersKnown,
         SaveLink(c) \/ PersistOrderRef(c) \/ MarkSubmitted(c) \/ Settle(c)
  PROVE  /\ LoneCall(call[c])' /\ OrdersKnown' /\ link'.applied >= link.applied
         /\ \A d \in Calls \ {c} : call'[d] = call[d]
<1>1. /\ Phase4TypeOK /\ call \in [Calls -> Call] /\ call[c] \in Call /\ link \in Link
      /\ SnapOk(call[c]) /\ link.applied \in Nat /\ UNCHANGED <<conf, broker>>
  BY QuantityAssumption DEF Phase4Inv, Phase4TypeOK, SnapIsOlder, Link, SaveLink,
     PersistOrderRef, MarkSubmitted, Settle
<1>2. ASSUME NEW t \in Tokens, Recorded(t)
      PROVE  \A u \in Tokens : broker[u] # Null => conf[u].state = "SUBMITTED"
  BY <1>2 DEF OrdersKnown, OneOrderPerApproval, Phase4Inv, RecordedIsReal
<1>3. CASE SaveLink(c)
  <2>1. call[c].pc = "save" /\ Return(c) /\ link'.applied = link.applied
    BY <1>1, <1>3 DEF SaveLink, CallAt, Link
  <2>2. link.state \notin ActiveStates /\ "PREVIEWED" \in ActiveStates
    BY <2>1 DEF LoneCall, ActiveStates
  <2>3. \A u \in Tokens : broker[u] # Null => conf[u].state = "SUBMITTED"
    BY <2>2 DEF OrdersKnown
  <2>4. OrdersKnown'
    BY <1>1, <2>3 DEF OrdersKnown, OneOrderPerApproval
  <2> QED BY <1>1, <2>1, <2>4, ReturnedLone
<1>4. CASE PersistOrderRef(c)
  <2> DEFINE r == [call[c] EXCEPT !.pc = "mark"]
  <2>1. r.pc = "mark" /\ call' = [call EXCEPT ![c] = r]
    BY <1>1, <1>4 DEF PersistOrderRef, CallGoto, Call
  <2>2. link'.applied = link.applied /\ link'.state = link.state /\ link'.approval = link.approval
    BY <1>1, <1>4 DEF PersistOrderRef, Link
  <2> HIDE DEF r
  <2>3. call'[c] = r /\ \A d \in Calls \ {c} : call'[d] = call[d]
    BY <1>1, <2>1
  <2>4. OrdersKnown'
    BY <1>1, <2>2 DEF OrdersKnown, OneOrderPerApproval
  <2> QED BY <1>1, <2>1, <2>2, <2>3, <2>4 DEF LoneCall
<1>5. CASE MarkSubmitted(c)
  <2>1. call[c].pc = "mark" /\ Return(c) /\ link'.applied = link.applied
    BY <1>1, <1>5 DEF MarkSubmitted, CallAt, Link
  <2>2. PICK t \in Tokens : t = call[c].tok
    BY <2>1 DEF Phase4Inv, HasToken
  <2>3. Recorded(t)
    BY <2>1, <2>2 DEF Recorded
  <2>4. OrdersKnown'
    BY <1>1, <1>2, <2>3 DEF OrdersKnown, OneOrderPerApproval
  <2> QED BY <1>1, <2>1, <2>4, ReturnedLone
<1>6. CASE Settle(c)
  <2>1. call[c].pc = "settle" /\ Return(c)
    BY <1>6 DEF Settle, CallAt
  <2>2. call[c].snap = link /\ call[c].snap.ref # Null
    BY <1>1, <2>1 DEF LoneCall, SnapOk
  <2>3. link.ref \in Tokens /\ Recorded(link.ref)
    BY <1>1, <2>2 DEF Link, Recorded
  <2>4. OrdersKnown'
    BY <1>1, <1>2, <2>3 DEF OrdersKnown, OneOrderPerApproval
  <2>5. link'.applied = AppliedAfter(link, call[c].seen)
    BY <1>1, <1>6, <2>2 DEF Settle, Link
  <2>6. AppliedAfter(link, call[c].seen) >= link.applied
    BY <1>1, AppliedAfterBounds DEF Call
  <2> QED BY <1>1, <2>1, <2>4, <2>5, <2>6, ReturnedLone
<1> QED BY <1>3, <1>4, <1>5, <1>6

\* The execution service and the broker bring no order of another token.
LEMMA OutsideLone ==
  ASSUME Phase4Inv, OrdersKnown, NEW t \in Tokens,
         Expire(t) \/ DecideUncertain(t) \/ Fill(t) \/ Close(t)
  PROVE  /\ UNCHANGED <<link, call>> /\ OrdersKnown'
         /\ \A u \in Tokens : broker'[u] # Null => broker[u] # Null
<1>1. /\ conf \in [Tokens -> Confirmation] /\ broker \in [Tokens -> Order \cup {Null}]
      /\ UNCHANGED <<link, call>>
  BY DEF Phase4Inv, Phase4TypeOK, Expire, DecideUncertain, Fill, Close
<1>2. \A u \in Tokens : broker'[u] # Null => broker[u] # Null
  <2>1. CASE broker' = broker
    BY <2>1
  <2>2. CASE Fill(t) \/ Close(t)
    BY <1>1, <2>2 DEF Fill, Close
  <2> QED BY <2>1, <2>2 DEF Expire, DecideUncertain
<1>3. \A u \in Tokens : /\ broker[u] # Null
                        /\ conf[u].state = "SUBMITTED" \/ conf'[u].state # conf[u].state
                        => conf'[u].state = "SUBMITTED"
  <2>1. CASE conf' = conf
    BY <2>1
  <2>2. CASE Expire(t)
    <3>1. \A u \in Tokens : conf'[u].state = conf[u].state
      BY <1>1, <2>2 DEF Expire, Confirmation
    <3> QED BY <3>1
  <2>3. CASE DecideUncertain(t)
    <3>1. \A u \in Tokens \ {t} : conf'[u] = conf[u]
      BY <1>1, <2>3 DEF DecideUncertain
    <3>2. broker[t] # Null => conf'[t].state = "SUBMITTED"
      BY <1>1, <2>3 DEF DecideUncertain, Confirmation
    <3> QED BY <3>1, <3>2
  <2> QED BY <2>1, <2>2, <2>3 DEF Fill, Close
<1>4. OrdersKnown'
  BY <1>1, <1>2, <1>3 DEF OrdersKnown, OneOrderPerApproval
<1> QED BY <1>1, <1>2, <1>4

\* A step of one call while no two were in progress.
LEMMA LoneStep ==
  ASSUME Phase4Inv, LoneInv, Phase4Next, overlapped' = (overlapped \/ CallsOverlap')
  PROVE  LoneInv' /\ (~overlapped' => link'.applied >= link.applied)
<1>0. link.applied \in Int
  BY QuantityAssumption DEF Phase4Inv, Phase4TypeOK, Link
<1>1. ASSUME NEW c \in Calls, CallStep(c)
      PROVE  LoneInv' /\ (~overlapped' => link'.applied >= link.applied)
  <2>1. \A d \in Calls \ {c} : call'[d] = call[d]
    <3>1. call \in [Calls -> Call]
      BY DEF Phase4Inv, Phase4TypeOK
    <3> QED BY <1>1, <3>1 DEF CallStep, PreviewProposal, SaveLink, AffirmApproval,
       RecoverToSubmit, SubmitSucceeds, SubmitDryRun, SubmitUncertain, SubmitRefused,
       PersistOrderRef, MarkSubmitted, ReconcileProposal, RecoverToList, ListOrders,
       Settle, CallFails, PreviewOrder, Return, CallGoto
  <2>2. IsFiniteSet(Busy)'
    <3>1. Busy' \subseteq Busy \cup {c}
      BY <2>1 DEF Busy
    <3>2. IsFiniteSet(Busy \cup {c})
      BY FS_AddElement DEF LoneInv
    <3> QED BY <3>1, <3>2, FS_Subset
  <2>3. ASSUME ~overlapped'
        PROVE  /\ \A e, d \in Busy' : e = d
               /\ \A d \in Calls : LoneCall(call[d])'
               /\ OrdersKnown' /\ link'.applied >= link.applied
    <3>1. ~overlapped /\ ~CallsOverlap'
      BY <2>3
    <3>2. \A e, d \in Busy' : e = d
      BY <2>2, <3>1, AtMostOne DEF CallsOverlap, Busy
    <3>3. LoneCall(call[c]) /\ OrdersKnown
      BY <3>1 DEF LoneInv
    <3>4. LoneCall(call[c])' /\ OrdersKnown' /\ link'.applied >= link.applied
      <4>1. CASE link' = link
        <5>1. link'.applied >= link.applied
          BY <1>0, <4>1
        <5> QED BY <1>1, <3>3, <5>1, ReadingLone, PreviewLone, SubmittingLone, WritingLone
              DEF CallStep
      <4>2. CASE link' # link
        <5>1. SaveLink(c) \/ PersistOrderRef(c) \/ MarkSubmitted(c) \/ Settle(c)
          BY <1>1, <4>2 DEF CallStep, PreviewProposal, AffirmApproval, RecoverToSubmit,
             SubmitSucceeds, SubmitDryRun, SubmitUncertain, SubmitRefused,
             ReconcileProposal, RecoverToList, ListOrders, CallFails, PreviewOrder
        <5> QED BY <3>3, <5>1, WritingLone
      <4> QED BY <4>1, <4>2
    <3>5. ASSUME NEW d \in Calls, d # c PROVE LoneCall(call[d])'
      <4>1. call'[d] = call[d]
        BY <2>1, <3>5
      <4>2. call[d].pc = "idle"
        <5>1. CASE call[c].pc # "idle"
          BY <3>1, <3>5, <5>1 DEF LoneInv, Busy
        <5>2. CASE call'[c].pc # "idle"
          BY <3>2, <3>5, <4>1, <5>2 DEF Busy
        <5>3. CASE call[c].pc = "idle" /\ call'[c].pc = "idle"
          <6>1. PreviewProposal(c) \/ AffirmApproval(c) \/ ReconcileProposal(c)
            BY <1>1, <5>3 DEF CallStep, SaveLink, RecoverToSubmit, SubmitSucceeds,
               SubmitDryRun, SubmitUncertain, SubmitRefused, PersistOrderRef,
               MarkSubmitted, RecoverToList, ListOrders, Settle, CallFails,
               PreviewOrder, CallAt
          <6>2. call'[c].pc \in {"mint", "recover", "locate"}
            <7>1. call \in [Calls -> Call] /\ call[c] \in Call
              BY DEF Phase4Inv, Phase4TypeOK
            <7> QED BY <6>1, <7>1 DEF PreviewProposal, AffirmApproval,
                  ReconcileProposal, CallGoto, Call
          <6> QED BY <5>3, <6>2
        <5> QED BY <5>1, <5>2, <5>3
      <4> QED BY <4>1, <4>2 DEF LoneCall
    <3> QED BY <3>2, <3>4, <3>5
  <2> QED BY <2>2, <2>3 DEF LoneInv
<1>2. ASSUME NEW t \in Tokens, Expire(t) \/ DecideUncertain(t) \/ Fill(t) \/ Close(t)
      PROVE  LoneInv' /\ (~overlapped' => link'.applied >= link.applied)
  <2>1. UNCHANGED <<link, call>>
    BY <1>2 DEF Expire, DecideUncertain, Fill, Close
  <2>2. Busy' = Busy
    BY <2>1 DEF Busy
  <2>3. ASSUME ~overlapped' PROVE OrdersKnown' /\ \A c \in Calls : LoneCall(call[c])'
    <3>1. ~overlapped /\ OrdersKnown
      BY <2>3 DEF LoneInv
    <3>2. OrdersKnown' /\ \A u \in Tokens : broker'[u] # Null => broker[u] # Null
      BY <1>2, <3>1, OutsideLone
    <3> QED BY <2>1, <3>1, <3>2 DEF LoneInv, LoneCall
  <2>4. ~overlapped' => ~overlapped
    OBVIOUS
  <2> QED BY <1>0, <2>1, <2>2, <2>3, <2>4 DEF LoneInv
<1> QED BY <1>1, <1>2 DEF Phase4Next

-----------------------------------------------------------------------------
(* Both parts, one at a time.                                              *)

OperationsInv == AutonomyInv /\ AloneInv /\ Phase4Inv /\ LoneInv

\* What the other part does, or nothing at all, leaves a part's claims alone.
LEMMA AutonomyRests ==
  ASSUME AutonomyInv, AloneInv, UNCHANGED vars, overlapped => overlapped'
  PROVE  AutonomyInv' /\ AloneInv'
<1>1. AutonomyInv'
  BY AutonomyNextInv
<1>2. run' = run /\ charges' = charges
  BY DEF vars
<1>3. /\ Active' = Active /\ \A d \in Days : Charged(d)' = Charged(d)
      /\ BudgetHolds' <=> BudgetHolds
  BY <1>2, SameBudget DEF Active, At
<1>4. ASSUME NEW r \in Runners
      PROVE  /\ At(r, "charge")' <=> At(r, "charge")
             /\ WithinBudget(Cur(r), run[r].day)' <=> WithinBudget(Cur(r), run[r].day)
  <2>1. Cur(r)' = Cur(r) /\ run'[r].day = run[r].day
    BY <1>2 DEF Cur
  <2> QED BY <1>2, <2>1, SameBudget DEF At
<1>5. AloneInv'
  BY <1>3, <1>4 DEF AloneInv
<1> QED BY <1>1, <1>5

LEMMA Phase4Rests ==
  ASSUME Phase4Inv, LoneInv, UNCHANGED phase4Vars, overlapped => overlapped'
  PROVE  Phase4Inv' /\ LoneInv'
<1>1. Phase4Inv'
  BY Inductive
<1>2. UNCHANGED <<conf, broker, link, call>>
  BY DEF phase4Vars
<1>3. Busy' = Busy /\ \A c \in Calls : LoneCall(call[c])' <=> LoneCall(call[c])
  BY <1>2 DEF Busy, LoneCall
<1>4. OrdersKnown' <=> OrdersKnown
  BY <1>2 DEF OrdersKnown, OneOrderPerApproval
<1> QED BY <1>1, <1>3, <1>4 DEF LoneInv

LEMMA OperationsStart == OperationsInit => OperationsInv
<1> SUFFICES ASSUME OperationsInit PROVE OperationsInv
  OBVIOUS
<1>1. AutonomyInv /\ AloneInv /\ Phase4Inv /\ Phase4Init
  BY AloneInit, InitHolds DEF OperationsInit
<1>2. \A c \in Calls : call[c].pc = "idle"
  BY <1>1 DEF Phase4Init, Idle
<1>3. Busy = {}
  BY <1>2 DEF Busy
<1>4. \A t \in Tokens : broker[t] = Null
  BY <1>1 DEF Phase4Init
<1>5. OrdersKnown /\ \A c \in Calls : LoneCall(call[c])
  BY <1>2, <1>4 DEF OrdersKnown, OneOrderPerApproval, LoneCall
<1>6. LoneInv
  BY <1>3, <1>5, FS_EmptySet DEF LoneInv
<1> QED BY <1>1, <1>6 DEF OperationsInv

LEMMA OperationsStep ==
  OperationsInv /\ [AutonomyMoves \/ Phase4Moves]_operationVars =>
    /\ OperationsInv'
    /\ [~overlapped' => link'.applied >= link.applied]_phase4Vars
<1> SUFFICES ASSUME OperationsInv, [AutonomyMoves \/ Phase4Moves]_operationVars
             PROVE  /\ OperationsInv'
                    /\ [~overlapped' => link'.applied >= link.applied]_phase4Vars
  OBVIOUS
<1>1. CASE AutonomyMoves
  <2>1. /\ Next /\ overlapped' = (overlapped \/ Overlap') /\ UNCHANGED phase4Vars
    BY <1>1 DEF AutonomyMoves
  <2>2. AutonomyInv' /\ AloneInv'
    BY <2>1, AutonomyNextInv, AloneStep DEF OperationsInv
  <2>3. Phase4Inv' /\ LoneInv'
    BY <2>1, Phase4Rests DEF OperationsInv
  <2> QED BY <2>1, <2>2, <2>3 DEF OperationsInv
<1>2. CASE Phase4Moves
  <2>1. /\ Phase4Next /\ overlapped' = (overlapped \/ CallsOverlap') /\ UNCHANGED vars
    BY <1>2 DEF Phase4Moves
  <2>2. /\ Phase4Inv' /\ LoneInv'
        /\ ~overlapped' => link'.applied >= link.applied
    BY <2>1, Inductive, LoneStep DEF OperationsInv
  <2>3. AutonomyInv' /\ AloneInv'
    BY <2>1, AutonomyRests DEF OperationsInv
  <2> QED BY <2>2, <2>3 DEF OperationsInv
<1>3. CASE UNCHANGED operationVars
  <2>1. UNCHANGED vars /\ UNCHANGED phase4Vars /\ overlapped' = overlapped
    BY <1>3 DEF operationVars
  <2> QED BY <2>1, AutonomyRests, Phase4Rests DEF OperationsInv
<1> QED BY <1>1, <1>2, <1>3

LEMMA OperationsHold == OperationsSpec => []OperationsInv
BY OperationsStart, OperationsStep, PTL DEF OperationsSpec

\* Runs of the PAPER runner that do not overlap keep every day within the policy's
\* order count and notional, across exports, crashes and midnight: between
\* daily_usage and charge() nobody else spends.
THEOREM BudgetKeptAlone == OperationsSpec => []BudgetHoldsAlone
<1>1. OperationsInv => BudgetHoldsAlone
  BY DEF OperationsInv, AloneInv, BudgetHoldsAlone
<1> QED BY <1>1, OperationsHold, PTL

\* Tool calls that do not overlap make one order of one approved proposal, through
\* expiry, dry runs, uncertain submissions and calls that stop half way.
THEOREM OneOrderMadeAlone == OperationsSpec => []OneOrderAlone
<1>1. OperationsInv => OneOrderAlone
  BY DEF OperationsInv, LoneInv, OrdersKnown, OneOrderAlone
<1> QED BY <1>1, OperationsHold, PTL

\* Reconciling again, one call at a time, never takes an applied fill back.
THEOREM AppliedKeptAlone == OperationsSpec => AppliedNeverShrinksAlone
BY OperationsHold, OperationsStep, PTL DEF OperationsSpec, AppliedNeverShrinksAlone
=============================================================================
