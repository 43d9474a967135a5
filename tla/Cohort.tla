------------------------------- MODULE Cohort -------------------------------
(***************************************************************************)
(* The securities the research plane works on: a hash-selected sample is   *)
(* frozen (backfill/universe_sample.py), bootstrapped into identities and  *)
(* memberships, and reconciled with what an earlier bootstrap left         *)
(* (backfill/security_bootstrap.py), over the append-only stores of        *)
(* universe.py.  Every call dates its rows by the moment it began; calls   *)
(* overlap and die between transactions.  The samples, which a hash        *)
(* chooses, are constants.                                                 *)
(***************************************************************************)
EXTENDS Integers, Sequences, FiniteSets

CONSTANTS
  BootCalls,   \* calls of the bootstrap and of the reconciliation
  Ciks,        \* securities
  Samples,     \* the samples frozen: sequences of rows of a cik and a ticker
  Absent,      \* no ticker, no sample
  LastSecond   \* bounds the clock

ASSUME CohortAssumption ==
  /\ \A s \in Samples : /\ s \in Seq([cik : Ciks, ticker : STRING])
                         /\ \A i, j \in DOMAIN s : s[i] = s[j] => i = j
  /\ Absent \notin Samples \cup STRING /\ LastSecond \in Nat

VARIABLES
  second,    \* the clock, at the precision of knowledge_time
  security,  \* cik -> canonical_ticker
  identity,  \* cik -> its baseline and ticker_change events, in their order
  member,    \* cik -> its universe_membership rows, in their order
  boot,      \* each call: pc, its sample and moment, what it has left and has read
  collided,  \* history: two calls were active at once
  aligned    \* history: the sample of a reconciliation that ended last

cohortVars == <<second, security, identity, member, boot, collided, aligned>>

-----------------------------------------------------------------------------
(* A sample is frozen in the order of its hashes.                          *)
CiksOf(s) == {s[i].cik : i \in DOMAIN s}

(* _cohort_canonical_tickers: the first ticker of a cik wins.              *)
Canonical(s, c) ==
  s[CHOOSE i \in DOMAIN s : s[i].cik = c /\ \A j \in 1 .. i - 1 : s[j].cik # c].ticker

-----------------------------------------------------------------------------
(* The rows of one security; "of" is the row a row supersedes, or 0.  The  *)
(* chains of the queries that are visible at a moment end in these rows.   *)

VisibleRows(rows, t) == {i \in DOMAIN rows : rows[i].time <= t}
Superseded(rows, i, t) == \E j \in VisibleRows(rows, t) : rows[j].of = i
ChainEnds(rows, t) == {i \in VisibleRows(rows, t) : ~Superseded(rows, i, t)}

(* pit_valid: memberships valid at a moment, eligible or not.              *)
PitValid(c, t) == ChainEnds(member[c], t)

(* _load_universe and _eligible_universe.                                  *)
UniverseAt(t) == {c \in Ciks : \E i \in ChainEnds(member[c], t) : member[c][i].eligible}

(* canonical_tickers_by_cik, whatever the moment of a row.                 *)
LastRows(rows) == {i \in DOMAIN rows : \A j \in DOMAIN rows : rows[j].of # i}
ActiveUniverse == {c \in Ciks : \E i \in LastRows(member[c]) : member[c][i].eligible}

(* ticker_at: of the chains the one that ends latest, by moment and row.   *)
Newest(rows, t) ==
  {i \in ChainEnds(rows, t) : \A j \in ChainEnds(rows, t) :
     rows[i].time > rows[j].time \/ (rows[i].time = rows[j].time /\ i >= j)}
TickerAt(c, t) ==
  IF Newest(identity[c], t) = {} THEN Absent
  ELSE identity[c][CHOOSE i \in Newest(identity[c], t) : TRUE].ticker

(* What the database refuses of a row that supersedes row i.               *)
Refused(rows, i, t) == (\E j \in DOMAIN rows : rows[j].of = i) \/ t < rows[i].time

-----------------------------------------------------------------------------
NothingRead == [c \in Ciks |-> Absent]
NoEvents == [c \in Ciks |-> 0]
Resting == [pc |-> "idle", sample |-> Absent, time |-> 0, rows |-> <<>>, ciks |-> {},
            lacks |-> {}, read |-> NothingRead, last |-> NoEvents, retire |-> {}]

In(b, pc) == boot[b].pc = pc
Running(b) == boot[b].pc \notin {"idle", "done", "stopped"}
Becomes(b, r) == boot' = [boot EXCEPT ![b] = r]
Stopped(b) == Becomes(b, [Resting EXCEPT !.pc = "stopped"])

(* The store is empty, or a first bootstrap has filled it.                 *)
RowsOf(s, c) == {i \in DOMAIN s : s[i].cik = c}
Nth(I, k) == CHOOSE i \in I : Cardinality({j \in I : j < i}) = k - 1

CohortInit ==
  /\ second = 0
  /\ \E s \in Samples \cup {<<>>} :
       /\ security = [c \in Ciks |-> IF c \in CiksOf(s) THEN Canonical(s, c) ELSE Absent]
       /\ identity = [c \in Ciks |-> [k \in 1 .. Cardinality(RowsOf(s, c)) |->
                        [ticker |-> s[Nth(RowsOf(s, c), k)].ticker, time |-> 0, of |-> 0]]]
       /\ member = [c \in Ciks |-> IF c \in CiksOf(s)
                                   THEN <<[eligible |-> TRUE, time |-> 0, of |-> 0]>> ELSE <<>>]
  /\ boot = [b \in BootCalls |-> Resting]
  /\ collided = FALSE /\ aligned = Absent

SecondPasses ==
  /\ second < LastSecond /\ second' = second + 1
  /\ UNCHANGED <<security, identity, member, boot, collided, aligned>>

(* The operator calls one of the two with a sample that he has frozen.     *)
BeginCall(b, pc) ==
  /\ In(b, "idle")
  /\ \E s \in Samples :
       Becomes(b, [Resting EXCEPT !.pc = pc, !.sample = s, !.time = second])
  /\ collided' = (collided \/ \E x \in BootCalls \ {b} : Running(x))
  /\ aligned' = Absent
  /\ UNCHANGED <<second, security, identity, member>>

BeginBootstrap(b) == BeginCall(b, "securities")
BeginReconcile(b) == BeginCall(b, "read")

-----------------------------------------------------------------------------
(* bootstrap_security_rows: the securities in one transaction,             *)
BootSecurities(b) ==
  LET s == boot[b].sample
  IN  /\ In(b, "securities")
      /\ security' = [c \in Ciks |-> IF security[c] = Absent /\ c \in CiksOf(s)
                                     THEN Canonical(s, c) ELSE security[c]]
      /\ Becomes(b, [boot[b] EXCEPT !.pc = "baselines"])
      /\ UNCHANGED <<second, identity, member, collided, aligned>>

(* then the securities that have a baseline are read once,                 *)
ReadBaselines(b) ==
  LET s == boot[b].sample
  IN  /\ In(b, "baselines")
      /\ Becomes(b, [boot[b] EXCEPT !.pc = "baseline",
                       !.rows = SelectSeq(s, LAMBDA r : \A i \in DOMAIN identity[r.cik] :
                                                           identity[r.cik][i].of # 0)])
      /\ UNCHANGED <<second, security, identity, member, collided, aligned>>

(* and the others get theirs one by one, one for each ticker of the sample.*)
AddBaseline(b) ==
  LET r == Head(boot[b].rows)
  IN  /\ In(b, "baseline") /\ boot[b].rows # <<>>
      /\ identity' = [identity EXCEPT ![r.cik] =
                        Append(@, [ticker |-> r.ticker, time |-> boot[b].time, of |-> 0])]
      /\ Becomes(b, [boot[b] EXCEPT !.rows = Tail(@)])
      /\ UNCHANGED <<second, security, member, collided, aligned>>

EndBaselines(b) ==
  /\ In(b, "baseline") /\ boot[b].rows = <<>>
  /\ Becomes(b, [boot[b] EXCEPT !.pc = "members", !.ciks = CiksOf(boot[b].sample)])
  /\ UNCHANGED <<second, security, identity, member, collided, aligned>>

-----------------------------------------------------------------------------
(* reconcile_cohort_identity reads the securities, and with its first      *)
(* write begins the transaction that aligns them and their identities.     *)
ReadSecurities(b) ==
  /\ In(b, "read") /\ Becomes(b, [boot[b] EXCEPT !.pc = "align", !.read = security])
  /\ UNCHANGED <<second, security, identity, member, collided, aligned>>

Misnamed(b) == {c \in CiksOf(boot[b].sample) : boot[b].read[c] # Canonical(boot[b].sample, c)}

\* Mutant: whoever has an identity keeps it.
NeedsFirst(b, c, i) == i = 0

(* The identity event to add to a security whose last event is row i (0:   *)
(* it has none).                                                           *)
Needs(b, c, i) == i = 0 \/ identity[c][i].ticker # Canonical(boot[b].sample, c)
Corrects(b, last) == {c \in CiksOf(boot[b].sample) : Needs(b, c, last[c])}

LastEvents == [c \in Ciks |-> Len(identity[c])]

EventRefused(b, last) ==
  \E c \in Corrects(b, last) : last[c] # 0 /\ Refused(identity[c], last[c], boot[b].time)

Corrected(b, last) ==
  [c \in Ciks |->
     IF c \notin Corrects(b, last) THEN identity[c]
     ELSE Append(identity[c], [ticker |-> Canonical(boot[b].sample, c), time |-> boot[b].time,
                               of |-> last[c]])]

(* A security somebody else has inserted meanwhile, or an event that is    *)
(* refused, ends the call.                                                 *)
AlignSecurities(b) ==
  /\ In(b, "align") /\ Misnamed(b) # {}
  /\ IF \/ \E c \in Misnamed(b) : boot[b].read[c] = Absent /\ security[c] # Absent
        \/ EventRefused(b, LastEvents)
     THEN Stopped(b) /\ UNCHANGED <<security, identity>>
     ELSE /\ security' = [c \in Ciks |-> IF c \in Misnamed(b) THEN Canonical(boot[b].sample, c)
                                         ELSE security[c]]
          /\ identity' = Corrected(b, LastEvents)
          /\ Becomes(b, [boot[b] EXCEPT !.pc = "eligible", !.read = NothingRead])
  /\ UNCHANGED <<second, member, collided, aligned>>

(* With nothing to write so far the events are read outside of it.         *)
ReadEvents(b) ==
  /\ In(b, "align") /\ Misnamed(b) = {}
  /\ Becomes(b, [boot[b] EXCEPT !.pc = "correct", !.read = NothingRead,
                                 !.last = LastEvents])
  /\ UNCHANGED <<second, security, identity, member, collided, aligned>>

CorrectEvents(b) ==
  /\ In(b, "correct")
  /\ IF EventRefused(b, boot[b].last)
     THEN Stopped(b) /\ UNCHANGED identity
     ELSE /\ identity' = Corrected(b, boot[b].last)
          /\ Becomes(b, [boot[b] EXCEPT !.pc = "eligible", !.last = NoEvents])
  /\ UNCHANGED <<second, security, member, collided, aligned>>

(* The eligible memberships of others are read once                        *)
ReadEligible(b) ==
  /\ In(b, "eligible")
  /\ Becomes(b, [boot[b] EXCEPT !.pc = "retire",
                   !.retire = {x \in (Ciks \ CiksOf(boot[b].sample)) \X
                                       UNION {DOMAIN member[c] : c \in Ciks} :
                                 /\ x[2] \in LastRows(member[x[1]])
                                 /\ member[x[1]][x[2]].eligible}])
  /\ UNCHANGED <<second, security, identity, member, collided, aligned>>

\* Mutant: the membership ends when it began.
RetireMemberBackdated(b) ==
  /\ In(b, "retire")
  /\ \E x \in boot[b].retire :
       /\ member' = [member EXCEPT ![x[1]] =
                       Append(@, [eligible |-> FALSE, time |-> @[x[2]].time, of |-> x[2]])]
       /\ Becomes(b, [boot[b] EXCEPT !.retire = @ \ {x}])
  /\ UNCHANGED <<second, security, identity, collided, aligned>>

(* and superseded one by one.                                              *)
RetireMember(b) ==
  /\ In(b, "retire")
  /\ \E x \in boot[b].retire :
       IF Refused(member[x[1]], x[2], boot[b].time)
       THEN Stopped(b) /\ UNCHANGED member
       ELSE /\ member' = [member EXCEPT ![x[1]] =
                            Append(@, [eligible |-> FALSE, time |-> boot[b].time, of |-> x[2]])]
            /\ Becomes(b, [boot[b] EXCEPT !.retire = @ \ {x}])
  /\ UNCHANGED <<second, security, identity, collided, aligned>>

EndRetirement(b) ==
  /\ In(b, "retire") /\ boot[b].retire = {}
  /\ Becomes(b, [boot[b] EXCEPT !.pc = "cohort", !.ciks = CiksOf(boot[b].sample)])
  /\ UNCHANGED <<second, security, identity, member, collided, aligned>>

-----------------------------------------------------------------------------
(* Both end by giving a membership to every security of the sample that    *)
(* has none: looked up, then inserted.                                     *)
Joins(b) == In(b, "members") \/ In(b, "cohort")

LookUpMember(b) ==
  /\ Joins(b) /\ boot[b].lacks = {}
  /\ \E c \in boot[b].ciks :
       Becomes(b, [boot[b] EXCEPT !.ciks = @ \ {c},
                     !.lacks = IF PitValid(c, boot[b].time) = {} THEN {c} ELSE {}])
  /\ UNCHANGED <<second, security, identity, member, collided, aligned>>

AddMember(b) ==
  /\ Joins(b)
  /\ \E c \in boot[b].lacks :
       member' = [member EXCEPT ![c] =
                    Append(@, [eligible |-> TRUE, time |-> boot[b].time, of |-> 0])]
  /\ Becomes(b, [boot[b] EXCEPT !.lacks = {}])
  /\ UNCHANGED <<second, security, identity, collided, aligned>>

EndCall(b) ==
  /\ Joins(b) /\ boot[b].ciks = {} /\ boot[b].lacks = {}
  /\ Becomes(b, [Resting EXCEPT !.pc = "done"])
  /\ aligned' = IF In(b, "cohort") THEN boot[b].sample ELSE aligned
  /\ UNCHANGED <<second, security, identity, member, collided>>

BootDies(b) ==
  /\ Running(b) /\ Stopped(b)
  /\ UNCHANGED <<second, security, identity, member, collided, aligned>>

BootStep(b) ==
  \/ BeginBootstrap(b) \/ BootSecurities(b) \/ ReadBaselines(b) \/ AddBaseline(b)
  \/ EndBaselines(b)
  \/ BeginReconcile(b) \/ ReadSecurities(b) \/ AlignSecurities(b) \/ ReadEvents(b)
  \/ CorrectEvents(b) \/ ReadEligible(b) \/ RetireMember(b) \/ EndRetirement(b)
  \/ LookUpMember(b) \/ AddMember(b) \/ EndCall(b) \/ BootDies(b)

CohortNext == SecondPasses \/ \E b \in BootCalls : BootStep(b)
CohortSpec == CohortInit /\ [][CohortNext]_cohortVars

-----------------------------------------------------------------------------
(* A reconciliation that ended, with no calls overlapping, has aligned the *)
(* plane with its sample: canonical tickers and the identity history say   *)
(* the same, nobody else is in the universe, and everybody of the sample   *)
(* is, but for those an earlier reconciliation retired.                    *)
CohortIsAligned ==
  aligned # Absent /\ ~collided =>
    /\ \A c \in CiksOf(aligned) :
         /\ security[c] = Canonical(aligned, c) /\ TickerAt(c, second) = security[c]
         /\ c \in ActiveUniverse \/ \E i \in DOMAIN member[c] : ~member[c][i].eligible
    /\ ActiveUniverse \subseteq CiksOf(aligned)

(* What was visible at a moment before every call in progress began stays  *)
(* as it was: the universe and the tickers of that moment.                 *)
PastStands ==
  [][\A t \in 0 .. second - 1 :
       (\A b \in BootCalls : Running(b) => t < boot[b].time) =>
          /\ UniverseAt(t)' = UniverseAt(t)
          /\ \A c \in Ciks : TickerAt(c, t)' = TickerAt(c, t)]_cohortVars
=============================================================================
