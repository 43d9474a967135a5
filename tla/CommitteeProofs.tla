-------------------------- MODULE CommitteeProofs ---------------------------
(***************************************************************************)
(* Proofs about the worker of CommitteeWorker.tla and the run of           *)
(* CommitteeRun.tla that it drives.                                        *)
(*                                                                         *)
(* The worker: any number of invocations that queue for the lock, any runs *)
(* and cycles, any bounds and any answers, with invocations killed         *)
(* anywhere and replies lost.  Counts is why an attempt is earned: from    *)
(* the moment an invocation has its work, the answers refused are the      *)
(* tries it made, so when it gives up correcting it has a full Price to    *)
(* pay with.  Course is why a superseded cycle does not move on: only the  *)
(* holder of the lock drives, it begins with a run only while its cycle is *)
(* the newest, and nobody begins another run of that cycle once it is not. *)
(* What is needed of the worker's constants is a hypothesis,               *)
(* WorkerConstants.                                                        *)
(*                                                                         *)
(* The run: any number of overlapping requests.  What a request read may   *)
(* be stale, but the tables only grow: an assessment, a verdict, the       *)
(* comparison and a transition never go away.  So whatever a request       *)
(* concluded from its reads in favour of a score stays true until it       *)
(* writes (PointOK), and the slots of work and attempts fence the rest.    *)
(***************************************************************************)
EXTENDS CommitteeRun, CommitteeWorker, Sums

Fields == {"pc", "asked", "cycle", "todo", "run", "tried", "outcome"}
Driving == {"work", "ready", "pack", "call", "submit", "account"}
Held(x) == x.pc \in {"select", "scan", "finish"} \cup Driving

\* The answers refused since an invocation got its work pay for what it sends.
Counts(x, n) ==
  /\ n \in Nat
  /\ x.pc \in {"ready", "pack", "call"} => x.tried = n /\ n <= MaxCorrections
  /\ x.pc = "submit" /\ x.outcome = "malformed" => n >= Price

\* The timer's invocations take their runs from one cycle, the newest when they
\* begin with a run.
Course(x) ==
  /\ x.pc \in {"scan"} \cup Driving /\ ~x.asked =>
       /\ x.cycle \in Nat /\ x.cycle <= newest
       /\ \A r \in x.todo : r \in Runs /\ Cycle[r] = x.cycle
  /\ x.pc \in Driving /\ ~x.asked =>
       /\ x.run \in Runs /\ Cycle[x.run] = x.cycle
       /\ \A q \in late : Cycle[q] = x.cycle => q = x.run

LateOK ==
  /\ newest \in Nat /\ SupersededIsLeft
  /\ \A r \in late : r \in Runs /\ Cycle[r] < newest

InvocationsOK ==
  /\ worker = [w \in Workers |-> worker[w]]
  /\ refused = [w \in Workers |-> refused[w]]
  /\ \A w \in Workers : /\ Fields \subseteq DOMAIN worker[w]
                        /\ Counts(worker[w], refused[w])
                        /\ Held(worker[w]) => lock = w
                        /\ Course(worker[w])

WorkerInv == WorkerConstants /\ LateOK /\ InvocationsOK

-----------------------------------------------------------------------------
(* One invocation moves.                                                   *)

LEMMA InvocationMoves ==
  ASSUME WorkerInv, NEW w \in Workers, NEW x, NEW n, WorkerBecomes(w, x),
         refused' = [refused EXCEPT ![w] = n],
         Fields \subseteq DOMAIN x, Counts(x, n), Held(x) => lock' = w, Course(x)',
         lock' = lock \/ lock \in {w, Absent}, newest' = newest,
         late' = late \/ Held(worker[w]), LateOK'
  PROVE  WorkerInv'
<1>1. /\ worker' = [v \in Workers |-> worker'[v]] /\ refused' = [v \in Workers |-> refused'[v]]
      /\ worker'[w] = x /\ refused'[w] = n
      /\ \A v \in Workers \ {w} : worker'[v] = worker[v] /\ refused'[v] = refused[v]
  BY DEF WorkerInv, InvocationsOK, WorkerBecomes
<1>2. ASSUME NEW v \in Workers \ {w}
      PROVE  /\ Fields \subseteq DOMAIN worker'[v] /\ Counts(worker'[v], refused'[v])
             /\ Held(worker'[v]) => lock' = v
             /\ Course(worker[v])'
  <2>1. /\ Fields \subseteq DOMAIN worker[v] /\ Counts(worker[v], refused[v])
        /\ Held(worker[v]) => lock = v
        /\ Course(worker[v])
    BY DEF WorkerInv, InvocationsOK
  <2>2. Held(worker[v]) => lock' = v
    BY <2>1 DEF WorkerInv, WorkerConstants
  <2>3. Held(worker[v]) => late' = late
    BY <2>1 DEF WorkerInv, InvocationsOK
  <2>4. Course(worker[v])'
    BY <1>1, <2>1, <2>3 DEF Course, Held
  <2> QED BY <1>1, <2>1, <2>2, <2>4
<1>3. Course(worker[w])'
  BY <1>1 DEF Course
<1> QED BY <1>1, <1>2, <1>3 DEF WorkerInv, InvocationsOK, WorkerConstants

LEMMA QuietMove ==
  ASSUME WorkerInv, NEW w \in Workers, NEW x, WorkerBecomes(w, x), Outside,
         Fields \subseteq DOMAIN x, Counts(x, refused[w]), Held(x) => lock = w, Course(x)
  PROVE  WorkerInv'
<1>1. refused' = [refused EXCEPT ![w] = refused[w]]
  BY DEF Outside, WorkerInv, InvocationsOK
<1>2. Course(x)' /\ LateOK'
  BY DEF Outside, Course, WorkerInv, LateOK, SupersededIsLeft
<1> QED BY <1>1, <1>2, InvocationMoves DEF Outside

\* It waits, or only its state file matters any more.
LEMMA Rests ==
  ASSUME WorkerInv, NEW w \in Workers, NEW x, WorkerBecomes(w, x), Outside,
         Fields \subseteq DOMAIN x,
         \/ x.pc \in {"idle", "wait"}
         \/ x.pc = "finish" /\ Held(worker[w])
  PROVE  WorkerInv'
<1>1. Counts(x, refused[w]) /\ Course(x) /\ (Held(x) => lock = w)
  BY DEF WorkerInv, InvocationsOK, Counts, Course, Held, Driving
<1> QED BY <1>1, QuietMove

\* It goes on with the run it drives.
LEMMA GoesOn ==
  ASSUME WorkerInv, NEW w \in Workers, NEW x, WorkerBecomes(w, x), Outside,
         Fields \subseteq DOMAIN x, worker[w].pc \in Driving,
         x.asked = worker[w].asked, x.cycle = worker[w].cycle,
         x.todo = worker[w].todo, x.run = worker[w].run,
         \/ x.pc \in {"work", "account"}
         \/ /\ x.pc \in {"ready", "pack", "call"} /\ x.tried = worker[w].tried
            /\ worker[w].pc \in {"ready", "pack", "call"}
         \/ x.pc = "submit" /\ x.outcome # "malformed"
  PROVE  WorkerInv'
<1>1. Counts(x, refused[w])
  BY DEF WorkerInv, InvocationsOK, Counts
<1>2. Course(x)
  BY DEF WorkerInv, InvocationsOK, Course, Driving
<1>3. lock = w
  BY DEF WorkerInv, InvocationsOK, Held
<1> QED BY <1>1, <1>2, <1>3, QuietMove

-----------------------------------------------------------------------------
(* Every step.                                                             *)

LEMMA RestingFields == Fields \subseteq DOMAIN Resting /\ Resting.pc = "idle"
BY DEF Fields, Resting

LEMMA LeaveKeeps ==
  ASSUME WorkerInv, NEW w \in Workers, Leave(w), Outside, Held(worker[w])
  PROVE  WorkerInv'
<1>1. PICK x : x = [Resting EXCEPT !.pc = "finish", !.state = worker[w].state]
  OBVIOUS
<1>2. Fields \subseteq DOMAIN x /\ x.pc = "finish"
  BY <1>1 DEF Fields, Resting
<1> QED BY <1>1, <1>2, Rests DEF Leave

LEMMA GotoKeeps ==
  ASSUME WorkerInv, NEW w \in Workers, NEW p, WorkerGoto(w, p), Outside,
         worker[w].pc \in Driving,
         \/ p \in {"work", "account"}
         \/ p \in {"pack", "call"} /\ worker[w].pc \in {"ready", "pack", "call"}
  PROVE  WorkerInv'
<1>1. PICK x : x = [worker[w] EXCEPT !.pc = p]
  OBVIOUS
<1>2. /\ Fields \subseteq DOMAIN x /\ x.pc = p /\ x.asked = worker[w].asked
      /\ x.cycle = worker[w].cycle /\ x.todo = worker[w].todo /\ x.run = worker[w].run
      /\ x.tried = worker[w].tried
  BY <1>1 DEF WorkerInv, InvocationsOK, Fields
<1> QED BY <1>1, <1>2, GoesOn DEF WorkerGoto

LEMMA BeginKeeps ==
  ASSUME WorkerInv, NEW w \in Workers,
         \/ Start(w) \/ ProbeOnly(w) \/ Select(w) \/ \E r \in Runs : SelectOne(w, r)
  PROVE  WorkerInv'
<1>0. Fields \subseteq DOMAIN worker[w]
  BY DEF WorkerInv, InvocationsOK
<1>1. CASE Start(w)
  <2>1. PICK dry \in Modes :
          WorkerBecomes(w, [Resting EXCEPT !.pc = "wait", !.dry = dry, !.state = file])
    BY <1>1 DEF Start
  <2>2. PICK x : x = [Resting EXCEPT !.pc = "wait", !.dry = dry, !.state = file]
    OBVIOUS
  <2>3. Fields \subseteq DOMAIN x /\ x.pc = "wait"
    BY <2>2 DEF Fields, Resting
  <2> QED BY <1>1, <2>1, <2>2, <2>3, Rests DEF Start
<1>2. CASE ProbeOnly(w)
  <2>1. PICK f : WorkerBecomes(w, [worker[w] EXCEPT !.pc = "finish", !.state = f])
    BY <1>2 DEF ProbeOnly
  <2>2. PICK x : x = [worker[w] EXCEPT !.pc = "finish", !.state = f]
    OBVIOUS
  <2>3. Fields \subseteq DOMAIN x /\ x.pc = "finish"
    BY <1>0, <2>2 DEF Fields
  <2>4. Held(worker[w])
    BY <1>2 DEF ProbeOnly, WorkerAt, Held
  <2> QED BY <1>2, <2>1, <2>2, <2>3, <2>4, Rests DEF ProbeOnly
<1>3. CASE Select(w)
  <2>1. Held(worker[w]) /\ lock = w
    BY <1>3 DEF Select, WorkerAt, Held, WorkerInv, InvocationsOK
  <2>2. CASE Leave(w)
    BY <1>3, <2>1, <2>2, LeaveKeeps DEF Select
  <2>3. CASE ~Leave(w)
    <3>1. PICK todo : todo = Outstanding(newest)
      OBVIOUS
    <3>2. \A r \in todo : r \in Runs /\ Cycle[r] = newest
      BY <3>1 DEF Outstanding
    <3>3. PICK x : x = [worker[w] EXCEPT !.pc = "scan", !.cycle = newest, !.todo = todo]
      OBVIOUS
    <3>4. WorkerBecomes(w, x)
      BY <1>3, <2>3, <3>1, <3>3 DEF Select
    <3>5. /\ Fields \subseteq DOMAIN x /\ x.pc = "scan" /\ x.cycle = newest
          /\ x.todo = todo
      BY <1>0, <3>3 DEF Fields
    <3>6. Counts(x, refused[w]) /\ Course(x)
      BY <3>2, <3>5 DEF Counts, Course, Driving, WorkerInv, InvocationsOK, LateOK
    <3> QED BY <1>3, <2>1, <3>4, <3>5, <3>6, QuietMove DEF Select
  <2> QED BY <2>2, <2>3
<1>4. ASSUME NEW r \in Runs, SelectOne(w, r) PROVE WorkerInv'
  <2>1. lock = w
    BY <1>4 DEF SelectOne, WorkerAt, Held, WorkerInv, InvocationsOK
  <2>2. PICK x : x = [worker[w] EXCEPT !.pc = "scan", !.cycle = newest, !.todo = {r},
                                       !.asked = TRUE]
    OBVIOUS
  <2>3. Fields \subseteq DOMAIN x /\ x.pc = "scan" /\ x.asked
    BY <1>0, <2>2 DEF Fields
  <2>4. Counts(x, refused[w]) /\ Course(x)
    BY <2>3 DEF Counts, Course, Driving, WorkerInv, InvocationsOK
  <2> QED BY <1>4, <2>1, <2>2, <2>3, <2>4, QuietMove DEF SelectOne
<1> QED BY <1>1, <1>2, <1>3, <1>4

LEMMA ScanKeeps ==
  ASSUME WorkerInv, NEW w \in Workers, Scan(w)
  PROVE  WorkerInv'
<1>1. /\ Fields \subseteq DOMAIN worker[w] /\ Held(worker[w]) /\ lock = w
      /\ Course(worker[w]) /\ worker[w].pc = "scan"
  BY DEF Scan, WorkerAt, Held, WorkerInv, InvocationsOK
<1>2. CASE Leave(w)
  BY <1>1, <1>2, LeaveKeeps DEF Scan
<1>3. CASE ~Leave(w)
  <2>1. PICK r : r = Min(worker[w].todo)
    OBVIOUS
  <2>2. worker[w].cycle = newest /\ worker[w].todo # {}
    BY <1>3 DEF Scan, Superseded
  <2>3. PICK x : x = [worker[w] EXCEPT !.pc = "work", !.run = r, !.todo = @ \ {r}]
    OBVIOUS
  <2>4. WorkerBecomes(w, x)
    BY <1>3, <2>1, <2>3 DEF Scan
  <2>5. /\ Fields \subseteq DOMAIN x /\ x.pc = "work" /\ x.run = r
        /\ x.todo = worker[w].todo \ {r} /\ x.cycle = newest
        /\ x.asked = worker[w].asked
    BY <1>1, <2>2, <2>3 DEF Fields
  <2>6. ASSUME ~x.asked PROVE r \in worker[w].todo
    <3>1. worker[w].todo \subseteq Nat
      BY <1>1, <2>5, <2>6 DEF Course, WorkerInv, WorkerConstants
    <3>2. PICK todo : todo = worker[w].todo
      OBVIOUS
    <3>3. PICK m \in todo : \A y \in todo : m <= y
      BY <2>2, <3>1, <3>2, LeastExists
    <3>4. Min(todo) \in todo
      BY <3>3 DEF Min
    <3> QED BY <2>1, <3>2, <3>4
  <2>7. Course(x)
    BY <1>1, <2>2, <2>5, <2>6 DEF Course, Driving, WorkerInv, LateOK, WorkerConstants
  <2>8. Counts(x, refused[w])
    BY <2>5 DEF Counts, WorkerInv, InvocationsOK
  <2> QED BY <1>1, <2>4, <2>5, <2>7, <2>8, QuietMove DEF Scan
<1> QED BY <1>2, <1>3

\* The drive ends, with or without the record that work was obtained.
LEMMA LostKeeps ==
  ASSUME WorkerInv, NEW w \in Workers, Lost(w), Outside, worker[w].pc \in Driving
  PROVE  WorkerInv'
<1>1. PICK x : x = [worker[w] EXCEPT !.pc = "account", !.obtained = FALSE]
  OBVIOUS
<1>2. /\ Fields \subseteq DOMAIN x /\ x.pc = "account" /\ x.asked = worker[w].asked
      /\ x.cycle = worker[w].cycle /\ x.todo = worker[w].todo /\ x.run = worker[w].run
  BY <1>1 DEF WorkerInv, InvocationsOK, Fields
<1> QED BY <1>1, <1>2, GoesOn DEF Lost

LEMMA WorkKeeps ==
  ASSUME WorkerInv, NEW w \in Workers, GetWork(w)
  PROVE  WorkerInv'
<1>1. /\ Fields \subseteq DOMAIN worker[w] /\ lock = w
      /\ Course(worker[w]) /\ worker[w].pc = "work"
  BY DEF GetWork, WorkerAt, Held, Driving, WorkerInv, InvocationsOK
<1>2. PICK x : /\ \/ x = [worker[w] EXCEPT !.pc = "account"]
                  \/ x = [worker[w] EXCEPT !.pc = "ready", !.obtained = TRUE,
                                           !.roles = @ + 1, !.tried = 0]
               /\ WorkerBecomes(w, x)
  BY DEF GetWork, WorkerGoto
<1>3. /\ Fields \subseteq DOMAIN x /\ x.pc \in {"account", "ready"}
      /\ x.pc = "ready" => x.tried = 0
      /\ x.asked = worker[w].asked /\ x.cycle = worker[w].cycle
      /\ x.todo = worker[w].todo /\ x.run = worker[w].run
  BY <1>1, <1>2 DEF Fields
<1>4. Counts(x, 0)
  BY <1>3 DEF Counts, WorkerInv, WorkerConstants
<1>5. Course(x)
  BY <1>1, <1>3 DEF Course, Driving
<1>6. Course(x)' /\ LateOK'
  BY <1>5 DEF GetWork, Course, WorkerInv, LateOK, SupersededIsLeft
<1> QED BY <1>1, <1>2, <1>3, <1>4, <1>6, InvocationMoves DEF GetWork

\* The verdict on a route changes with the point.
LEMMA RouteKeeps ==
  ASSUME WorkerInv, NEW w \in Workers,
         \/ StillReady(w) \/ StillWaiting(w) \/ ProbeFails(w) \/ ProbeSucceeds(w)
  PROVE  WorkerInv'
<1>0. Fields \subseteq DOMAIN worker[w] /\ worker[w].pc = "ready"
  BY DEF WorkerInv, InvocationsOK, StillReady, StillWaiting, ProbeFails, ProbeSucceeds, WorkerAt
<1>1. CASE StillReady(w)
  BY <1>0, <1>1, GotoKeeps DEF StillReady, Driving
<1>2. CASE NotReady(w, "waiting") /\ Outside
  <2>1. PICK x : x = [worker[w] EXCEPT !.pc = "account",
                        !.state[RoleProvider[Role(w)]] = "waiting", !.unready = TRUE]
    OBVIOUS
  <2>2. /\ Fields \subseteq DOMAIN x /\ x.pc = "account" /\ x.asked = worker[w].asked
        /\ x.cycle = worker[w].cycle /\ x.todo = worker[w].todo /\ x.run = worker[w].run
    BY <1>0, <2>1 DEF Fields
  <2>3. WorkerBecomes(w, x)
    BY <1>2, <2>1 DEF NotReady
  <2> QED BY <1>0, <1>2, <2>2, <2>3, GoesOn DEF Driving
<1>3. CASE ProbeSucceeds(w)
  <2>1. PICK x : x = [worker[w] EXCEPT !.pc = "pack",
                        !.state[RoleProvider[Role(w)]] = "ready"]
    OBVIOUS
  <2>2. /\ Fields \subseteq DOMAIN x /\ x.pc = "pack" /\ x.asked = worker[w].asked
        /\ x.cycle = worker[w].cycle /\ x.todo = worker[w].todo /\ x.run = worker[w].run
        /\ x.tried = worker[w].tried
    BY <1>0, <2>1 DEF Fields
  <2>3. WorkerBecomes(w, x)
    BY <1>3, <2>1 DEF ProbeSucceeds
  <2> QED BY <1>0, <1>3, <2>2, <2>3, GoesOn DEF ProbeSucceeds, Driving
<1> QED BY <1>1, <1>2, <1>3 DEF StillWaiting, ProbeFails

\* What a call does beside its count: the fields it sets.
LEMMA CallFields ==
  ASSUME NEW y, Fields \subseteq DOMAIN y, NEW x, x = [y EXCEPT !.calls = @ + 1]
  PROVE  Fields \subseteq DOMAIN x /\ \A f \in Fields : x[f] = y[f]
BY DEF Fields

\* A call that leads to the end of the drive.
LEMMA CallEnds ==
  ASSUME WorkerInv, NEW w \in Workers,
         TransportFails(w) \/ NotAList(w) \/ HarnessDefect(w)
  PROVE  WorkerInv'
<1>0. Fields \subseteq DOMAIN worker[w] /\ worker[w].pc = "call"
  BY DEF WorkerInv, InvocationsOK, TransportFails, NotAList, HarnessDefect, CanCall, ModelAnswer, WorkerAt
<1>1. PICK y : /\ \/ y = [worker[w] EXCEPT !.pc = "account",
                            !.state[RoleProvider[Role(w)]] = "unknown"]
                  \/ y = [worker[w] EXCEPT !.pc = "account", !.obtained = FALSE]
                  \/ y = [worker[w] EXCEPT !.pc = "account"]
               /\ Called(w, y) /\ Outside
  BY DEF TransportFails, NotAList, HarnessDefect
<1>2. PICK x : x = [y EXCEPT !.calls = @ + 1]
  OBVIOUS
<1>3. /\ Fields \subseteq DOMAIN y /\ y.pc = "account" /\ y.asked = worker[w].asked
      /\ y.cycle = worker[w].cycle /\ y.todo = worker[w].todo /\ y.run = worker[w].run
  BY <1>0, <1>1 DEF Fields
<1>4. /\ Fields \subseteq DOMAIN x /\ x.pc = "account" /\ x.asked = worker[w].asked
      /\ x.cycle = worker[w].cycle /\ x.todo = worker[w].todo /\ x.run = worker[w].run
  BY <1>2, <1>3, CallFields DEF Fields
<1> QED BY <1>0, <1>1, <1>2, <1>4, GoesOn DEF Called, Driving

LEMMA SendFields ==
  ASSUME WorkerInv, NEW w \in Workers, NEW outcome, Sends(w, outcome)
  PROVE  \E x : /\ WorkerBecomes(w, x) /\ Fields \subseteq DOMAIN x /\ x.pc = "submit"
                /\ x.outcome = outcome /\ x.asked = worker[w].asked
                /\ x.cycle = worker[w].cycle /\ x.todo = worker[w].todo
                /\ x.run = worker[w].run
<1>0. Fields \subseteq DOMAIN worker[w]
  BY DEF WorkerInv, InvocationsOK
<1>1. PICK y : y = [worker[w] EXCEPT !.pc = "submit", !.outcome = outcome]
  OBVIOUS
<1>2. PICK x : x = [y EXCEPT !.calls = @ + 1]
  OBVIOUS
<1>3. /\ Fields \subseteq DOMAIN y /\ y.pc = "submit" /\ y.outcome = outcome
      /\ y.asked = worker[w].asked
      /\ y.cycle = worker[w].cycle /\ y.todo = worker[w].todo /\ y.run = worker[w].run
  BY <1>0, <1>1 DEF Fields
<1>4. /\ Fields \subseteq DOMAIN x /\ x.pc = "submit" /\ x.outcome = outcome
      /\ x.asked = worker[w].asked
      /\ x.cycle = worker[w].cycle /\ x.todo = worker[w].todo /\ x.run = worker[w].run
  BY <1>2, <1>3, CallFields DEF Fields
<1> QED BY <1>1, <1>2, <1>4 DEF Sends, Called

LEMMA PassKeeps ==
  ASSUME WorkerInv, NEW w \in Workers, AnswerPasses(w)
  PROVE  WorkerInv'
<1>1. worker[w].pc = "call"
  BY DEF AnswerPasses, ModelAnswer, CanCall, WorkerAt
<1>2. PICK x : /\ WorkerBecomes(w, x) /\ Fields \subseteq DOMAIN x /\ x.pc = "submit"
               /\ x.outcome = "accepted" /\ x.asked = worker[w].asked
               /\ x.cycle = worker[w].cycle /\ x.todo = worker[w].todo
               /\ x.run = worker[w].run
  BY SendFields DEF AnswerPasses
<1> QED BY <1>1, <1>2, GoesOn DEF AnswerPasses, Driving

\* A refused answer is counted; the last one is sent, and is the price.
LEMMA RefusalKeeps ==
  ASSUME WorkerInv, NEW w \in Workers, Unparseable(w) \/ AnswerFails(w)
  PROVE  WorkerInv'
<1>0. /\ Fields \subseteq DOMAIN worker[w] /\ worker[w].pc = "call"
      /\ worker[w].tried = refused[w] /\ refused[w] \in Nat /\ refused[w] <= MaxCorrections
      /\ lock = w /\ Course(worker[w])
  BY DEF WorkerInv, InvocationsOK, Counts, Held, Driving, Unparseable, AnswerFails,
         ModelAnswer, CanCall, WorkerAt
<1>1. MaxCorrections \in Nat /\ Price = MaxCorrections + 1
  BY DEF WorkerInv, WorkerConstants, Price
<1>2. UNCHANGED <<newest, service, file, lock, late>>
  BY DEF Unparseable, AnswerFails
<1>3. ASSUME NEW x, NEW n \in Nat, WorkerBecomes(w, x), refused' = [refused EXCEPT ![w] = n],
             Fields \subseteq DOMAIN x, Counts(x, n), x.pc \in Driving,
             x.asked = worker[w].asked, x.cycle = worker[w].cycle,
             x.todo = worker[w].todo, x.run = worker[w].run
      PROVE  WorkerInv'
  <2>1. Course(x)
    BY <1>0, <1>3 DEF Course, Driving
  <2>2. Course(x)' /\ LateOK'
    BY <1>2, <2>1 DEF Course, WorkerInv, LateOK, SupersededIsLeft
  <2> QED BY <1>0, <1>2, <1>3, <2>2, InvocationMoves
<1>4. ASSUME NEW n \in Nat, refused' = [refused EXCEPT ![w] = @ + n],
             refused[w] + n >= Price, Sends(w, "malformed")
      PROVE  WorkerInv'
  <2>1. PICK x : /\ WorkerBecomes(w, x) /\ Fields \subseteq DOMAIN x /\ x.pc = "submit"
                 /\ x.outcome = "malformed" /\ x.asked = worker[w].asked
                 /\ x.cycle = worker[w].cycle /\ x.todo = worker[w].todo
                 /\ x.run = worker[w].run
    BY <1>4, SendFields
  <2>2. PICK m \in Nat : m = refused[w] + n
    BY <1>0
  <2>3. refused' = [refused EXCEPT ![w] = m] /\ m >= Price
    BY <1>4, <2>2
  <2>4. Counts(x, m)
    BY <2>1, <2>3 DEF Counts
  <2> QED BY <1>3, <2>1, <2>3, <2>4 DEF Driving
<1>5. CASE Unparseable(w)
  <2>1. Price \in Nat /\ refused[w] + Price >= Price
    BY <1>0, <1>1
  <2> QED BY <1>4, <1>5, <2>1 DEF Unparseable, AnswersRefused
<1>6. CASE AnswerFails(w)
  <2>1. refused' = [refused EXCEPT ![w] = @ + 1]
    BY <1>6 DEF AnswerFails, AnswersRefused
  <2>2. CASE worker[w].tried < MaxCorrections /\ Called(w, [worker[w] EXCEPT !.tried = @ + 1])
    <3>1. PICK n \in Nat : n = refused[w] + 1
      BY <1>0
    <3>2. PICK y : y = [worker[w] EXCEPT !.tried = @ + 1]
      OBVIOUS
    <3>3. PICK x : x = [y EXCEPT !.calls = @ + 1]
      OBVIOUS
    <3>4. /\ Fields \subseteq DOMAIN y /\ y.pc = "call" /\ y.tried = n
          /\ y.asked = worker[w].asked
          /\ y.cycle = worker[w].cycle /\ y.todo = worker[w].todo /\ y.run = worker[w].run
      BY <1>0, <3>1, <3>2 DEF Fields
    <3>5. /\ Fields \subseteq DOMAIN x /\ x.pc = "call" /\ x.tried = n
          /\ x.asked = worker[w].asked
          /\ x.cycle = worker[w].cycle /\ x.todo = worker[w].todo /\ x.run = worker[w].run
      BY <3>3, <3>4, CallFields DEF Fields
    <3>6. WorkerBecomes(w, x) /\ refused' = [refused EXCEPT ![w] = n]
      BY <2>1, <2>2, <3>1, <3>2, <3>3 DEF Called
    <3>7. Counts(x, n)
      BY <1>0, <1>1, <2>2, <3>1, <3>5 DEF Counts
    <3> QED BY <1>3, <3>5, <3>6, <3>7 DEF Driving
  <2>3. CASE worker[w].tried >= MaxCorrections /\ Sends(w, "malformed")
    <3>1. refused[w] + 1 >= Price
      BY <1>0, <1>1, <2>3
    <3> QED BY <1>4, <2>1, <2>3, <3>1
  <2> QED BY <1>0, <1>1, <1>6, <2>2, <2>3 DEF AnswerFails
<1> QED BY <1>5, <1>6

\* The attempt is recorded: what it cost is paid, and it is late only for the run
\* that was being driven.
LEMMA RecordKeeps ==
  ASSUME WorkerInv, NEW w \in Workers, SubmitAttempt(w) \/ ReplyLost(w)
  PROVE  WorkerInv'
<1>0. /\ Fields \subseteq DOMAIN worker[w] /\ worker[w].pc = "submit"
      /\ Counts(worker[w], refused[w]) /\ lock = w /\ Course(worker[w])
  BY DEF WorkerInv, InvocationsOK, Held, Driving, SubmitAttempt, ReplyLost, AttemptRecorded, WorkerAt
<1>1. PICK x : /\ \E p \in {"account", "work"} :
                    \/ x = [worker[w] EXCEPT !.pc = p]
                    \/ x = [worker[w] EXCEPT !.pc = p, !.obtained = FALSE]
               /\ WorkerBecomes(w, x)
  BY DEF SubmitAttempt, ReplyLost, WorkerGoto, Lost
<1>2. /\ Fields \subseteq DOMAIN x /\ x.pc \in {"account", "work"}
      /\ x.asked = worker[w].asked
      /\ x.cycle = worker[w].cycle /\ x.todo = worker[w].todo /\ x.run = worker[w].run
  BY <1>0, <1>1 DEF Fields
<1>3. PICK r : r = worker[w].run
  OBVIOUS
<1>4. /\ refused' = IF worker[w].outcome = "malformed"
                      THEN [refused EXCEPT ![w] = @ - Price] ELSE refused
      /\ late' = IF Cycle[r] # newest /\ ~worker[w].asked THEN late \cup {r} ELSE late
      /\ UNCHANGED <<newest, file, lock>>
  BY <1>3 DEF SubmitAttempt, ReplyLost, AttemptRecorded
<1>5. PICK n \in Nat : refused' = [refused EXCEPT ![w] = n]
  <2>1. refused[w] \in Nat /\ Price \in Nat
    BY <1>0 DEF Counts, Price, WorkerInv, WorkerConstants
  <2>2. CASE worker[w].outcome = "malformed"
    <3>1. refused[w] - Price \in Nat
      BY <1>0, <2>1, <2>2 DEF Counts
    <3> QED BY <1>4, <2>2, <3>1
  <2>3. CASE worker[w].outcome # "malformed"
    <3>1. refused' = [refused EXCEPT ![w] = refused[w]]
      BY <1>4, <2>3 DEF WorkerInv, InvocationsOK
    <3> QED BY <2>1, <3>1
  <2> QED BY <2>2, <2>3
<1>6. Counts(x, n)
  BY <1>2 DEF Counts
<1>7. LateOK' /\ Course(x)'
  <2>1. CASE worker[w].asked
    BY <1>2, <1>4, <2>1 DEF LateOK, Course, SupersededIsLeft, WorkerInv
  <2>2. CASE ~worker[w].asked
    <3>1. /\ r \in Runs /\ Cycle[r] = worker[w].cycle /\ worker[w].cycle \in Nat
          /\ worker[w].cycle <= newest /\ newest \in Nat
          /\ \A q \in late : Cycle[q] = worker[w].cycle => q = r
          /\ \A q \in worker[w].todo : q \in Runs /\ Cycle[q] = worker[w].cycle
      BY <1>0, <1>3, <2>2 DEF Course, Driving, WorkerInv, LateOK
    <3>2. late' = late \/ (late' = late \cup {r} /\ Cycle[r] < newest)
      BY <1>4, <3>1
    <3>3. LateOK'
      BY <1>4, <3>1, <3>2 DEF WorkerInv, LateOK, SupersededIsLeft
    <3>4. Course(x)'
      BY <1>2, <1>3, <1>4, <3>1, <3>2 DEF Course
    <3> QED BY <3>3, <3>4
  <2> QED BY <2>1, <2>2
<1>8. Held(worker[w])
  BY <1>0 DEF Held, Driving
<1> QED BY <1>0, <1>1, <1>2, <1>4, <1>5, <1>6, <1>7, <1>8, InvocationMoves

LEMMA AccountKeeps ==
  ASSUME WorkerInv, NEW w \in Workers, Account(w)
  PROVE  WorkerInv'
<1>0. /\ Fields \subseteq DOMAIN worker[w] /\ worker[w].pc = "account"
      /\ lock = w /\ Course(worker[w])
  BY DEF WorkerInv, InvocationsOK, Held, Driving, Account, WorkerAt
<1>1. PICK m, x : /\ \/ x = [Resting EXCEPT !.pc = "finish", !.state = worker[w].state]
                     \/ x = [Resting EXCEPT !.pc = "scan", !.asked = worker[w].asked,
                               !.dry = worker[w].dry, !.state = worker[w].state,
                               !.cycle = worker[w].cycle, !.todo = worker[w].todo,
                               !.calls = worker[w].calls, !.runs = m]
                  /\ WorkerBecomes(w, x)
  BY DEF Account, Leave
<1>2. /\ Fields \subseteq DOMAIN x /\ x.pc \in {"finish", "scan"}
      /\ x.pc = "scan" => /\ x.asked = worker[w].asked
                          /\ x.cycle = worker[w].cycle /\ x.todo = worker[w].todo
  BY <1>1 DEF Fields, Resting
<1>3. Counts(x, 0) /\ Course(x)
  BY <1>0, <1>2 DEF Counts, Course, Driving
<1>4. Course(x)' /\ LateOK'
  BY <1>3 DEF Account, Course, WorkerInv, LateOK, SupersededIsLeft
<1> QED BY <1>0, <1>1, <1>2, <1>3, <1>4, InvocationMoves DEF Account

\* The process is gone, and with it the lock it had.
LEMMA EndKeeps ==
  ASSUME WorkerInv, NEW w \in Workers, Finish(w) \/ Die(w)
  PROVE  WorkerInv'
<1>1. /\ WorkerBecomes(w, Resting) /\ UNCHANGED <<newest, late, refused>>
      /\ lock' = lock \/ lock \in {w, Absent}
  BY DEF Finish, Die, WorkerAt, Held, WorkerInv, InvocationsOK
<1>2. refused[w] \in Nat /\ refused' = [refused EXCEPT ![w] = refused[w]]
  BY <1>1 DEF WorkerInv, InvocationsOK, Counts
<1>3. ~Held(Resting) /\ Counts(Resting, refused[w]) /\ Course(Resting)'
  BY <1>2, RestingFields DEF Held, Counts, Course, Driving
<1>4. LateOK'
  BY <1>1 DEF WorkerInv, LateOK, SupersededIsLeft
<1> QED BY <1>1, <1>2, <1>3, <1>4, RestingFields, InvocationMoves

LEMMA LockKeeps ==
  ASSUME WorkerInv, NEW w \in Workers, Lock(w)
  PROVE  WorkerInv'
<1>1. PICK x : x = [worker[w] EXCEPT !.pc = "select"] /\ WorkerBecomes(w, x)
  BY DEF Lock, WorkerGoto
<1>2. Fields \subseteq DOMAIN x /\ x.pc = "select"
  BY <1>1 DEF Fields, WorkerInv, InvocationsOK
<1>3. refused[w] \in Nat /\ refused' = [refused EXCEPT ![w] = refused[w]]
  BY DEF Lock, WorkerInv, InvocationsOK, Counts
<1>4. Counts(x, refused[w]) /\ Course(x)'
  BY <1>2, <1>3 DEF Counts, Course, Driving
<1>5. LateOK'
  BY DEF Lock, WorkerInv, LateOK, SupersededIsLeft
<1> QED BY <1>1, <1>2, <1>3, <1>4, <1>5, InvocationMoves DEF Lock

\* The other ways a drive goes on or ends.
LEMMA TurnKeeps ==
  ASSUME WorkerInv, NEW w \in Workers,
         \/ PackFetched(w) \/ PackRefused(w) \/ NoCallLeft(w) \/ NotSubmitted(w)
         \/ OutOfTime(w) \/ RequestFails(w)
  PROVE  WorkerInv'
<1>1. CASE Leave(w)
  <2>1. Held(worker[w]) /\ Outside
    BY <1>1 DEF PackFetched, PackRefused, NoCallLeft, NotSubmitted, OutOfTime,
                RequestFails, WorkerAt, Held, Driving
  <2> QED BY <1>1, <2>1, LeaveKeeps
<1>2. CASE ~Leave(w)
  <2>1. /\ worker[w].pc \in Driving /\ Outside
        /\ WorkerGoto(w, "account") \/ Lost(w) \/ (WorkerGoto(w, "call") /\ worker[w].pc = "pack")
    BY <1>2 DEF PackFetched, PackRefused, NoCallLeft, NotSubmitted, OutOfTime,
                RequestFails, WorkerAt, Driving
  <2> QED BY <2>1, GotoKeeps, LostKeeps
<1> QED BY <1>1, <1>2

\* The cycle moves on, a run is created, a verdict ages.
LEMMA AroundKeeps ==
  ASSUME WorkerInv, NewCycle \/ (\E r \in Runs : CreateRun(r))
                      \/ \E p \in RoutedProviders : Age(p)
  PROVE  WorkerInv'
<1>1. CASE NewCycle
  <2>1. /\ newest' = newest + 1 /\ newest \in Nat
        /\ UNCHANGED <<lock, worker, late, refused>>
    BY <1>1 DEF NewCycle, WorkerInv, LateOK
  <2>2. LateOK'
    <3>1. \A r \in late : r \in Runs /\ Cycle[r] \in Nat /\ Cycle[r] < newest
      BY DEF WorkerInv, WorkerConstants, LateOK, SupersededIsLeft
    <3>2. \A r \in late : Cycle[r] < newest'
      BY <2>1, <3>1
    <3>3. newest' \in Nat /\ late' = late
      BY <2>1
    <3> QED BY <3>1, <3>2, <3>3 DEF WorkerInv, LateOK, SupersededIsLeft
  <2>3. \A w \in Workers : Course(worker[w])'
    BY <2>1 DEF WorkerInv, InvocationsOK, Course
  <2> QED BY <2>1, <2>2, <2>3 DEF WorkerInv, InvocationsOK, WorkerConstants
<1>2. CASE \E r \in Runs : CreateRun(r)
  <2>1. UNCHANGED <<newest, lock, worker, late, refused>>
    BY <1>2 DEF CreateRun
  <2> QED BY <2>1 DEF WorkerInv, InvocationsOK, WorkerConstants, LateOK,
                      SupersededIsLeft, Course
<1>3. ASSUME NEW p \in RoutedProviders, Age(p) PROVE WorkerInv'
  <2>1. /\ worker' = [w \in Workers |-> [worker[w] EXCEPT !.state = Aged(@, p)]]
        /\ UNCHANGED <<newest, lock, late, refused>>
    BY <1>3 DEF Age
  <2>2. ASSUME NEW w \in Workers
        PROVE  /\ Fields \subseteq DOMAIN worker'[w] /\ worker'[w].pc = worker[w].pc
               /\ worker'[w].asked = worker[w].asked /\ worker'[w].cycle = worker[w].cycle
               /\ worker'[w].todo = worker[w].todo /\ worker'[w].run = worker[w].run
               /\ worker'[w].tried = worker[w].tried
               /\ worker'[w].outcome = worker[w].outcome
    <3>1. PICK a : a = Aged(worker[w].state, p)
      OBVIOUS
    <3>2. worker'[w] = [worker[w] EXCEPT !.state = a]
      BY <2>1, <3>1
    <3> QED BY <3>2 DEF WorkerInv, InvocationsOK, Fields
  <2>3. ASSUME NEW w \in Workers
        PROVE  /\ Counts(worker'[w], refused'[w]) /\ (Held(worker'[w]) => lock' = w)
               /\ Course(worker[w])'
    BY <2>1, <2>2 DEF WorkerInv, InvocationsOK, Counts, Held, Course
  <2> QED BY <2>1, <2>2, <2>3 DEF WorkerInv, InvocationsOK, WorkerConstants, LateOK,
                                  SupersededIsLeft
<1> QED BY <1>1, <1>2, <1>3

-----------------------------------------------------------------------------
(* The theorems.                                                           *)

LEMMA WorkerInitially == WorkerConstants /\ WorkerInit => WorkerInv
<1> SUFFICES ASSUME WorkerConstants, WorkerInit PROVE WorkerInv
  OBVIOUS
<1>1. /\ newest = 1 /\ late = {} /\ worker = [w \in Workers |-> Resting]
      /\ refused = [w \in Workers |-> 0]
  BY DEF WorkerInit
<1>2. Counts(Resting, 0) /\ ~Held(Resting) /\ Course(Resting)
  BY RestingFields DEF Counts, Held, Course, Driving
<1> QED BY <1>1, <1>2, RestingFields DEF WorkerInv, InvocationsOK, LateOK, SupersededIsLeft, Course

LEMMA WorkerSteps ==
  ASSUME WorkerInv, [WorkerNext]_workerVars
  PROVE  WorkerInv'
<1>1. CASE UNCHANGED workerVars
  BY <1>1 DEF workerVars, WorkerInv, WorkerConstants, InvocationsOK, LateOK,
              SupersededIsLeft, Course
<1>2. ASSUME NEW w \in Workers, Drive(w) PROVE WorkerInv'
  BY <1>2, BeginKeeps, LockKeeps, ScanKeeps, WorkKeeps, RouteKeeps, TurnKeeps, CallEnds,
     PassKeeps, RefusalKeeps, RecordKeeps, AccountKeeps, EndKeeps DEF Drive
<1>3. ASSUME NEW w \in Workers, Disturb(w) PROVE WorkerInv'
  BY <1>3, BeginKeeps, TurnKeeps, EndKeeps DEF Disturb
<1> QED BY <1>1, <1>2, <1>3, AroundKeeps DEF WorkerNext

\* The invariant that the properties of the worker follow from holds of every
\* invocation of committee_worker.py, whatever disturbs it.
THEOREM WorkerHolds == WorkerConstants /\ WorkerSpec => []WorkerInv
<1>1. WorkerConstants /\ WorkerInit => WorkerInv
  BY WorkerInitially
<1>2. WorkerInv /\ [WorkerNext]_workerVars => WorkerInv'
  BY WorkerSteps
<1> QED BY <1>1, <1>2, PTL DEF WorkerSpec

\* An attempt is paid for by the model: whatever is sent to the service as malformed
\* follows an answer without JSON or one more refused answer than there are
\* corrections, never a failure of the runner, the transport or the budget
\* (drive_run, transport_failure).
THEOREM EarnedAttempts == WorkerConstants /\ WorkerSpec => []AttemptsAreEarned
<1>1. WorkerInv => AttemptsAreEarned
  BY DEF WorkerInv, InvocationsOK, Counts, AttemptsAreEarned
<1> QED BY <1>1, WorkerHolds, PTL

\* Of a cycle with a successor at most one run still moves by the timer's hand, the
\* one that was being driven when the successor came, whoever creates cycles when
\* (superseded, the loop over the runs).
THEOREM SupersededLeft == WorkerConstants /\ WorkerSpec => []SupersededIsLeft
<1>1. WorkerInv => SupersededIsLeft
  BY DEF WorkerInv, LateOK
<1> QED BY <1>1, WorkerHolds, PTL

-----------------------------------------------------------------------------
(* The run.                                                                 *)

Reviewed == /\ BothNeutrals
            /\ \/ comparison = "READY_TO_SCORE"
               \/ \E role \in Reviewers : verdict[role] = "resolved"

\* What a transition shows of the run.
RowOK(row) ==
  /\ row.to \in {"RED_TEAM_REQUIRED", "ARBITER_REQUIRED"} => BothNeutrals
  /\ row.to = "ARBITER_REQUIRED" => assessed["red_team"] # None
  /\ row.to = "READY_TO_SCORE" => Reviewed

AnswerOK(q) ==
  /\ q.answer \in Answers
  /\ q.answer.outcome = "accepted" =>
       /\ q.answer.provider \in Providers
       /\ q.role \in Reviewers => q.answer.verdict \in Verdicts

WorkOK(q) ==
  \/ q.number <= issued[q.role]
  \/ q.number = Len(attempts[q.role]) + 1 /\ assessed[q.role] = None

\* What a request at its point may rely on.
PointOK(q) ==
  /\ q.pc = "insert" => RowOK(q.row) /\ q.then \in {"recover", "issue"}
  /\ q.pc = "compare" => BothNeutrals
  /\ q.pc = "route" => comparison # None
  /\ q.pc = "snapshot" => Reviewed
  /\ q.pc = "work" => WorkOK(q)
  /\ q.pc = "attempt" => q.number <= issued[q.role]
  /\ q.pc \in {"attempt", "judge"} => AnswerOK(q)

WorldType == /\ log \in Seq(Rows)
             /\ issued \in [Roles -> 0..MaxAttempts]
             /\ attempts \in [Roles -> Seq(Outcomes)]
             /\ assessed \in [Roles -> Providers \cup {None}]
             /\ verdict \in [Reviewers -> {"resolved", "unresolved", None}]
             /\ comparison \in Routes \cup {None}
             /\ scored \in BOOLEAN

World == /\ WorldType
         /\ OneCallAtATime /\ AcceptanceIsWhole /\ ProvidersIndependent
         /\ assessed["arbiter"] # None => assessed["red_team"] # None
         /\ comparison # None => BothNeutrals
         /\ \A row \in RowsOf : RowOK(row)
         /\ scored => Reviewed

Inv == /\ World
       /\ req \in [Requests -> Request]
       /\ \A r \in Requests : PointOK(req[r])

\* The tables only grow, and only open work is answered.
Grows ==
  /\ \A role \in Roles :
       /\ assessed[role] # None => assessed'[role] = assessed[role]
       /\ issued[role] <= issued'[role]
       /\ ~Open(role) => /\ attempts'[role] = attempts[role]
                         /\ assessed'[role] = assessed[role]
  /\ \A role \in Reviewers :
       verdict[role] # None => verdict'[role] = verdict[role]
  /\ comparison # None => comparison' = comparison

-----------------------------------------------------------------------------
USE DEF MaxAttempts, Neutrals, Reviewers, Roles, Outcomes, Verdicts

LEMMA AppendRows ==
  ASSUME NEW S, NEW s \in Seq(S), NEW e \in S
  PROVE  {Append(s, e)[i] : i \in 1..Len(Append(s, e))}
           = {s[i] : i \in 1..Len(s)} \cup {e}
<1> DEFINE t == Append(s, e)
<1>1. Len(t) = Len(s) + 1 /\ t[Len(s) + 1] = e
        /\ \A i \in 1..Len(s) : t[i] = s[i]
  OBVIOUS
<1>2. Len(s) \in Nat
  OBVIOUS
<1>3. ASSUME NEW x
      PROVE  x \in {t[i] : i \in 1..Len(t)}
               <=> x \in {s[i] : i \in 1..Len(s)} \cup {e}
  <2> HIDE DEF t
  <2>1. 1..Len(t) = 1..Len(s) \cup {Len(s) + 1}
    BY <1>1, <1>2
  <2> QED
    BY <2>1, <1>1, <1>2
<1> QED
  BY <1>3

\* The run is in the state of some transition of its log.
LEMMA StateOfRow ==
  ASSUME WorldType
  PROVE  /\ State \in States \cup {"none"}
         /\ State # "none" => \E row \in RowsOf : row.to = State
<1>1. CASE log = <<>>
  BY <1>1 DEF State
<1>2. CASE log # <<>>
  <2>1. Len(log) \in 1..Len(log) /\ log[Len(log)] \in Rows
    BY <1>2 DEF WorldType
  <2>2. State = log[Len(log)].to
    BY <1>2 DEF State, Last
  <2> QED
    BY <2>1, <2>2 DEF RowsOf, Rows
<1> QED
  BY <1>1, <1>2

LEMMA ReviewedLasts ==
  ASSUME Grows, WorldType
  PROVE  /\ BothNeutrals => BothNeutrals'
         /\ Reviewed => Reviewed'
         /\ \A row : RowOK(row) => RowOK(row)'
<1>1. BothNeutrals => BothNeutrals'
  BY DEF Grows, BothNeutrals
<1>2. \A role \in Reviewers : verdict[role] = "resolved" =>
        verdict[role] # None
  BY NoneAssumption
<1>3. Reviewed => Reviewed'
  BY <1>1, <1>2, NoneAssumption DEF Grows, Reviewed
<1> QED
  BY <1>1, <1>3 DEF Grows, RowOK

-----------------------------------------------------------------------------
(* Frame lemmas: one request's record is replaced, the tables stay or grow. *)

LEMMA IdleType ==
  /\ NoRow \in Rows
  /\ Idle \in Request
  /\ \A p \in Points : [Idle EXCEPT !.pc = p] \in Request
BY DEF NoRow, Row, Rows, States, Final, Causes, Idle, Request, Points

LEMMA QuietStep ==
  ASSUME Inv, NEW r \in Requests, NEW q \in Request, PointOK(q), Become(r, q),
         UNCHANGED <<log, issued, assessments, reports>>
  PROVE  Inv'
<1>1. World'
  <2> USE DEF assessments, reports
  <2>1. WorldType' /\ OneCallAtATime' /\ ProvidersIndependent'
    BY DEF Inv, World, WorldType, OneCallAtATime, ProvidersIndependent
  <2>2. AcceptanceIsWhole'
    BY DEF Inv, World, AcceptanceIsWhole, RowsOf
  <2>3. BothNeutrals' = BothNeutrals /\ Reviewed' = Reviewed
    BY DEF BothNeutrals, Reviewed
  <2>4. (\A row \in RowsOf : RowOK(row))'
    BY <2>3 DEF Inv, World, RowsOf, RowOK
  <2> QED
    BY <2>1, <2>2, <2>3, <2>4 DEF Inv, World
<1>2. \A p : PointOK(p) => PointOK(p)'
  BY DEF PointOK, RowOK, BothNeutrals, Reviewed, WorkOK, AnswerOK,
         assessments, reports
<1>3. req' \in [Requests -> Request]
        /\ \A s \in Requests : req'[s] = q \/ req'[s] = req[s]
  BY DEF Inv, Become
<1> QED
  BY <1>1, <1>2, <1>3 DEF Inv

LEMMA PointLasts ==
  ASSUME Inv, Grows, World', NEW p \in Request, PointOK(p)
  PROVE  PointOK(p)'
<1>1. WorldType /\ WorldType' /\ OneCallAtATime
  BY DEF Inv, World
<1>2. p.role \in Roles /\ p.number \in 1..MaxAttempts
  BY DEF Request
<1>3. issued[p.role] <= issued'[p.role]
  BY <1>2 DEF Grows
<1>4. issued[p.role] \in Nat /\ issued'[p.role] \in Nat
        /\ Len(attempts[p.role]) \in Nat
  <2>1. issued[p.role] \in 0..MaxAttempts /\ issued'[p.role] \in 0..MaxAttempts
    BY <1>1, <1>2 DEF WorldType
  <2>2. attempts[p.role] \in Seq(Outcomes)
    BY <1>1, <1>2 DEF WorldType
  <2> QED
    BY <2>1, <2>2
<1>5. WorkOK(p) => WorkOK(p)'
  <2>1. CASE p.number <= issued[p.role]
    BY <2>1, <1>2, <1>3, <1>4 DEF WorkOK
  <2>2. CASE p.number = Len(attempts[p.role]) + 1 /\ Open(p.role)
    BY <2>2, <1>2, <1>3, <1>4 DEF WorkOK, Open
  <2>3. CASE ~Open(p.role)
    BY <2>3, <1>2, <1>3, <1>4 DEF WorkOK, Grows
  <2> QED
    BY <2>1, <2>2, <2>3 DEF WorkOK
<1>6. p.number <= issued[p.role] => p.number <= issued'[p.role]
  BY <1>2, <1>3, <1>4
<1>7. BothNeutrals => BothNeutrals'
  BY <1>1, ReviewedLasts
<1>8. Reviewed => Reviewed'
  BY <1>1, ReviewedLasts
<1>9. RowOK(p.row) => RowOK(p.row)'
  BY <1>1, ReviewedLasts
<1>10. comparison # None => comparison' # None
  BY DEF Grows
<1>11. AnswerOK(p) => AnswerOK(p)'
  BY DEF AnswerOK
<1> QED
  BY <1>5, <1>6, <1>7, <1>8, <1>9, <1>10, <1>11 DEF PointOK

LEMMA WorldStep ==
  ASSUME Inv, Grows, World', NEW r \in Requests, NEW q \in Request, Become(r, q),
         PointOK(q)'
  PROVE  Inv'
<1>1. req' \in [Requests -> Request]
        /\ \A s \in Requests : req'[s] = q \/ req'[s] = req[s]
  BY DEF Inv, Become
<1>2. \A p \in Request : PointOK(p) => PointOK(p)'
  BY PointLasts
<1>3. (\A s \in Requests : PointOK(req[s]))'
  BY <1>1, <1>2 DEF Inv
<1> QED
  BY <1>1, <1>3 DEF Inv
-----------------------------------------------------------------------------
(* The requests' quiet steps.                                              *)

LEMMA StateShows ==
  ASSUME Inv
  PROVE  /\ State \in States \cup {"none"}
         /\ State \in {"RED_TEAM_REQUIRED", "ARBITER_REQUIRED"} => BothNeutrals
         /\ State = "ARBITER_REQUIRED" => assessed["red_team"] # None
         /\ State = "READY_TO_SCORE" => Reviewed
BY StateOfRow DEF Inv, World, RowOK

\* A request that begins another stretch without holding anything.
LEMMA EnterStep ==
  ASSUME Inv, NEW r \in Requests,
         NEW p \in {"idle", "recover", "base", "issue"},
         Enter(r, p) \/ Goto(r, p),
         UNCHANGED <<log, issued, assessments, reports>>
  PROVE  Inv'
<1>1. \A q \in Request : q.pc = p => PointOK(q)
  BY DEF PointOK
<1>2. CASE Enter(r, p)
  <2>1. PICK q : q = [Idle EXCEPT !.pc = p]
    OBVIOUS
  <2>2. q \in Request /\ q.pc = p
    BY <2>1, IdleType DEF Points, Idle
  <2> QED
    BY <1>1, <1>2, <2>1, <2>2, QuietStep DEF Enter
<1>3. CASE Goto(r, p)
  <2>1. PICK q : q = [req[r] EXCEPT !.pc = p]
    OBVIOUS
  <2>2. q \in Request /\ q.pc = p
    BY <2>1 DEF Points, Inv, Request
  <2> QED
    BY <1>1, <1>3, <2>1, <2>2, QuietStep DEF Goto
<1> QED
  BY <1>2, <1>3

LEMMA ProposeStep ==
  ASSUME Inv, NEW r \in Requests, NEW row \in Rows, RowOK(row),
         NEW then \in {"recover", "issue"}, NEW todo \in SUBSET Roles,
         Propose(r, row, then, todo),
         UNCHANGED <<log, issued, assessments, reports>>
  PROVE  Inv'
<1>1. PICK q : q = [Idle EXCEPT !.pc = "insert", !.row = row, !.then = then,
                                !.todo = todo]
  OBVIOUS
<1>2. q \in Request /\ q.pc = "insert" /\ q.row = row /\ q.then = then
  <2>1. PICK i \in Request : i = Idle
    BY IdleType
  <2>2. /\ i = [pc |-> i.pc, then |-> i.then, row |-> i.row, todo |-> i.todo,
               role |-> i.role, number |-> i.number, answer |-> i.answer]
        /\ i.role \in Roles /\ i.number \in 1..MaxAttempts
        /\ i.answer \in Answers \cup {None}
    BY <2>1 DEF Request
  <2>3. q = [pc |-> "insert", then |-> then, row |-> row, todo |-> todo,
             role |-> i.role, number |-> i.number, answer |-> i.answer]
    BY <1>1, <2>1, <2>2
  <2> QED
    BY <2>2, <2>3 DEF Request, Points
<1>3. PointOK(q)
  BY <1>2 DEF PointOK
<1> QED
  BY <1>1, <1>2, <1>3, QuietStep DEF Propose

LEMMA CreateStep ==
  ASSUME Inv, NEW r \in Requests, Create(r)
  PROVE  Inv'
<1>1. PICK row : row = Row("none", "PENDING_NEUTRALS", "CREATED")
  OBVIOUS
<1>2. row \in Rows /\ RowOK(row)
  BY <1>1 DEF Row, Rows, States, Causes, RowOK
<1> QED
  BY <1>1, <1>2, ProposeStep, EnterStep DEF Create

LEMMA PollStep ==
  ASSUME Inv, NEW r \in Requests, Poll(r)
  PROVE  Inv'
BY EnterStep DEF Poll

\* The comparison routes to a stage its row has evidence for.
LEMMA RouteRowOK ==
  ASSUME Inv, comparison # None
  PROVE  RouteRow \in Rows /\ RowOK(RouteRow)
<1>1. comparison \in Routes /\ BothNeutrals
  BY DEF Inv, World, WorldType
<1> QED
  BY <1>1 DEF RouteRow, Row, Rows, Routes, States, Causes, RowOK, Reviewed

LEMMA RecoverStep ==
  ASSUME Inv, NEW r \in Requests, Recover(r)
  PROVE  Inv'
<1>1. UNCHANGED <<log, issued, assessments, reports>>
  BY DEF Recover
<1>2. CASE BothNeutrals /\ Goto(r, "compare")
  <2>1. PICK q : q = [req[r] EXCEPT !.pc = "compare"]
    OBVIOUS
  <2>2. q \in Request /\ PointOK(q)
    BY <1>2, <2>1 DEF Inv, Request, Points, PointOK
  <2> QED
    BY <1>1, <1>2, <2>1, <2>2, QuietStep DEF Goto
<1>3. CASE comparison # None /\ Propose(r, RouteRow, "recover", {})
  <2>1. PICK row : row = RouteRow
    OBVIOUS
  <2>2. row \in Rows /\ RowOK(row)
    BY <1>3, <2>1, RouteRowOK
  <2> QED
    BY <1>1, <1>3, <2>1, <2>2, ProposeStep
<1>4. CASE State = "READY_TO_SCORE" /\ Goto(r, "snapshot")
  <2>1. PICK q : q = [req[r] EXCEPT !.pc = "snapshot"]
    OBVIOUS
  <2>2. q \in Request /\ PointOK(q)
    BY <1>4, <2>1, StateShows DEF Inv, Request, Points, PointOK
  <2> QED
    BY <1>1, <1>4, <2>1, <2>2, QuietStep DEF Goto
<1>5. CASE Goto(r, "base")
  BY <1>1, <1>5, EnterStep
<1> QED
  BY <1>2, <1>3, <1>4, <1>5 DEF Recover

LEMMA RouteStep ==
  ASSUME Inv, NEW r \in Requests, Route(r)
  PROVE  Inv'
<1>1. comparison # None
  BY DEF Route, At, Inv, PointOK
<1>2. PICK row : row = RouteRow
  OBVIOUS
<1>3. row \in Rows /\ RowOK(row)
  BY <1>1, <1>2, RouteRowOK
<1> QED
  BY <1>2, <1>3, ProposeStep, EnterStep DEF Route

LEMMA BaseStep ==
  ASSUME Inv, NEW r \in Requests, Base(r)
  PROVE  Inv'
<1>1. PICK todo \in SUBSET Roles : todo = {role \in Roles : Required(role)}
  OBVIOUS
<1>2. PICK q : q = [req[r] EXCEPT !.pc = "issue", !.todo = todo]
  OBVIOUS
<1>3. q \in Request /\ q.pc = "issue"
  <2>1. req[r] \in Request
    BY DEF Inv
  <2> QED
    BY <1>2, <2>1 DEF Request, Points
<1>4. PointOK(q)
  BY <1>3 DEF PointOK
<1> QED
  BY <1>1, <1>2, <1>3, <1>4, QuietStep DEF Base

\* The rest of the required roles is taken up.
LEMMA ProceedType ==
  ASSUME Inv, NEW r \in Requests, NEW role
  PROVE  /\ Rest(r, role) \in SUBSET Roles
         /\ \E q \in Request :
              /\ q = [Idle EXCEPT !.pc = "issue", !.todo = Rest(r, role)]
              /\ PointOK(q) /\ PointOK(q)'
<1>1. Rest(r, role) \in SUBSET Roles
  BY DEF Rest, Inv, Request
<1>2. PICK todo \in SUBSET Roles : todo = Rest(r, role)
  BY <1>1
<1>3. PICK i \in Request : i = Idle
  BY IdleType
<1>4. PICK q : q = [i EXCEPT !.pc = "issue", !.todo = todo]
  OBVIOUS
<1>5. q \in Request /\ q.pc = "issue"
  BY <1>4 DEF Request, Points
<1>6. PointOK(q) /\ PointOK(q)'
  BY <1>5 DEF PointOK
<1> QED
  BY <1>1, <1>2, <1>3, <1>4, <1>5, <1>6

LEMMA IssueStep ==
  ASSUME Inv, NEW r \in Requests, Answered(r) \/ Keep(r)
  PROVE  Inv'
<1>1. CASE Answered(r)
  BY <1>1, EnterStep DEF Answered, Done
<1>2. CASE Keep(r)
  <2>1. PICK role \in Roles : Proceed(r, role)
    BY <1>2 DEF Keep
  <2>2. PICK q \in Request :
          /\ q = [Idle EXCEPT !.pc = "issue", !.todo = Rest(r, role)]
          /\ PointOK(q)
    BY ProceedType
  <2> QED
    BY <1>2, <2>1, <2>2, QuietStep DEF Proceed, Keep
<1> QED
  BY <1>1, <1>2

LEMMA ExhaustionRowOK ==
  ASSUME Inv, NEW role \in Roles, NEW last
  PROVE  ExhaustionRow(role, last) \in Rows /\ RowOK(ExhaustionRow(role, last))
<1>1. PICK from \in States \cup {"none"} : from = State
  BY StateShows
<1>2. PICK to \in {"BLOCKED", "ESCALATE"} :
        to = IF last = "unavailable" THEN "BLOCKED" ELSE "ESCALATE"
  OBVIOUS
<1> QED
  BY <1>1, <1>2 DEF ExhaustionRow, Row, Rows, States, Final, Causes, RowOK

LEMMA DeriveStep ==
  ASSUME Inv, NEW r \in Requests, DeriveExhaustion(r)
  PROVE  Inv'
<1>1. PICK role \in Roles :
        Propose(r, ExhaustionRow(role, LastOutcome(role)), "issue",
                Rest(r, role))
  BY DEF DeriveExhaustion
<1>2. PICK row : row = ExhaustionRow(role, LastOutcome(role))
  OBVIOUS
<1>3. row \in Rows /\ RowOK(row)
  BY <1>2, ExhaustionRowOK
<1>4. PICK todo \in SUBSET Roles : todo = Rest(r, role)
  BY ProceedType
<1> QED
  BY <1>1, <1>2, <1>3, <1>4, ProposeStep DEF DeriveExhaustion

LEMMA ChooseStep ==
  ASSUME Inv, NEW r \in Requests, ChooseWork(r)
  PROVE  Inv'
<1>1. PICK role \in Roles :
        /\ Wanted(r, role) /\ ~Exhausted(role)
        /\ Become(r, [req[r] EXCEPT !.pc = "work", !.role = role,
                                    !.number = Len(attempts[role]) + 1])
  BY DEF ChooseWork
<1>2. PICK number : number = Len(attempts[role]) + 1
  OBVIOUS
<1>3. number \in 1..MaxAttempts
  <2>1. Len(attempts[role]) \in Nat
    BY DEF Inv, World, WorldType
  <2> QED
    BY <1>1, <1>2, <2>1 DEF Exhausted
<1>4. PICK q : q = [req[r] EXCEPT !.pc = "work", !.role = role,
                                  !.number = number]
  OBVIOUS
<1>5. q \in Request /\ q.pc = "work" /\ q.role = role /\ q.number = number
  <2>1. req[r] \in Request
    BY DEF Inv
  <2> QED
    BY <1>3, <1>4, <2>1 DEF Request, Points
<1>6. PointOK(q)
  BY <1>1, <1>2, <1>5 DEF PointOK, WorkOK, Wanted, Required
<1> QED
  BY <1>1, <1>2, <1>4, <1>5, <1>6, QuietStep DEF ChooseWork

LEMMA OffersOK ==
  ASSUME NEW role \in Roles, NEW a \in Offers(role)
  PROVE  /\ a \in Answers
         /\ a.outcome = "accepted" =>
              /\ a.provider \in Providers
              /\ role \in Reviewers => a.verdict \in Verdicts
BY FailureAssumption DEF Offers, Answers

LEMMA SubmitStep ==
  ASSUME Inv, NEW r \in Requests, NEW role \in Roles, NEW a \in Offers(role),
         Submit(r, role, a)
  PROVE  Inv'
<1>1. PICK number : number = issued[role]
  OBVIOUS
<1>2. number \in 1..MaxAttempts
  <2>1. Len(attempts[role]) \in Nat /\ issued[role] \in 0..MaxAttempts
    BY DEF Inv, World, WorldType
  <2> QED
    BY <1>1, <2>1 DEF Submit, Open
<1>3. PICK q : q = [req[r] EXCEPT !.pc = "attempt", !.role = role,
                                  !.number = number, !.answer = a]
  OBVIOUS
<1>4. /\ q \in Request /\ q.pc = "attempt" /\ q.role = role
      /\ q.number = number /\ q.answer = a
  <2>1. req[r] \in Request /\ a \in Answers
    BY OffersOK DEF Inv
  <2> QED
    BY <1>2, <1>3, <2>1 DEF Request, Points
<1>5. PointOK(q)
  BY <1>1, <1>2, <1>4, OffersOK DEF PointOK, AnswerOK
<1> QED
  BY <1>1, <1>3, <1>4, <1>5, QuietStep DEF Submit

LEMMA JudgeStep ==
  ASSUME Inv, NEW r \in Requests, Judge(r)
  PROVE  Inv'
<1>1. PICK role \in Roles : role = req[r].role
  BY DEF Inv, Request
<1>2. PICK row : row = ExhaustionRow(role, req[r].answer.outcome)
  OBVIOUS
<1>3. row \in Rows /\ RowOK(row)
  BY <1>2, ExhaustionRowOK
<1> QED
  BY <1>1, <1>2, <1>3, ProposeStep, EnterStep DEF Judge

LEMMA EndStep ==
  ASSUME Inv, NEW r \in Requests, Refused(r) \/ Stop(r)
  PROVE  Inv'
BY EnterStep DEF Refused, Stop, Done

-----------------------------------------------------------------------------
(* The requests' writes to the tables.                                     *)

LEMMA RowsLast ==
  ASSUME Inv, Grows, log' = log
  PROVE  (\A row \in RowsOf : RowOK(row))'
<1>1. \A row : RowOK(row) => RowOK(row)'
  BY ReviewedLasts DEF Inv, World
<1>2. RowsOf' = RowsOf
  BY DEF RowsOf
<1> QED
  BY <1>1, <1>2 DEF Inv, World

\* A transition that the tables bear out is added, and perhaps the snapshot.
LEMMA LogStep ==
  ASSUME Inv, NEW row \in Rows, RowOK(row),
         log' = log \/ log' = Append(log, row),
         UNCHANGED <<issued, assessments, comparison>>,
         scored' \in BOOLEAN, scored' => Reviewed
  PROVE  World' /\ Grows
<1> USE DEF assessments
<1>1. WorldType
  BY DEF Inv, World
<1>2. Grows
  BY DEF Grows, WorldType, Inv, World
<1>3. RowsOf \subseteq RowsOf' /\ RowsOf' \subseteq RowsOf \cup {row}
  <2>1. log \in Seq(Rows)
    BY <1>1 DEF WorldType
  <2>2. CASE log' = log
    BY <2>2 DEF RowsOf
  <2>3. CASE log' = Append(log, row)
    <3>1. {Append(log, row)[i] : i \in 1..Len(Append(log, row))}
            = RowsOf \cup {row}
      BY <2>1, AppendRows DEF RowsOf
    <3>2. RowsOf' = RowsOf \cup {row}
      BY <2>3, <3>1 DEF RowsOf
    <3> QED
      BY <3>2
  <2> QED
    BY <2>2, <2>3
<1>4. WorldType'
  <2>1. log \in Seq(Rows)
    BY <1>1 DEF WorldType
  <2>2. Append(log, row) \in Seq(Rows)
    BY <2>1
  <2>3. log' \in Seq(Rows)
    BY <2>1, <2>2
  <2> QED
    BY <1>1, <2>3 DEF WorldType
<1>5. OneCallAtATime' /\ ProvidersIndependent'
  BY DEF OneCallAtATime, ProvidersIndependent, Inv, World
<1>6. AcceptanceIsWhole'
  <2>1. \A x \in RowsOf : x \in RowsOf'
    BY <1>3
  <2> QED
    BY <2>1 DEF AcceptanceIsWhole, Inv, World
<1>7. (\A x \in RowsOf : RowOK(x))'
  <2>1. \A x : RowOK(x) => RowOK(x)'
    BY <1>1, <1>2, ReviewedLasts
  <2>2. \A x \in RowsOf' : RowOK(x)
    BY <1>3 DEF Inv, World
  <2> QED
    BY <2>1, <2>2
<1>8. scored' => Reviewed'
  BY <1>1, <1>2, ReviewedLasts
<1>9. (comparison # None => BothNeutrals)'
       /\ (assessed["arbiter"] # None => assessed["red_team"] # None)'
  BY DEF Inv, World, BothNeutrals
<1> QED
  BY <1>2, <1>4, <1>5, <1>6, <1>7, <1>8, <1>9 DEF World

LEMMA InsertStep ==
  ASSUME Inv, NEW r \in Requests, InsertTransition(r)
  PROVE  Inv'
<1>1. CASE Done(r) /\ UNCHANGED log
  BY <1>1, EnterStep DEF Done, InsertTransition
<1>2. CASE /\ log' = Append(log, req[r].row)
           /\ Become(r, [Idle EXCEPT !.pc = req[r].then,
                                     !.todo = req[r].todo])
  <2>1. PICK row \in Rows : row = req[r].row
    BY DEF Inv, Request
  <2>2. PICK then \in {"recover", "issue"} : then = req[r].then
    BY DEF InsertTransition, At, Inv, PointOK
  <2>3. PICK todo \in SUBSET Roles : todo = req[r].todo
    BY DEF Inv, Request
  <2>4. RowOK(row)
    BY <2>1 DEF InsertTransition, At, Inv, PointOK
  <2>5. World' /\ Grows
    BY <1>2, <2>1, <2>4, LogStep
    DEF InsertTransition, assessments, reports, Inv, World, WorldType
  <2>6. PICK i \in Request : i = Idle
    BY IdleType
  <2>7. PICK q : q = [i EXCEPT !.pc = then, !.todo = todo]
    OBVIOUS
  <2>8. q \in Request /\ q.pc = then
    BY <2>7 DEF Request, Points
  <2>9. PointOK(q)'
    BY <2>8 DEF PointOK
  <2>10. Become(r, q)
    BY <1>2, <2>2, <2>3, <2>6, <2>7
  <2> QED
    BY <2>5, <2>8, <2>9, <2>10, WorldStep
<1> QED
  BY <1>1, <1>2 DEF InsertTransition

LEMMA SnapshotStep ==
  ASSUME Inv, NEW r \in Requests, Snapshot(r)
  PROVE  Inv'
<1>1. PICK row : row = ScoreRow
  OBVIOUS
<1>2. row \in Rows /\ RowOK(row)
  BY <1>1 DEF ScoreRow, Row, Rows, States, Final, Causes, RowOK
<1>3. Reviewed
  BY DEF Snapshot, At, Inv, PointOK
<1>4. World' /\ Grows
  <2>1. log' = log \/ log' = Append(log, row)
    BY <1>1 DEF Snapshot
  <2> QED
    BY <1>2, <1>3, <2>1, LogStep DEF Snapshot
<1>5. PICK q : q = [req[r] EXCEPT !.pc = "base"]
  OBVIOUS
<1>6. q \in Request /\ q.pc = "base"
  <2>1. req[r] \in Request
    BY DEF Inv
  <2> QED
    BY <1>5, <2>1 DEF Request, Points
<1>7. PointOK(q)'
  BY <1>6 DEF PointOK
<1> QED
  BY <1>4, <1>5, <1>6, <1>7, WorldStep DEF Snapshot, Goto

LEMMA CompareStep ==
  ASSUME Inv, NEW r \in Requests, Compare(r)
  PROVE  Inv'
<1>1. BothNeutrals
  BY DEF Compare, At, Inv, PointOK
<1>2. /\ comparison' \in Routes
      /\ comparison # None => comparison' = comparison
      /\ UNCHANGED <<log, issued, attempts, assessed, verdict, scored>>
  BY DEF Compare, assessments, Inv, World, WorldType
<1>3. Grows
  BY <1>2 DEF Grows, Inv, World, WorldType
<1>4. World'
  <2>1. (\A row \in RowsOf : RowOK(row))'
    BY <1>2, <1>3, RowsLast
  <2>2. scored' => Reviewed'
    BY <1>2, <1>3, ReviewedLasts DEF Inv, World
  <2>3. BothNeutrals'
    BY <1>1, <1>2 DEF BothNeutrals
  <2>4. WorldType' /\ OneCallAtATime' /\ ProvidersIndependent'
    BY <1>2 DEF Inv, World, WorldType, OneCallAtATime, ProvidersIndependent
  <2>5. AcceptanceIsWhole'
    BY <1>2 DEF Inv, World, AcceptanceIsWhole, RowsOf
  <2>6. (assessed["arbiter"] # None => assessed["red_team"] # None)'
    BY <1>2 DEF Inv, World
  <2> QED
    BY <2>1, <2>2, <2>3, <2>4, <2>5, <2>6 DEF World
<1>5. PICK q : q = [req[r] EXCEPT !.pc = "route"]
  OBVIOUS
<1>6. q \in Request /\ q.pc = "route"
  <2>1. req[r] \in Request
    BY DEF Inv
  <2> QED
    BY <1>5, <2>1 DEF Request, Points
<1>7. PointOK(q)'
  BY <1>2, <1>6, NoneAssumption DEF PointOK, Routes
<1> QED
  BY <1>3, <1>4, <1>5, <1>6, <1>7, WorldStep DEF Compare, Goto

LEMMA WorkStep ==
  ASSUME Inv, NEW r \in Requests, InsertWork(r)
  PROVE  Inv'
<1>1. PICK role \in Roles : role = req[r].role
  BY DEF Inv, Request
<1>2. PICK number \in 1..MaxAttempts : number = req[r].number
  BY DEF Inv, Request
<1>3. PICK n : n = IF number > issued[role] THEN number ELSE issued[role]
  OBVIOUS
<1>4. /\ issued' = [issued EXCEPT ![role] = n]
      /\ UNCHANGED <<log, attempts, assessed, verdict, comparison, scored>>
  BY <1>1, <1>2, <1>3 DEF InsertWork, assessments, reports
<1>5. WorldType
  BY DEF Inv, World
<1>6. issued[role] \in 0..MaxAttempts /\ Len(attempts[role]) \in Nat
  BY <1>5 DEF WorldType
<1>7. \/ number <= issued[role]
      \/ number = Len(attempts[role]) + 1 /\ assessed[role] = None
  BY <1>1, <1>2 DEF InsertWork, At, Inv, PointOK, WorkOK
<1>8. issued[role] <= n /\ n \in 0..MaxAttempts
  BY <1>3, <1>6
<1>9. issued' \in [Roles -> 0..MaxAttempts]
        /\ \A other \in Roles : issued'[other] =
             IF other = role THEN n ELSE issued[other]
  BY <1>4, <1>5, <1>8 DEF WorldType
<1>10. OneCallAtATime'
  <2> SUFFICES ASSUME NEW other \in Roles
      PROVE  /\ Len(attempts[other]) <= issued'[other]
             /\ issued'[other] <= Len(attempts[other]) + 1
             /\ \A i \in 1..Len(attempts[other]) :
                  attempts[other][i] = "accepted" => i = issued'[other]
    BY <1>4 DEF OneCallAtATime
  <2>1. CASE other # role \/ number <= issued[role]
    <3>1. issued'[other] = issued[other]
      BY <2>1, <1>3, <1>6, <1>9
    <3> QED
      BY <3>1 DEF OneCallAtATime, Inv, World
  <2>2. CASE other = role /\ number > issued[role]
    <3>1. number = Len(attempts[role]) + 1 /\ assessed[role] = None /\ n = number
      BY <2>2, <1>3, <1>6, <1>7
    <3>2. \A i \in 1..Len(attempts[role]) : attempts[role][i] # "accepted"
      BY <3>1 DEF AcceptanceIsWhole, Inv, World
    <3> QED
      BY <2>2, <3>1, <3>2, <1>6, <1>9
  <2> QED
    BY <2>1, <2>2, <1>6
<1>11. Grows
  BY <1>4, <1>5, <1>6, <1>8, <1>9 DEF Grows, WorldType
<1>12. World'
  <2>1. (\A row \in RowsOf : RowOK(row))'
    BY <1>4, <1>11, RowsLast
  <2>2. (scored => Reviewed)' /\ (comparison # None => BothNeutrals)'
    BY <1>4, <1>5, <1>11, ReviewedLasts DEF Inv, World
  <2>3. WorldType' /\ ProvidersIndependent'
    BY <1>4, <1>9 DEF Inv, World, WorldType, ProvidersIndependent
  <2>4. AcceptanceIsWhole'
    BY <1>4 DEF Inv, World, AcceptanceIsWhole, RowsOf
  <2>5. (assessed["arbiter"] # None => assessed["red_team"] # None)'
    BY <1>4 DEF Inv, World
  <2> QED
    BY <1>10, <2>1, <2>2, <2>3, <2>4, <2>5 DEF World
<1>13. PICK q \in Request :
         /\ q = [Idle EXCEPT !.pc = "issue", !.todo = Rest(r, req[r].role)]
         /\ PointOK(q)'
  BY ProceedType
<1> QED
  BY <1>11, <1>12, <1>13, WorldStep DEF InsertWork, Proceed

\* A request at its attempt, the slot free: its role's only open work, and the
\* role has failed so far.
LEMMA FreeSlot ==
  ASSUME Inv, NEW r \in Requests, At(r, "attempt"), Free(r),
         NEW role \in Roles, role = req[r].role
  PROVE  /\ issued[role] = Len(attempts[role]) + 1
         /\ Open(role) /\ assessed[role] = None
         /\ \A i \in 1..Len(attempts[role]) : attempts[role][i] # "accepted"
<1>1. req[r].number \in 1..MaxAttempts /\ req[r].number <= issued[role]
  BY DEF At, Inv, PointOK, Request
<1>2. issued[role] \in 0..MaxAttempts /\ Len(attempts[role]) \in Nat
  BY DEF Inv, World, WorldType
<1>3. issued[role] <= Len(attempts[role]) + 1
  BY DEF Inv, World, OneCallAtATime
<1>4. issued[role] = Len(attempts[role]) + 1
  BY <1>1, <1>2, <1>3 DEF Free
<1>5. \A i \in 1..Len(attempts[role]) : attempts[role][i] # "accepted"
  <2>1. \A i \in 1..Len(attempts[role]) :
          attempts[role][i] = "accepted" => i = issued[role]
    BY DEF Inv, World, OneCallAtATime
  <2> QED
    BY <2>1, <1>2, <1>4
<1>6. assessed[role] = None
  BY <1>5 DEF Inv, World, AcceptanceIsWhole
<1> QED
  BY <1>2, <1>4, <1>5, <1>6 DEF Open

\* What recording an attempt of such a role does.
LEMMA RecordStep ==
  ASSUME Inv, NEW role \in Roles, NEW outcome \in Outcomes,
         issued[role] = Len(attempts[role]) + 1,
         \A i \in 1..Len(attempts[role]) : attempts[role][i] # "accepted",
         attempts' = [attempts EXCEPT ![role] = Append(@, outcome)],
         UNCHANGED issued
  PROVE  /\ attempts' \in [Roles -> Seq(Outcomes)]
         /\ OneCallAtATime'
         /\ \A other \in Roles \ {role} : attempts'[other] = attempts[other]
         /\ (\E i \in 1..Len(attempts'[role]) : attempts'[role][i] = "accepted")
              <=> outcome = "accepted"
<1>1. attempts \in [Roles -> Seq(Outcomes)] /\ issued \in [Roles -> 0..MaxAttempts]
  BY DEF Inv, World, WorldType
<1>2. PICK old \in Seq(Outcomes) : old = attempts[role]
  BY <1>1
<1>3. PICK new \in Seq(Outcomes) : new = Append(old, outcome)
  <2>1. Append(old, outcome) \in Seq(Outcomes)
    BY <1>2
  <2> QED
    BY <2>1
<1>4. /\ Len(old) \in Nat /\ Len(new) = Len(old) + 1
      /\ new[Len(old) + 1] = outcome
      /\ \A i \in 1..Len(old) : new[i] = old[i]
  BY <1>2, <1>3
<1>5. attempts'[role] = new
        /\ \A other \in Roles \ {role} : attempts'[other] = attempts[other]
  BY <1>1, <1>2, <1>3
<1>6. attempts' \in [Roles -> Seq(Outcomes)]
  BY <1>1, <1>2, <1>3
<1>7. \A i \in 1..Len(new) : i = Len(old) + 1 \/ i \in 1..Len(old)
  BY <1>4
<1>8. \A i \in 1..Len(new) : new[i] = "accepted" => i = issued[role]
  BY <1>2, <1>4, <1>7
<1>9. OneCallAtATime'
  <2> SUFFICES ASSUME NEW other \in Roles
      PROVE  /\ Len(attempts'[other]) <= issued[other]
             /\ issued[other] <= Len(attempts'[other]) + 1
             /\ \A i \in 1..Len(attempts'[other]) :
                  attempts'[other][i] = "accepted" => i = issued[other]
    BY DEF OneCallAtATime
  <2>1. CASE other = role
    BY <2>1, <1>1, <1>2, <1>4, <1>5, <1>8
  <2>2. CASE other # role
    BY <2>2, <1>5 DEF OneCallAtATime, Inv, World
  <2> QED
    BY <2>1, <2>2
<1>10. (\E i \in 1..Len(new) : new[i] = "accepted") <=> outcome = "accepted"
  <2>1. Len(old) + 1 \in 1..Len(new)
    BY <1>4
  <2> QED
    BY <2>1, <1>2, <1>4, <1>7
<1> QED
  BY <1>5, <1>6, <1>9, <1>10

LEMMA FailureStep ==
  ASSUME Inv, NEW r \in Requests, RecordFailure(r)
  PROVE  Inv'
<1>1. PICK role \in Roles : role = req[r].role
  BY DEF Inv, Request
<1>2. PICK a : a = req[r].answer
  OBVIOUS
<1>3. a \in Answers
  BY <1>2 DEF RecordFailure, At, Inv, PointOK, AnswerOK
<1>4. PICK outcome :
        outcome = IF a.outcome = "accepted" THEN "malformed" ELSE a.outcome
  OBVIOUS
<1>5. outcome \in Outcomes /\ outcome # "accepted"
  BY <1>3, <1>4 DEF Answers
<1>6. /\ issued[role] = Len(attempts[role]) + 1
      /\ Open(role) /\ assessed[role] = None
      /\ \A i \in 1..Len(attempts[role]) : attempts[role][i] # "accepted"
  BY <1>1, FreeSlot DEF RecordFailure
<1>7. /\ attempts' = [attempts EXCEPT ![role] = Append(@, outcome)]
      /\ UNCHANGED <<log, issued, assessed, verdict, comparison, scored>>
  BY <1>1, <1>2, <1>4 DEF RecordFailure, Recorded, reports
<1>8. /\ attempts' \in [Roles -> Seq(Outcomes)]
      /\ OneCallAtATime'
      /\ \A other \in Roles \ {role} : attempts'[other] = attempts[other]
      /\ ~\E i \in 1..Len(attempts'[role]) : attempts'[role][i] = "accepted"
  BY <1>5, <1>6, <1>7, RecordStep
<1>9. Grows
  BY <1>6, <1>7, <1>8 DEF Grows, Inv, World, WorldType
<1>10. World'
  <2>1. (\A row \in RowsOf : RowOK(row))'
    BY <1>7, <1>9, RowsLast
  <2>2. (scored => Reviewed)' /\ (comparison # None => BothNeutrals)'
    BY <1>7, <1>9, ReviewedLasts DEF Inv, World
  <2>3. WorldType' /\ ProvidersIndependent'
    BY <1>7, <1>8 DEF Inv, World, WorldType, ProvidersIndependent
  <2>4. AcceptanceIsWhole'
    <3>1. \A other \in Roles :
            (\E i \in 1..Len(attempts'[other]) :
               attempts'[other][i] = "accepted") <=> assessed'[other] # None
      BY <1>6, <1>7, <1>8 DEF Inv, World, AcceptanceIsWhole
    <3>2. RowsOf' = RowsOf
      BY <1>7 DEF RowsOf
    <3> QED
      BY <1>7, <3>1, <3>2 DEF Inv, World, AcceptanceIsWhole
  <2>5. (assessed["arbiter"] # None => assessed["red_team"] # None)'
    BY <1>7 DEF Inv, World
  <2> QED
    BY <1>8, <2>1, <2>2, <2>3, <2>4, <2>5 DEF World
<1>11. PICK b : b = [a EXCEPT !.outcome = outcome]
  OBVIOUS
<1>12. b \in Answers /\ b.outcome = outcome
  BY <1>3, <1>5, <1>11 DEF Answers
<1>13. PICK q : q = [req[r] EXCEPT !.pc = "judge", !.answer = b]
  OBVIOUS
<1>14. q \in Request /\ q.pc = "judge" /\ q.answer = b
  <2>1. req[r] \in Request
    BY DEF Inv
  <2> QED
    BY <1>12, <1>13, <2>1 DEF Request, Points
<1>15. PointOK(q)'
  BY <1>5, <1>12, <1>14 DEF PointOK, AnswerOK
<1>16. Become(r, q)
  <2>1. q = [req[r] EXCEPT !.pc = "judge", !.answer.outcome = outcome]
    BY <1>2, <1>11, <1>13
  <2> QED
    BY <1>2, <1>4, <2>1 DEF RecordFailure
<1> QED
  BY <1>9, <1>10, <1>14, <1>15, <1>16, WorldStep

\* What every acceptance does.
LEMMA AcceptStep ==
  ASSUME Inv, NEW role \in Roles, NEW p \in Providers,
         issued[role] = Len(attempts[role]) + 1,
         Open(role), assessed[role] = None,
         \A i \in 1..Len(attempts[role]) : attempts[role][i] # "accepted",
         attempts' = [attempts EXCEPT ![role] = Append(@, "accepted")],
         assessed' = [assessed EXCEPT ![role] = p],
         UNCHANGED <<issued, comparison>>,
         Independent(role, p),
         role = "arbiter" => assessed["red_team"] # None,
         \A other \in Reviewers :
           verdict[other] # None => verdict'[other] = verdict[other]
  PROVE  /\ Grows /\ OneCallAtATime' /\ ProvidersIndependent'
         /\ attempts' \in [Roles -> Seq(Outcomes)]
         /\ assessed' \in [Roles -> Providers \cup {None}]
         /\ assessed'[role] = p /\ p # None
         /\ \A other \in Roles \ {role} : assessed'[other] = assessed[other]
         /\ (assessed["arbiter"] # None => assessed["red_team"] # None)'
         /\ (\A other \in Roles :
               (\E i \in 1..Len(attempts[other]) :
                  attempts[other][i] = "accepted")
               <=> assessed[other] # None)'
<1>1. p # None
  BY NoneAssumption
<1>2. /\ attempts' \in [Roles -> Seq(Outcomes)]
      /\ OneCallAtATime'
      /\ \A other \in Roles \ {role} : attempts'[other] = attempts[other]
      /\ \E i \in 1..Len(attempts'[role]) : attempts'[role][i] = "accepted"
  BY RecordStep
<1>3. /\ assessed' \in [Roles -> Providers \cup {None}]
      /\ assessed'[role] = p
      /\ \A other \in Roles \ {role} : assessed'[other] = assessed[other]
  BY DEF Inv, World, WorldType
<1>4. Grows
  BY <1>2, <1>3 DEF Grows, Inv, World, WorldType
<1>5. ProvidersIndependent'
  BY <1>1, <1>3 DEF Independent, ProvidersIndependent, Inv, World
<1>6. (assessed["arbiter"] # None => assessed["red_team"] # None)'
  BY <1>1, <1>3 DEF Inv, World
<1>7. (\A other \in Roles :
         (\E i \in 1..Len(attempts[other]) : attempts[other][i] = "accepted")
         <=> assessed[other] # None)'
  BY <1>1, <1>2, <1>3 DEF AcceptanceIsWhole, Inv, World
<1> QED
  BY <1>1, <1>2, <1>3, <1>4, <1>5, <1>6, <1>7

LEMMA NeutralStep ==
  ASSUME Inv, NEW r \in Requests, AcceptNeutral(r)
  PROVE  Inv'
<1>1. PICK role \in Neutrals : role = req[r].role
  BY DEF AcceptNeutral
<1>2. PICK p \in Providers : p = req[r].answer.provider
  BY DEF AcceptNeutral, At, Valid, Inv, PointOK, AnswerOK
<1>3. /\ issued[role] = Len(attempts[role]) + 1
      /\ Open(role) /\ assessed[role] = None
      /\ \A i \in 1..Len(attempts[role]) : attempts[role][i] # "accepted"
  BY <1>1, FreeSlot DEF AcceptNeutral
<1>4. /\ attempts' = [attempts EXCEPT ![role] = Append(@, "accepted")]
      /\ assessed' = [assessed EXCEPT ![role] = p]
      /\ Independent(role, p)
      /\ UNCHANGED <<log, issued, verdict, comparison, scored>>
  BY <1>1, <1>2 DEF AcceptNeutral, Recorded, Valid, reports
<1>5. /\ Grows /\ OneCallAtATime' /\ ProvidersIndependent'
      /\ attempts' \in [Roles -> Seq(Outcomes)]
      /\ assessed' \in [Roles -> Providers \cup {None}]
      /\ \A other \in Roles \ {role} : assessed'[other] = assessed[other]
      /\ (assessed["arbiter"] # None => assessed["red_team"] # None)'
      /\ (\A other \in Roles :
            (\E i \in 1..Len(attempts[other]) :
               attempts[other][i] = "accepted") <=> assessed[other] # None)'
  BY <1>1, <1>3, <1>4, AcceptStep
<1>6. World'
  <2>1. (\A row \in RowsOf : RowOK(row))'
    BY <1>4, <1>5, RowsLast
  <2>2. (scored => Reviewed)' /\ (comparison # None => BothNeutrals)'
    BY <1>4, <1>5, ReviewedLasts DEF Inv, World
  <2>3. WorldType'
    BY <1>4, <1>5 DEF Inv, World, WorldType
  <2>4. AcceptanceIsWhole'
    <3>1. RowsOf' = RowsOf
      BY <1>4 DEF RowsOf
    <3>2. \A other \in Reviewers : assessed'[other] = assessed[other]
      BY <1>1, <1>5
    <3> QED
      BY <1>4, <1>5, <3>1, <3>2 DEF Inv, World, AcceptanceIsWhole
  <2> QED
    BY <1>5, <2>1, <2>2, <2>3, <2>4 DEF World
<1>7. PICK q \in Request : q = [Idle EXCEPT !.pc = "recover"]
  BY IdleType DEF Points
<1>8. PointOK(q)'
  <2>1. q.pc = "recover"
    BY <1>7 DEF Idle
  <2> QED
    BY <2>1 DEF PointOK
<1> QED
  BY <1>5, <1>6, <1>7, <1>8, WorldStep DEF AcceptNeutral, Enter

LEMMA ReviewStep ==
  ASSUME Inv, NEW r \in Requests, AcceptReview(r)
  PROVE  Inv'
<1>1. PICK role \in Reviewers : role = req[r].role
  BY DEF AcceptReview
<1>2. PICK p \in Providers : p = req[r].answer.provider
  BY DEF AcceptReview, At, Valid, Inv, PointOK, AnswerOK
<1>3. PICK v \in Verdicts : v = req[r].answer.verdict
  BY DEF AcceptReview, At, Valid, Inv, PointOK, AnswerOK
<1>4. /\ issued[role] = Len(attempts[role]) + 1
      /\ Open(role) /\ assessed[role] = None
      /\ \A i \in 1..Len(attempts[role]) : attempts[role][i] # "accepted"
  BY <1>1, FreeSlot DEF AcceptReview
<1>5. PICK row : row = Row(StageOf(role), Target(role, v), "REVIEWED")
  OBVIOUS
<1>6. /\ attempts' = [attempts EXCEPT ![role] = Append(@, "accepted")]
      /\ assessed' = [assessed EXCEPT ![role] = p]
      /\ verdict' = [verdict EXCEPT ![role] = v]
      /\ log' = Append(log, row)
      /\ Independent(role, p) /\ State = StageOf(role)
      /\ UNCHANGED <<issued, comparison, scored>>
  BY <1>1, <1>2, <1>3, <1>5 DEF AcceptReview, Recorded, Valid, reports
<1>7. BothNeutrals /\ (role = "arbiter" => assessed["red_team"] # None)
  BY <1>6, StateShows DEF StageOf
<1>8. /\ verdict' \in [Reviewers -> Verdicts \cup {None}]
      /\ verdict'[role] = v /\ v # None /\ verdict[role] = None
      /\ \A other \in Reviewers \ {role} : verdict'[other] = verdict[other]
  <2>1. verdict \in [Reviewers -> Verdicts \cup {None}]
    BY DEF Inv, World, WorldType
  <2>2. v # None
    BY NoneAssumption
  <2>3. verdict[role] = None
    BY <1>4 DEF Inv, World, AcceptanceIsWhole
  <2> QED
    BY <1>6, <2>1, <2>2, <2>3
<1>9. /\ Grows /\ OneCallAtATime' /\ ProvidersIndependent'
      /\ attempts' \in [Roles -> Seq(Outcomes)]
      /\ assessed' \in [Roles -> Providers \cup {None}]
      /\ assessed'[role] = p /\ p # None
      /\ \A other \in Roles \ {role} : assessed'[other] = assessed[other]
      /\ (assessed["arbiter"] # None => assessed["red_team"] # None)'
      /\ (\A other \in Roles :
            (\E i \in 1..Len(attempts[other]) :
               attempts[other][i] = "accepted") <=> assessed[other] # None)'
  <2>1. \A other \in Reviewers :
          verdict[other] # None => verdict'[other] = verdict[other]
    BY <1>8
  <2> QED
    BY <1>4, <1>6, <1>7, <2>1, AcceptStep
<1>10. row \in Rows
  BY <1>5 DEF Row, Rows, States, Final, Causes, StageOf, Target
<1>11. /\ BothNeutrals'
       /\ Reviewed => Reviewed'
       /\ \A x : RowOK(x) => RowOK(x)'
  BY <1>7, <1>9, ReviewedLasts DEF Inv, World
<1>12. RowOK(row)'
  <2>1. row.to = Target(role, v)
    BY <1>5 DEF Row
  <2>2. CASE v = "resolved"
    BY <1>8, <1>11, <2>1, <2>2 DEF RowOK, Target, Reviewed
  <2>3. CASE v # "resolved" /\ role = "red_team"
    BY <1>9, <1>11, <2>1, <2>3 DEF RowOK, Target
  <2>4. CASE v # "resolved" /\ role # "red_team"
    BY <2>1, <2>4 DEF RowOK, Target
  <2> QED
    BY <2>2, <2>3, <2>4
<1>13. log \in Seq(Rows) /\ Append(log, row) \in Seq(Rows)
  <2>1. log \in Seq(Rows)
    BY DEF Inv, World, WorldType
  <2> QED
    BY <1>10, <2>1
<1>14. RowsOf' = RowsOf \cup {row}
  <2>1. {Append(log, row)[i] : i \in 1..Len(Append(log, row))}
          = RowsOf \cup {row}
    BY <1>10, <1>13, AppendRows DEF RowsOf
  <2> QED
    BY <1>6, <2>1 DEF RowsOf
<1>15. World'
  <2>1. (\A x \in RowsOf : RowOK(x))'
    <3>1. \A x \in RowsOf : RowOK(x)'
      BY <1>11 DEF Inv, World
    <3> QED
      BY <1>12, <1>14, <3>1
  <2>2. (scored => Reviewed)' /\ (comparison # None => BothNeutrals)'
    BY <1>6, <1>11 DEF Inv, World
  <2>3. WorldType'
    BY <1>6, <1>8, <1>9, <1>13 DEF Inv, World, WorldType
  <2>4. AcceptanceIsWhole'
    <3>1. \A other \in Reviewers \ {role} :
            /\ assessed'[other] = assessed[other]
            /\ verdict'[other] = verdict[other]
      BY <1>8, <1>9
    <3>2. \A other \in Reviewers :
            verdict'[other] # None <=> assessed'[other] # None
      BY <1>8, <1>9, <3>1 DEF Inv, World, AcceptanceIsWhole
    <3>3. \A other \in Reviewers : verdict'[other] # None =>
            Row(StageOf(other), Target(other, verdict'[other]), "REVIEWED")
              \in RowsOf'
      <4>1. \A other \in Reviewers \ {role} : verdict'[other] # None =>
              Row(StageOf(other), Target(other, verdict'[other]), "REVIEWED")
                \in RowsOf
        BY <3>1 DEF Inv, World, AcceptanceIsWhole
      <4>2. Row(StageOf(role), Target(role, verdict'[role]), "REVIEWED")
              \in RowsOf'
        BY <1>5, <1>8, <1>14
      <4> QED
        BY <1>14, <4>1, <4>2
    <3> QED
      BY <1>9, <3>2, <3>3 DEF AcceptanceIsWhole
  <2> QED
    BY <1>9, <2>1, <2>2, <2>3, <2>4 DEF World
<1>16. PICK q \in Request : q = [Idle EXCEPT !.pc = "recover"]
  BY IdleType DEF Points
<1>17. PointOK(q)'
  <2>1. q.pc = "recover"
    BY <1>16 DEF Idle
  <2> QED
    BY <2>1 DEF PointOK
<1> QED
  BY <1>9, <1>15, <1>16, <1>17, WorldStep DEF AcceptReview, Enter

-----------------------------------------------------------------------------
(* The invariant, and what follows from it.                                *)

LEMMA Initially == Init => Inv
<1> SUFFICES ASSUME Init PROVE Inv
  OBVIOUS
<1>1. WorldType /\ OneCallAtATime /\ ProvidersIndependent
  <2>1. \A role \in Roles :
          attempts[role] = <<>> /\ issued[role] = 0 /\ assessed[role] = None
    BY DEF Init
  <2>2. WorldType
    <3>1. log \in Seq(Rows)
      BY DEF Init
    <3>2. attempts \in [Roles -> Seq(Outcomes)]
      <4>1. <<>> \in Seq(Outcomes)
        OBVIOUS
      <4> QED
        BY <4>1 DEF Init
    <3>3. issued \in [Roles -> 0..MaxAttempts]
      BY DEF Init
    <3>4. assessed \in [Roles -> Providers \cup {None}]
      BY DEF Init
    <3>5. verdict \in [Reviewers -> {"resolved", "unresolved", None}]
      BY DEF Init
    <3> QED
      BY <3>1, <3>2, <3>3, <3>4, <3>5 DEF Init, WorldType
  <2>3. OneCallAtATime
    <3>1. Len(<<>>) = 0 /\ 1..0 = {}
      OBVIOUS
    <3> QED
      BY <2>1, <3>1 DEF OneCallAtATime
  <2>4. ProvidersIndependent
    BY <2>1 DEF ProvidersIndependent
  <2> QED
    BY <2>2, <2>3, <2>4
<1>2. AcceptanceIsWhole
  BY DEF Init, AcceptanceIsWhole
<1>3. RowsOf = {}
  BY DEF Init, RowsOf
<1>4. World
  BY <1>1, <1>2, <1>3 DEF Init, World
<1>5. PointOK(Idle) /\ Idle \in Request
  BY IdleType DEF PointOK, Idle
<1> QED
  BY <1>4, <1>5 DEF Init, Inv

LEMMA Stuttering ==
  ASSUME Inv, UNCHANGED vars
  PROVE  Inv'
<1>1. World'
  BY DEF vars, Inv, World, WorldType, OneCallAtATime, AcceptanceIsWhole,
         ProvidersIndependent, BothNeutrals, RowsOf, RowOK, Reviewed
<1>2. \A p : PointOK(p) => PointOK(p)'
  BY DEF vars, PointOK, RowOK, BothNeutrals, Reviewed, WorkOK, AnswerOK
<1> QED
  BY <1>1, <1>2 DEF vars, Inv

LEMMA NextStep ==
  ASSUME Inv, [Next]_vars
  PROVE  Inv'
<1>1. CASE UNCHANGED vars
  BY <1>1, Stuttering
<1>2. ASSUME NEW r \in Requests, Advance(r)
      PROVE  Inv'
  BY <1>2, RecoverStep, CompareStep, RouteStep, InsertStep, SnapshotStep,
     BaseStep, IssueStep, DeriveStep, ChooseStep, WorkStep, FailureStep,
     NeutralStep, ReviewStep, EndStep, JudgeStep
  DEF Advance
<1>3. ASSUME NEW r \in Requests,
             Create(r) \/ Poll(r) \/ Answer(r) \/ Stop(r)
      PROVE  Inv'
  BY <1>3, CreateStep, PollStep, SubmitStep, EndStep DEF Answer
<1> QED
  BY <1>1, <1>2, <1>3 DEF Next

THEOREM Invariant == Spec => []Inv
BY Initially, NextStep, PTL DEF Spec

\* Every variable keeps its type.
THEOREM TypeCorrect == Spec => []TypeOK
<1>1. Inv => TypeOK
  BY DEF Inv, World, WorldType, TypeOK
<1> QED
  BY <1>1, Invariant, PTL

\* A score exists only after both neutrals and a resolved review.
THEOREM ScoreIsReviewed == Spec => []ScoredAfterReview
<1>1. Inv => ScoredAfterReview
  BY DEF Inv, World, Reviewed, ScoredAfterReview
<1> QED
  BY <1>1, Invariant, PTL

\* No model call is issued twice, or after an acceptance.
THEOREM CallsAreFenced == Spec => []OneCallAtATime
<1>1. Inv => OneCallAtATime
  BY DEF Inv, World
<1> QED
  BY <1>1, Invariant, PTL

\* An acceptance is recorded with all that belongs to it.
THEOREM AcceptedWhole == Spec => []AcceptanceIsWhole
<1>1. Inv => AcceptanceIsWhole
  BY DEF Inv, World
<1> QED
  BY <1>1, Invariant, PTL

\* Neutrals, and reviewers, are of different providers.
THEOREM Independence == Spec => []ProvidersIndependent
<1>1. Inv => ProvidersIndependent
  BY DEF Inv, World
<1> QED
  BY <1>1, Invariant, PTL


\* Both at once, for the run that checks them together.
THEOREM SoundAcceptance == Spec => []AcceptanceIsSound
<1>1. AcceptanceIsWhole /\ ProvidersIndependent => AcceptanceIsSound
  BY DEF AcceptanceIsSound
<1> QED BY <1>1, AcceptedWhole, Independence, PTL

-----------------------------------------------------------------------------
(* One request at a time. Requests that overlap break the chain of the     *)
(* transitions, so the hypothesis is that none is begun before the last    *)
(* one has ended; there may be any number of them.                         *)

Alone == \A q, r \in Requests : q = r \/ At(q, "idle") \/ At(r, "idle")

\* If a role exhausted the run, all its attempts failed.
Failed(row) ==
  \A role \in Roles : row.cause = role =>
    assessed[role] = None /\ Len(attempts[role]) = MaxAttempts

\* What a lone request read is still so when it writes.
Lone(q) ==
  /\ q.pc = "insert" => q.row.from = State /\ Failed(q.row)
  /\ q.pc = "snapshot" => State = "READY_TO_SCORE"
  /\ q.pc = "judge" => assessed[q.role] = None
                         /\ Len(attempts[q.role]) = issued[q.role]

Lonely == /\ TransitionsChain
          /\ \A row \in RowsOf : Failed(row)
          /\ \A r \in Requests : Lone(req[r])

\* The points at which it relies on nothing it read.
Unread == Points \ {"insert", "snapshot", "judge"}

LEMMA LoneQuiet ==
  ASSUME Inv, Lonely, NEW r \in Requests, NEW q, Become(r, q), Lone(q),
         UNCHANGED <<log, issued, attempts, assessed>>
  PROVE  Lonely'
<1>1. TransitionsChain'
  BY DEF Lonely, TransitionsChain
<1>2. State' = State /\ RowsOf' = RowsOf
  BY DEF State, RowsOf
<1>3. \A row : Failed(row)' <=> Failed(row)
  BY DEF Failed
<1>4. \A p : Lone(p)' <=> Lone(p)
  BY <1>2, <1>3 DEF Lone
<1>5. \A s \in Requests : req'[s] = q \/ req'[s] = req[s]
  BY DEF Inv, Become
<1> QED BY <1>1, <1>2, <1>3, <1>4, <1>5 DEF Lonely

LEMMA LoneEnter ==
  ASSUME Inv, Lonely, NEW r \in Requests, NEW p \in Unread,
         Enter(r, p) \/ Goto(r, p),
         UNCHANGED <<log, issued, attempts, assessed>>
  PROVE  Lonely'
<1>1. \A q : q.pc = p => Lone(q)
  BY DEF Lone, Unread
<1>2. CASE Enter(r, p)
  <2>1. PICK q : q = [Idle EXCEPT !.pc = p]
    OBVIOUS
  <2>2. q.pc = p
    BY <2>1 DEF Idle
  <2> QED BY <1>1, <1>2, <2>1, <2>2, LoneQuiet DEF Enter
<1>3. CASE Goto(r, p)
  <2>1. PICK q : q = [req[r] EXCEPT !.pc = p]
    OBVIOUS
  <2>2. q.pc = p
    BY <2>1 DEF Inv, Request
  <2> QED BY <1>1, <1>3, <2>1, <2>2, LoneQuiet DEF Goto
<1> QED BY <1>2, <1>3

LEMMA LonePropose ==
  ASSUME Inv, Lonely, NEW r \in Requests, NEW row, NEW then, NEW todo,
         row.from = State, Failed(row), Propose(r, row, then, todo),
         UNCHANGED <<log, issued, assessments, reports>>
  PROVE  Lonely'
<1>1. PICK q : q = [Idle EXCEPT !.pc = "insert", !.row = row, !.then = then,
                                !.todo = todo]
  OBVIOUS
<1>2. q.pc = "insert" /\ q.row = row
  BY <1>1 DEF Idle
<1>3. Lone(q)
  BY <1>2 DEF Lone
<1> QED BY <1>1, <1>3, LoneQuiet DEF Propose, assessments

\* The rows that are not of a role's exhaustion.
LEMMA OtherCauses ==
  \A row : row.cause \in {"CREATED", "NEUTRALS_COMPARED", "SCORE_SNAPSHOT", "REVIEWED"}
             => Failed(row)
BY DEF Failed

LEMMA LoneRead ==
  ASSUME Inv, Lonely, NEW r \in Requests, Create(r) \/ Recover(r) \/ Route(r)
  PROVE  Lonely'
<1>1. UNCHANGED <<log, issued, assessments, reports>>
        /\ UNCHANGED <<log, issued, attempts, assessed>>
  BY DEF Create, Recover, Route, assessments
<1>2. \/ Goto(r, "recover") \/ Goto(r, "compare") \/ Goto(r, "base")
      \/ State = "READY_TO_SCORE" /\ Goto(r, "snapshot")
      \/ State = "PENDING_NEUTRALS" /\ Propose(r, RouteRow, "recover", {})
      \/ State = "none"
           /\ Propose(r, Row("none", "PENDING_NEUTRALS", "CREATED"), "recover", {})
  BY DEF Create, Recover, Route
<1>3. CASE Goto(r, "recover") \/ Goto(r, "compare") \/ Goto(r, "base")
  BY <1>1, <1>3, LoneEnter DEF Unread, Points
<1>4. CASE State = "READY_TO_SCORE" /\ Goto(r, "snapshot")
  <2>1. PICK q : q = [req[r] EXCEPT !.pc = "snapshot"]
    OBVIOUS
  <2>2. q.pc = "snapshot"
    BY <2>1 DEF Inv, Request
  <2>3. Lone(q)
    BY <1>4, <2>2 DEF Lone
  <2> QED BY <1>1, <1>4, <2>1, <2>3, LoneQuiet DEF Goto
<1>5. CASE State = "PENDING_NEUTRALS" /\ Propose(r, RouteRow, "recover", {})
  <2>1. PICK row : row = RouteRow
    OBVIOUS
  <2>2. row.from = State /\ Failed(row)
    BY <1>5, <2>1, OtherCauses DEF RouteRow, Row
  <2> QED BY <1>1, <1>5, <2>1, <2>2, LonePropose
<1>6. CASE State = "none"
             /\ Propose(r, Row("none", "PENDING_NEUTRALS", "CREATED"), "recover", {})
  <2>1. PICK row : row = Row("none", "PENDING_NEUTRALS", "CREATED")
    OBVIOUS
  <2>2. row.from = State /\ Failed(row)
    BY <1>6, <2>1, OtherCauses DEF Row
  <2> QED BY <1>1, <1>6, <2>1, <2>2, LonePropose
<1> QED BY <1>2, <1>3, <1>4, <1>5, <1>6

\* Calls run out only when every role has made all of its own.
LEMMA ExhaustedRole ==
  ASSUME Inv, NEW role \in Roles, Exhausted(role), issued[role] <= Len(attempts[role])
  PROVE  Len(attempts[role]) = MaxAttempts
<1>1. \A other \in Roles : issued[other] \in 0..MaxAttempts
  BY DEF Inv, World, WorldType
<1>2. Len(attempts[role]) \in Nat /\ Len(attempts[role]) <= issued[role]
  BY DEF Inv, World, WorldType, OneCallAtATime
<1>3. Calls >= MaxCalls => issued[role] = MaxAttempts
  <2>1. PICK a, b, c, d \in 0..MaxAttempts :
          /\ a = issued["neutral_analyst_a"] /\ b = issued["neutral_analyst_b"]
          /\ c = issued["red_team"] /\ d = issued["arbiter"]
    BY <1>1
  <2>2. a + b + c + d >= 8 => a = 2 /\ b = 2 /\ c = 2 /\ d = 2
    OBVIOUS
  <2> QED BY <2>1, <2>2 DEF Calls, MaxCalls
<1>4. issued[role] = MaxAttempts \/ Len(attempts[role]) >= MaxAttempts
  BY <1>3 DEF Exhausted
<1> QED
  <2>1. PICK n \in 0..MaxAttempts : n = issued[role]
    BY <1>1
  <2>2. PICK k \in Nat : k = Len(attempts[role])
    BY <1>2
  <2>3. n <= k /\ k <= n
    BY <1>2, <2>1, <2>2
  <2>4. k = n
    BY <2>3
  <2>5. n = 2 \/ k >= 2
    BY <1>4, <2>1, <2>2
  <2>6. k = 2
    BY <2>4, <2>5
  <2> QED BY <2>2, <2>6

LEMMA LoneExhaustion ==
  ASSUME Inv, Lonely, NEW r \in Requests, DeriveExhaustion(r) \/ Judge(r)
  PROVE  Lonely'
<1>1. ASSUME NEW role \in Roles, NEW last, NEW then, NEW todo, Exhausted(role),
             assessed[role] = None, issued[role] <= Len(attempts[role]),
             Propose(r, ExhaustionRow(role, last), then, todo),
             UNCHANGED <<log, issued, assessments, reports>>
      PROVE  Lonely'
  <2>1. PICK row : row = ExhaustionRow(role, last)
    OBVIOUS
  <2>2. row.from = State /\ row.cause = role
    BY <2>1 DEF ExhaustionRow, Row
  <2>3. Failed(row)
    BY <1>1, <2>2, ExhaustedRole DEF Failed
  <2> QED BY <1>1, <2>1, <2>2, <2>3, LonePropose
<1>2. CASE DeriveExhaustion(r)
  <2>1. PICK role \in Roles :
          /\ Wanted(r, role) /\ Exhausted(role)
          /\ Propose(r, ExhaustionRow(role, LastOutcome(role)), "issue", Rest(r, role))
    BY <1>2 DEF DeriveExhaustion
  <2>2. issued[role] <= Len(attempts[role]) /\ assessed[role] = None
    <3>1. issued[role] \in Int /\ Len(attempts[role]) \in Int
      BY DEF Inv, World, WorldType
    <3> QED BY <2>1, <3>1 DEF Wanted, Required, Open
  <2> QED BY <1>1, <1>2, <2>1, <2>2 DEF DeriveExhaustion
<1>3. CASE Judge(r)
  <2>1. PICK role \in Roles : role = req[r].role
    BY DEF Inv, Request
  <2>2. /\ assessed[role] = None /\ Len(attempts[role]) = issued[role]
        /\ issued[role] \in Int
    BY <1>3, <2>1 DEF Judge, At, Lonely, Lone, Inv, World, WorldType
  <2>3. CASE Exhausted(role)
               /\ Propose(r, ExhaustionRow(role, req[r].answer.outcome), "recover", {})
    BY <1>1, <1>3, <2>1, <2>2, <2>3 DEF Judge
  <2>4. CASE Enter(r, "recover")
    BY <1>3, <2>4, LoneEnter DEF Judge, Unread, Points, assessments
  <2> QED BY <1>3, <2>1, <2>3, <2>4 DEF Judge
<1> QED BY <1>2, <1>3

LEMMA ProceedsAt ==
  ASSUME NEW r \in Requests, NEW role, Proceed(r, role)
  PROVE  \E q : Become(r, q) /\ q.pc = "issue"
<1>1. PICK q : q = [Idle EXCEPT !.pc = "issue", !.todo = Rest(r, role)]
  OBVIOUS
<1>2. q.pc = "issue"
  BY <1>1 DEF Idle
<1> QED BY <1>1, <1>2 DEF Proceed

\* The other steps that read only, or write only the comparison.
LEMMA LoneOther ==
  ASSUME Inv, Lonely, NEW r \in Requests,
         \/ Poll(r) \/ Answer(r) \/ Compare(r) \/ Base(r) \/ Answered(r) \/ Keep(r)
         \/ ChooseWork(r) \/ Refused(r) \/ Stop(r)
  PROVE  Lonely'
<1>1. UNCHANGED <<log, issued, attempts, assessed>>
  BY DEF Poll, Answer, Submit, Compare, Base, Answered, Keep, ChooseWork, Refused,
         Stop, assessments
<1>2. CASE Poll(r) \/ Compare(r) \/ Answered(r) \/ Refused(r) \/ Stop(r)
  BY <1>1, <1>2, LoneEnter
  DEF Poll, Compare, Answered, Refused, Stop, Done, Unread, Points
<1>3. CASE Answer(r) \/ Base(r) \/ Keep(r) \/ ChooseWork(r)
  <2>1. PICK p : p = req[r] /\ p \in Request
    BY DEF Inv
  <2>2. \E q : Become(r, q) /\ q.pc \in {"attempt", "issue", "work"}
    <3>1. CASE Answer(r)
      <4>1. PICK role \in Roles, a \in Answers :
              Become(r, [p EXCEPT !.pc = "attempt", !.role = role,
                                  !.number = issued[role], !.answer = a])
        BY <2>1, <3>1, OffersOK DEF Answer, Submit
      <4>2. PICK q : q = [p EXCEPT !.pc = "attempt", !.role = role,
                                   !.number = issued[role], !.answer = a]
        OBVIOUS
      <4>3. q.pc = "attempt"
        BY <2>1, <4>2 DEF Request
      <4> QED BY <4>1, <4>2, <4>3
    <3>2. CASE Base(r)
      <4>1. PICK q : q = [p EXCEPT !.pc = "issue",
                                   !.todo = {role \in Roles : Required(role)}]
        OBVIOUS
      <4>2. q.pc = "issue"
        BY <2>1, <4>1 DEF Request
      <4> QED BY <2>1, <3>2, <4>1, <4>2 DEF Base
    <3>3. CASE Keep(r)
      <4>1. PICK role \in Roles : Proceed(r, role)
        BY <3>3 DEF Keep
      <4> QED BY <4>1, ProceedsAt
    <3>4. CASE ChooseWork(r)
      <4>1. PICK role \in Roles :
              Become(r, [p EXCEPT !.pc = "work", !.role = role,
                                  !.number = Len(attempts[role]) + 1])
        BY <2>1, <3>4 DEF ChooseWork
      <4>2. PICK q : q = [p EXCEPT !.pc = "work", !.role = role,
                                   !.number = Len(attempts[role]) + 1]
        OBVIOUS
      <4>3. q.pc = "work"
        BY <2>1, <4>2 DEF Request
      <4> QED BY <4>1, <4>2, <4>3
    <3> QED BY <1>3, <3>1, <3>2, <3>3, <3>4
  <2>3. \A q : q.pc \in {"attempt", "issue", "work"} => Lone(q)
    BY DEF Lone
  <2> QED BY <1>1, <2>2, <2>3, LoneQuiet
<1> QED BY <1>2, <1>3

\* A request alone writes: what the others rely on does not matter.
LEMMA LoneWrite ==
  ASSUME Inv, Lonely, Alone, NEW r \in Requests, ~At(r, "idle"),
         NEW q, Become(r, q), Lone(q)'
  PROVE  \A s \in Requests : Lone(req[s])'
<1>1. req'[r] = q /\ \A s \in Requests \ {r} : req'[s] = req[s]
  BY DEF Inv, Become
<1>2. \A s \in Requests \ {r} : req'[s].pc = "idle"
  BY <1>1 DEF Alone, At
<1>3. \A s \in Requests \ {r} : Lone(req[s])'
  BY <1>2 DEF Lone
<1> QED BY <1>1, <1>3

\* A transition from the state the run is in is added.
LEMMA ChainGrows ==
  ASSUME Inv, Lonely, NEW row \in Rows, row.from = State, Failed(row)',
         log' = Append(log, row),
         \A x \in RowsOf : Failed(x)'
  PROVE  TransitionsChain' /\ \A x \in RowsOf' : Failed(x)'
<1>1. log \in Seq(Rows) /\ Len(log) \in Nat
  BY DEF Inv, World, WorldType
<1>2. PICK t : t = Append(log, row)
  OBVIOUS
<1>3. /\ Len(t) = Len(log) + 1 /\ t[Len(log) + 1] = row
      /\ \A i \in 1..Len(log) : t[i] = log[i]
  BY <1>1, <1>2
<1>4. State = IF Len(log) = 0 THEN "none" ELSE log[Len(log)].to
  <2>1. log = <<>> <=> Len(log) = 0
    BY <1>1
  <2> QED BY <2>1 DEF State, Last
<1>5. ASSUME NEW i \in 1..Len(t)
      PROVE  t[i].from = IF i = 1 THEN "none" ELSE t[i - 1].to
  <2>1. CASE i = Len(log) + 1
    BY <1>1, <1>3, <1>4, <2>1
  <2>2. CASE i # Len(log) + 1
    <3>1. i \in 1..Len(log) /\ (i # 1 => i - 1 \in 1..Len(log))
      BY <1>1, <1>3, <2>2
    <3>2. log[i].from = IF i = 1 THEN "none" ELSE log[i - 1].to
      BY <3>1 DEF Lonely, TransitionsChain
    <3> QED BY <1>3, <3>1, <3>2
  <2> QED BY <2>1, <2>2
<1>6. TransitionsChain'
  BY <1>2, <1>5 DEF TransitionsChain
<1>7. RowsOf' = RowsOf \cup {row}
  <2>1. {Append(log, row)[i] : i \in 1..Len(Append(log, row))} = RowsOf \cup {row}
    BY <1>1, AppendRows DEF RowsOf
  <2> QED BY <2>1 DEF RowsOf
<1> QED BY <1>6, <1>7

LEMMA LoneLog ==
  ASSUME Inv, Lonely, Alone, NEW r \in Requests, InsertTransition(r) \/ Snapshot(r)
  PROVE  Lonely'
<1>1. UNCHANGED <<issued, attempts, assessed>> /\ ~At(r, "idle")
  BY DEF InsertTransition, Snapshot, assessments, At
<1>2. \A x : Failed(x)' <=> Failed(x)
  BY <1>1 DEF Failed
<1>3. \E q : Become(r, q) /\ q.pc \notin {"insert", "snapshot", "judge"}
  <2>1. CASE InsertTransition(r)
    <3>1. req[r].then \in {"recover", "issue"}
      BY <2>1 DEF InsertTransition, At, Inv, PointOK
    <3>2. CASE Done(r)
      <4>1. PICK q : q = [Idle EXCEPT !.pc = "idle"]
        OBVIOUS
      <4>2. q.pc = "idle"
        BY <4>1 DEF Idle
      <4> QED BY <3>2, <4>1, <4>2 DEF Done, Enter
    <3>3. CASE Become(r, [Idle EXCEPT !.pc = req[r].then, !.todo = req[r].todo])
      <4>1. PICK q : q = [Idle EXCEPT !.pc = req[r].then, !.todo = req[r].todo]
        OBVIOUS
      <4>2. q.pc = req[r].then
        BY <4>1 DEF Idle
      <4> QED BY <3>1, <3>3, <4>1, <4>2
    <3> QED BY <2>1, <3>2, <3>3 DEF InsertTransition
  <2>2. CASE Snapshot(r)
    <3>1. req[r] \in Request
      BY DEF Inv
    <3> QED BY <2>2, <3>1 DEF Snapshot, Goto, Request
  <2> QED BY <2>1, <2>2
<1>4. \A s \in Requests : Lone(req[s])'
  <2>1. \A q : q.pc \notin {"insert", "snapshot", "judge"} => Lone(q)'
    BY DEF Lone
  <2> QED BY <1>1, <1>3, <2>1, LoneWrite
<1>5. CASE log' = log
  <2>1. TransitionsChain' /\ RowsOf' = RowsOf
    BY <1>5 DEF Lonely, TransitionsChain, RowsOf
  <2> QED BY <1>2, <1>4, <2>1 DEF Lonely
<1>6. CASE InsertTransition(r) /\ log' = Append(log, req[r].row)
  <2>1. PICK row \in Rows : row = req[r].row
    BY DEF Inv, Request
  <2>2. row.from = State /\ Failed(row)
    BY <1>6, <2>1 DEF InsertTransition, At, Lonely, Lone
  <2> QED BY <1>2, <1>4, <1>6, <2>1, <2>2, ChainGrows DEF Lonely
<1>7. CASE Snapshot(r) /\ log' = Append(log, ScoreRow)
  <2>1. PICK row : row = ScoreRow
    OBVIOUS
  <2>2. row \in Rows /\ Failed(row) /\ row.from = "READY_TO_SCORE"
    BY <2>1, OtherCauses DEF ScoreRow, Row, Rows, States, Final, Causes
  <2>3. State = "READY_TO_SCORE"
    BY <1>7 DEF Snapshot, At, Lonely, Lone
  <2> QED BY <1>2, <1>4, <1>7, <2>1, <2>2, <2>3, ChainGrows DEF Lonely
<1> QED BY <1>5, <1>6, <1>7 DEF InsertTransition, Snapshot

LEMMA LoneWork ==
  ASSUME Inv, Lonely, Alone, NEW r \in Requests, InsertWork(r)
  PROVE  Lonely'
<1>1. UNCHANGED <<log, attempts, assessed>> /\ ~At(r, "idle")
  BY DEF InsertWork, assessments, At
<1>2. \E q : Become(r, q) /\ q.pc = "issue"
  BY ProceedsAt DEF InsertWork
<1>3. \A q : q.pc = "issue" => Lone(q)'
  BY DEF Lone
<1>4. \A s \in Requests : Lone(req[s])'
  BY <1>1, <1>2, <1>3, LoneWrite
<1>5. TransitionsChain' /\ RowsOf' = RowsOf /\ \A x : Failed(x)' <=> Failed(x)
  BY <1>1 DEF Lonely, TransitionsChain, RowsOf, Failed
<1> QED BY <1>4, <1>5 DEF Lonely

\* The role whose attempt is recorded had not made all of its own.
LEMMA AttemptKeepsFailed ==
  ASSUME Inv, NEW r \in Requests, At(r, "attempt"), Free(r), NEW outcome,
         Recorded(r, outcome),
         \A other \in Roles \ {req[r].role} : assessed'[other] = assessed[other]
  PROVE  \A x : Failed(x) => Failed(x)'
<1>1. PICK role \in Roles : role = req[r].role
  BY DEF Inv, Request
<1>2. Len(attempts[role]) < MaxAttempts
  <2>1. issued[role] = Len(attempts[role]) + 1
    BY <1>1, FreeSlot
  <2>2. issued[role] \in 0..MaxAttempts /\ Len(attempts[role]) \in Nat
    BY DEF Inv, World, WorldType
  <2> QED BY <2>1, <2>2
<1>3. \A other \in Roles \ {role} : attempts'[other] = attempts[other]
  <2>1. attempts \in [Roles -> Seq(Outcomes)]
    BY DEF Inv, World, WorldType
  <2>2. PICK new : attempts' = [attempts EXCEPT ![role] = new]
    BY <1>1 DEF Recorded
  <2> QED BY <2>1, <2>2
<1>4. Len(attempts[role]) # MaxAttempts
  <2>1. Len(attempts[role]) \in Nat
    BY DEF Inv, World, WorldType
  <2> QED BY <1>2, <2>1
<1>5. ASSUME NEW x, Failed(x), NEW other \in Roles, x.cause = other
      PROVE  assessed'[other] = None /\ Len(attempts'[other]) = MaxAttempts
  <2>1. assessed[other] = None /\ Len(attempts[other]) = MaxAttempts
    BY <1>5 DEF Failed
  <2>2. other # role
    BY <1>4, <2>1
  <2> QED BY <1>1, <1>3, <2>1, <2>2
<1> QED BY <1>5 DEF Failed

LEMMA LoneAttempt ==
  ASSUME Inv, Lonely, Alone, NEW r \in Requests,
         RecordFailure(r) \/ AcceptNeutral(r) \/ AcceptReview(r)
  PROVE  Lonely'
<1>1. PICK role \in Roles : role = req[r].role
  BY DEF Inv, Request
<1>2. /\ At(r, "attempt") /\ Free(r) /\ ~At(r, "idle") /\ UNCHANGED issued
      /\ \E outcome : Recorded(r, outcome)
      /\ \A other \in Roles \ {role} : assessed'[other] = assessed[other]
  BY <1>1 DEF RecordFailure, AcceptNeutral, AcceptReview, At, Inv, World, WorldType
<1>3. \A x : Failed(x) => Failed(x)'
  BY <1>1, <1>2, AttemptKeepsFailed
<1>4. \A s \in Requests : Lone(req[s])'
  <2>1. CASE RecordFailure(r)
    <3>1. PICK q : Become(r, q) /\ q.pc = "judge" /\ q.role = role
      <4>1. req[r] \in Request
        BY DEF Inv
      <4>2. PICK outcome :
              Become(r, [req[r] EXCEPT !.pc = "judge", !.answer.outcome = outcome])
        BY <2>1 DEF RecordFailure
      <4>3. PICK q : q = [req[r] EXCEPT !.pc = "judge", !.answer.outcome = outcome]
        OBVIOUS
      <4>4. q.pc = "judge" /\ q.role = role
        BY <1>1, <4>1, <4>3 DEF Request
      <4> QED BY <4>2, <4>3, <4>4
    <3>2. assessed'[role] = None
      BY <1>1, <1>2, <2>1, FreeSlot DEF RecordFailure
    <3>3. Len(attempts'[role]) = issued'[role]
      <4>1. PICK outcome : attempts' = [attempts EXCEPT ![role] = Append(@, outcome)]
        BY <1>1, <1>2 DEF Recorded
      <4>2. attempts[role] \in Seq(Outcomes) /\ issued[role] = Len(attempts[role]) + 1
        BY <1>1, <1>2, FreeSlot DEF Inv, World, WorldType
      <4>3. attempts'[role] = Append(attempts[role], outcome)
        BY <4>1 DEF Inv, World, WorldType
      <4> QED BY <1>2, <4>2, <4>3
    <3>4. Lone(q)'
      BY <3>1, <3>2, <3>3 DEF Lone
    <3> QED BY <1>2, <3>1, <3>4, LoneWrite
  <2>2. CASE AcceptNeutral(r) \/ AcceptReview(r)
    <3>1. PICK q : Become(r, q) /\ q.pc = "recover"
      BY <2>2 DEF AcceptNeutral, AcceptReview, Enter, Idle
    <3>2. Lone(q)'
      BY <3>1 DEF Lone
    <3> QED BY <1>2, <3>1, <3>2, LoneWrite
  <2> QED BY <2>1, <2>2
<1>5. CASE log' = log
  <2>1. TransitionsChain' /\ RowsOf' = RowsOf
    BY <1>5 DEF Lonely, TransitionsChain, RowsOf
  <2> QED BY <1>3, <1>4, <2>1 DEF Lonely
<1>6. CASE AcceptReview(r)
  <2>1. PICK v \in Verdicts : v = req[r].answer.verdict
    BY <1>6 DEF AcceptReview, At, Valid, Inv, PointOK, AnswerOK
  <2>2. PICK row : row = Row(StageOf(role), Target(role, v), "REVIEWED")
    OBVIOUS
  <2>3. /\ State = StageOf(role) /\ log' = Append(log, row)
        /\ row.from = State
    BY <1>1, <1>6, <2>1, <2>2 DEF AcceptReview, Row
  <2>4. row \in Rows
    BY <2>2 DEF Row, Rows, States, Final, Causes, StageOf, Target
  <2>5. Failed(row)'
    BY <2>2 DEF Row, Failed
  <2> QED BY <1>3, <1>4, <2>3, <2>4, <2>5, ChainGrows DEF Lonely
<1> QED BY <1>5, <1>6 DEF RecordFailure, AcceptNeutral

LEMMA LoneNext ==
  ASSUME Inv, Lonely, Alone, [Next]_vars
  PROVE  Lonely'
<1>1. ASSUME NEW r \in Requests, Advance(r) PROVE Lonely'
  BY <1>1, LoneRead, LoneExhaustion, LoneOther, LoneLog, LoneWork, LoneAttempt DEF Advance
<1>2. ASSUME NEW r \in Requests, Create(r) \/ Poll(r) \/ Answer(r) \/ Stop(r)
      PROVE  Lonely'
  BY <1>2, LoneRead, LoneOther
<1>3. CASE UNCHANGED vars
  BY <1>3 DEF vars, Lonely, TransitionsChain, RowsOf, State, Failed, Lone
<1> QED BY <1>1, <1>2, <1>3 DEF Next

\* When requests do not overlap, the transitions of a run form a chain and only a
\* role that failed in all its attempts exhausts the run, whatever stops a request
\* (record_transition, record_exhaustion).
THEOREM SoundAlone == Spec /\ []Alone => []AloneRunIsSound
<1>1. Init => Lonely
  <2>1. Lone(Idle)
    BY DEF Lone, Idle
  <2> QED BY <2>1 DEF Init, Lonely, TransitionsChain, RowsOf
<1>2. Inv /\ Lonely /\ Alone /\ [Next]_vars => Lonely'
  BY LoneNext
<1>3. Lonely => AloneRunIsSound
  BY DEF Lonely, Failed, AloneRunIsSound, TransitionsChain, ExhaustedRoleFailed
<1> QED BY <1>1, <1>2, <1>3, Invariant, PTL DEF Spec
=============================================================================
