---------------------------- MODULE LedgerProofs ----------------------------
(***************************************************************************)
(* Proofs about the evidence ledger and the outcomes priced from it, and   *)
(* about the stores beside it: the cohort, the provider's quota and the    *)
(* published snapshots (at the end).                                       *)
(*                                                                         *)
(* The recursive query and the walk are both shown to return the sound     *)
(* tips: the visible rows that nothing visible corrects.  That holds in a  *)
(* ledger of the shape Forest, which every insertion keeps: a row corrects *)
(* an earlier one that no other row corrects and is not published before   *)
(* it.  A maturation run's rows are then the view of the moment it prices  *)
(* as of while no row came in, and the frozen builder sees the same view   *)
(* when nothing is published later.                                        *)
(*                                                                         *)
(* Recursion over rows is reasoned about by the least counterexample       *)
(* (LeastExists), since a row corrects an earlier one.                     *)
(***************************************************************************)
EXTENDS ForwardLedger, Sums, Snapshots, Cohort, Backfill, SequenceTheorems

(* The shape of the ledger: a row corrects an earlier one, no two correct   *)
(* the same, none is published before the one it corrects, none after now.  *)
Forest ==
  /\ Ids = 1 .. Len(events) /\ Len(events) \in Nat
  /\ \A i \in Ids :
       /\ events[i].sup \in 0 .. i - 1 /\ events[i].pat \in 0 .. now
       /\ i \in Corrections /\ events[events[i].sup].pat # 0
            => events[i].pat >= events[events[i].sup].pat
  /\ \A i, j \in Corrections : events[i].sup = events[j].sup => i = j

-----------------------------------------------------------------------------
(* Chains.                                                                 *)

IsPath(f, links) ==
  f = [i \in Ids |-> {i} \cup (IF i \in links THEN f[events[i].sup] ELSE {})]

\* A row corrects an earlier one, so its path is well defined.
LEMMA PathExists ==
  ASSUME Forest, NEW links, links \subseteq Corrections
  PROVE  \E f : IsPath(f, links)
<1> DEFINE UpTo(f, n) == f = [i \in 1 .. n |-> {i} \cup (IF i \in links THEN f[events[i].sup] ELSE {})]
<1>1. PICK N \in Nat : Ids = 1 .. N /\ N = Len(events)
  BY DEF Forest
<1>2. \A i \in 1 .. N : i \in links => events[i].sup \in 1 .. i - 1
  BY <1>1 DEF Forest, Corrections
<1>3. PICK Bad : Bad = {n \in 0 .. N : ~\E f : UpTo(f, n)}
  OBVIOUS
<1>4. Bad = {}
  <2>1. SUFFICES ASSUME Bad # {} PROVE FALSE
    OBVIOUS
  <2>2. Bad \subseteq Nat
    BY <1>3
  <2>3. PICK n \in Bad : \A k \in Bad : n <= k
    BY <2>1, <2>2, LeastExists
  <2>4. n \in 0 .. N /\ ~\E f : UpTo(f, n)
    BY <1>3
  <2>5. CASE n = 0
    <3>1. PICK f : f = [i \in {} |-> {}]
      OBVIOUS
    <3>2. UpTo(f, 0)
      BY <3>1
    <3> QED BY <2>4, <2>5, <3>2
  <2>6. CASE n > 0
    <3>1. n - 1 \in 0 .. N /\ n - 1 \notin Bad
      BY <2>3, <2>4, <2>6
    <3>2. PICK f : UpTo(f, n - 1)
      BY <1>3, <3>1
    <3>3. PICK g : g = [i \in 1 .. n |-> IF i < n THEN f[i]
                                        ELSE {n} \cup (IF n \in links THEN f[events[n].sup] ELSE {})]
      OBVIOUS
    <3>4. ASSUME NEW i \in 1 .. n
          PROVE  g[i] = {i} \cup (IF i \in links THEN g[events[i].sup] ELSE {})
      <4>1. i \in links => events[i].sup \in 1 .. i - 1 /\ g[events[i].sup] = f[events[i].sup]
        BY <1>2, <2>4, <3>3
      <4>2. CASE i < n
        <5>1. i \in 1 .. n - 1
          BY <2>4, <4>2
        <5>2. f[i] = {i} \cup (IF i \in links THEN f[events[i].sup] ELSE {})
          BY <3>2, <5>1
        <5>3. g[i] = f[i]
          BY <3>3, <4>2
        <5> QED BY <4>1, <5>2, <5>3
      <4>3. CASE i = n
        <5>1. g[i] = {n} \cup (IF n \in links THEN f[events[n].sup] ELSE {})
          BY <3>3, <4>3, <2>4
        <5> QED BY <4>1, <4>3, <5>1
      <4> QED BY <2>4, <4>2, <4>3
    <3>5. UpTo(g, n)
      BY <3>3, <3>4
    <3> QED BY <2>4, <3>5
  <2> QED BY <2>4, <2>5, <2>6
<1> HIDE DEF UpTo
<1>5. \E f : UpTo(f, N)
  <2>1. N \in 0 .. N /\ N \notin Bad
    BY <1>4
  <2> QED BY <1>3, <2>1
<1> QED BY <1>1, <1>5 DEF IsPath, UpTo

\* The recursive definition holds, because such a function exists.
LEMMA PathStep ==
  ASSUME Forest, NEW links, links \subseteq Corrections, NEW i \in Ids
  PROVE  Path(links)[i] = {i} \cup (IF i \in links THEN Path(links)[events[i].sup] ELSE {})
<1>1. Path(links) = CHOOSE f : IsPath(f, links)
  BY DEF Path, IsPath
<1>2. IsPath(Path(links), links)
  BY <1>1, PathExists
<1>3. PICK f : f = Path(links)
  OBVIOUS
<1>4. f[i] = {i} \cup (IF i \in links THEN f[events[i].sup] ELSE {})
  BY <1>2, <1>3 DEF IsPath
<1> QED BY <1>3, <1>4

\* A path ends where it started or goes on from what that row corrects.
LEMMA PathBounds ==
  ASSUME Forest, NEW links, links \subseteq Corrections
  PROVE  \A i \in Ids : i \in Path(links)[i] /\ \A j \in Path(links)[i] : j \in Ids /\ j <= i
<1>1. PICK N \in Nat : Ids = 1 .. N /\ N = Len(events)
  BY DEF Forest
<1>2. \A i \in links : i \in Ids /\ events[i].sup \in Ids /\ events[i].sup < i
  BY <1>1 DEF Forest, Corrections
<1>3. PICK f : f = Path(links)
  OBVIOUS
<1>4. \A i \in Ids : f[i] = {i} \cup (IF i \in links THEN f[events[i].sup] ELSE {})
  BY <1>3, PathStep
<1>5. PICK Bad : Bad = {i \in Ids : ~\A j \in f[i] : j \in Ids /\ j <= i}
  OBVIOUS
<1>6. Bad = {}
  <2>1. SUFFICES ASSUME Bad # {} PROVE FALSE
    OBVIOUS
  <2>2. Bad \subseteq Nat
    BY <1>1, <1>5
  <2>3. PICK i \in Bad : \A k \in Bad : i <= k
    BY <2>1, <2>2, LeastExists
  <2>4. PICK j \in f[i] : ~(j \in Ids /\ j <= i)
    BY <1>5
  <2>5. i \in Ids /\ i \in Nat
    BY <1>1, <1>5
  <2>6. i \in links /\ j \in f[events[i].sup]
    BY <1>4, <2>4, <2>5
  <2>7. events[i].sup \in Ids /\ events[i].sup < i /\ events[i].sup \in Nat
    BY <1>1, <1>2, <2>6
  <2>8. events[i].sup \notin Bad
    BY <2>3, <2>5, <2>7
  <2>9. j \in Ids /\ j <= events[i].sup
    BY <1>5, <2>6, <2>7, <2>8
  <2> QED BY <1>1, <2>4, <2>5, <2>7, <2>9
<1> QED BY <1>3, <1>4, <1>5, <1>6

\* Publication moments do not fall along a path once they are known.
LEMMA PathPublished ==
  ASSUME Forest, NEW links, links \subseteq Corrections
  PROVE  \A i \in Ids : \A j \in Path(links)[i] : events[j].pat # 0 => events[j].pat <= events[i].pat
<1>1. PICK N \in Nat : Ids = 1 .. N /\ N = Len(events)
  BY DEF Forest
<1>2. \A i \in links : i \in Ids /\ events[i].sup \in Ids /\ events[i].sup < i
  BY <1>1 DEF Forest, Corrections
<1>3. PICK f : f = Path(links)
  OBVIOUS
<1>4. \A i \in Ids : f[i] = {i} \cup (IF i \in links THEN f[events[i].sup] ELSE {})
  BY <1>3, PathStep
<1>5. PICK Bad : Bad = {i \in Ids : ~\A j \in f[i] : events[j].pat # 0 => events[j].pat <= events[i].pat}
  OBVIOUS
<1>6. \A i \in Ids : events[i].pat \in Nat
  <2> TAKE i \in Ids
  <2>1. events[i].pat \in 0 .. now
    BY DEF Forest
  <2> QED BY <2>1
<1>7. Bad = {}
  <2>1. SUFFICES ASSUME Bad # {} PROVE FALSE
    OBVIOUS
  <2>2. Bad \subseteq Nat
    BY <1>1, <1>5
  <2>3. PICK i \in Bad : \A k \in Bad : i <= k
    BY <2>1, <2>2, LeastExists
  <2>4. PICK j \in f[i] : events[j].pat # 0 /\ ~(events[j].pat <= events[i].pat)
    BY <1>5
  <2>5. i \in Ids /\ i \in Nat
    BY <1>1, <1>5
  <2>6. j \in Ids
    BY <1>3, <2>5, PathBounds
  <2>7. i \in links /\ j \in f[events[i].sup]
    BY <1>4, <1>6, <2>4, <2>5
  <2>8. events[i].sup \in Ids /\ events[i].sup < i /\ events[i].sup \in Nat
    BY <1>1, <1>2, <2>7
  <2>9. events[i].sup \notin Bad
    BY <2>3, <2>5, <2>8
  <2>10. events[j].pat <= events[events[i].sup].pat
    BY <1>5, <2>4, <2>7, <2>8, <2>9
  <2>11. events[j].pat \in Nat /\ events[i].pat \in Nat /\ events[events[i].sup].pat \in Nat
    BY <1>6, <2>5, <2>6, <2>8
  <2>12. events[i].pat >= events[events[i].sup].pat
    <3>1. events[events[i].sup].pat # 0
      BY <2>4, <2>10, <2>11
    <3>2. i \in Corrections
      BY <2>7
    <3> QED BY <2>5, <3>1, <3>2 DEF Forest
  <2> QED BY <2>4, <2>10, <2>11, <2>12
<1> QED BY <1>3, <1>5, <1>7

\* No row has two corrections, so a line does not branch: from one row of it
\* to a later one leads a correction of the first.
LEMMA LineIsChain ==
  ASSUME Forest, NEW root \in Ids
  PROVE  \A k \in Line(root) : \A i \in Line(root) : i < k =>
           \E j \in Corrections : events[j].sup = i /\ j \in Path(Corrections)[k]
<1>1. PICK N \in Nat : Ids = 1 .. N /\ N = Len(events)
  BY DEF Forest
<1>2. \A i \in Corrections : i \in Ids /\ events[i].sup \in Ids /\ events[i].sup < i
  BY <1>1 DEF Forest, Corrections
<1>3. PICK f : f = Path(Corrections)
  OBVIOUS
<1>4. \A i \in Ids : f[i] = {i} \cup (IF i \in Corrections THEN f[events[i].sup] ELSE {})
  BY <1>3, PathStep
<1>5. \A i \in Ids : i \in f[i] /\ \A j \in f[i] : j \in Ids /\ j <= i
  BY <1>3, PathBounds
<1>6. PICK L : L = {i \in Ids : root \in f[i]}
  OBVIOUS
<1>7. Line(root) = L
  BY <1>3, <1>6 DEF Line, Reached
<1>8. \A i, j \in Corrections : events[i].sup = events[j].sup => i = j
  BY DEF Forest
<1>9. PICK Bad : Bad = {k \in L : ~\A i \in L : i < k =>
                          \E j \in Corrections : events[j].sup = i /\ j \in f[k]}
  OBVIOUS
<1>10. Bad = {}
  <2>1. SUFFICES ASSUME Bad # {} PROVE FALSE
    OBVIOUS
  <2>2. Bad \subseteq Nat
    BY <1>1, <1>6, <1>9
  <2>3. PICK k \in Bad : \A m \in Bad : k <= m
    BY <2>1, <2>2, LeastExists
  <2>4. PICK i \in L : i < k /\ ~\E j \in Corrections : events[j].sup = i /\ j \in f[k]
    BY <1>9
  <2>5. k \in Ids /\ i \in Ids /\ k \in Nat /\ i \in Nat /\ root \in f[k] /\ root \in f[i]
    BY <1>1, <1>6, <1>9
  <2>6. root <= i /\ root \in Nat
    BY <1>1, <1>5, <2>5
  <2>7. k \in Corrections /\ root \in f[events[k].sup]
    BY <1>4, <2>4, <2>5, <2>6
  <2>8. PICK m \in Ids : m = events[k].sup /\ m < k /\ m \in Nat
    BY <1>1, <1>2, <2>7
  <2>9. m \in L /\ f[m] \subseteq f[k]
    BY <1>4, <1>6, <2>5, <2>7, <2>8
  <2>10. m \notin Bad
    BY <2>3, <2>5, <2>8
  <2>11. CASE m = i
    BY <1>5, <2>4, <2>5, <2>7, <2>8, <2>11
  <2>12. CASE i < m
    <3>1. PICK j \in Corrections : events[j].sup = i /\ j \in f[m]
      BY <1>9, <2>9, <2>10, <2>12
    <3> QED BY <2>4, <2>9, <3>1
  <2>13. CASE m < i
    <3>1. i \notin Bad
      BY <2>3, <2>4, <2>5
    <3>2. PICK j \in Corrections : events[j].sup = m /\ j \in f[i]
      BY <1>9, <2>9, <2>13, <3>1
    <3>3. j <= i
      BY <1>5, <2>5, <3>2
    <3>4. j = k
      BY <1>8, <2>7, <2>8, <3>2
    <3> QED BY <2>4, <2>5, <3>3, <3>4
  <2> QED BY <2>5, <2>8, <2>11, <2>12, <2>13
<1> QED BY <1>3, <1>7, <1>9, <1>10

-----------------------------------------------------------------------------
(* What both readers return.                                               *)

(* A visible row that nothing visible corrects.                             *)
Tip(i, t) == i \in Ids /\ Visible(i, t) /\ \A j \in Successors(i) : ~Visible(j, t)

\* A row with something before it on the way back is reached from the first
\* row that satisfies what all of the way does.
LEMMA RootExists ==
  ASSUME Forest, NEW links, links \subseteq Corrections, NEW i \in Ids
  PROVE  \E root \in Ids \ links : root \in Path(links)[i]
<1>1. PICK N \in Nat : Ids = 1 .. N /\ N = Len(events)
  BY DEF Forest
<1>2. \A k \in links : k \in Ids /\ events[k].sup \in Ids /\ events[k].sup < k
  BY <1>1 DEF Forest, Corrections
<1>3. PICK f : f = Path(links)
  OBVIOUS
<1>4. \A k \in Ids : f[k] = {k} \cup (IF k \in links THEN f[events[k].sup] ELSE {})
  BY <1>3, PathStep
<1>5. f[i] \subseteq Nat /\ i \in f[i] /\ \A k \in f[i] : k \in Ids
  BY <1>1, <1>3, PathBounds
<1>6. PICK Bad : Bad = {k \in Ids : ~\E root \in Ids \ links : root \in f[k]}
  OBVIOUS
<1>7. Bad = {}
  <2>1. SUFFICES ASSUME Bad # {} PROVE FALSE
    OBVIOUS
  <2>2. Bad \subseteq Nat
    BY <1>1, <1>6
  <2>3. PICK k \in Bad : \A m \in Bad : k <= m
    BY <2>1, <2>2, LeastExists
  <2>4. k \in Ids /\ k \in Nat /\ ~\E root \in Ids \ links : root \in f[k]
    BY <1>1, <1>6
  <2>5. k \in links
    BY <1>4, <2>4
  <2>6. PICK m \in Ids : m = events[k].sup /\ m < k /\ m \in Nat
    BY <1>1, <1>2, <2>5
  <2>7. m \notin Bad
    BY <2>3, <2>4, <2>6
  <2>8. PICK root \in Ids \ links : root \in f[m]
    BY <1>6, <2>7
  <2>9. f[m] \subseteq f[k]
    BY <1>4, <2>4, <2>5, <2>6
  <2> QED BY <2>4, <2>8, <2>9
<1> QED BY <1>3, <1>6, <1>7

\* A visible row leads back to an anchor over visible corrections.
LEMMA AnchorExists ==
  ASSUME Forest, NEW t, NEW i \in Ids, Visible(i, t)
  PROVE  \E root \in Anchors(t, Ids) : root \in Path({k \in Corrections \cap Ids : Visible(k, t)})[i]
<1>1. PICK N \in Nat : Ids = 1 .. N /\ N = Len(events)
  BY DEF Forest
<1>2. PICK links : links = {k \in Corrections \cap Ids : Visible(k, t)}
  OBVIOUS
<1>3. links \subseteq Corrections
  BY <1>2
<1>4. \A k \in Corrections : k \in Ids /\ events[k].sup \in Ids /\ events[k].sup < k
  BY <1>1 DEF Forest, Corrections
<1>5. PICK f : f = Path(links)
  OBVIOUS
<1>6. \A k \in Ids : f[k] = {k} \cup (IF k \in links THEN f[events[k].sup] ELSE {})
  BY <1>3, <1>5, PathStep
<1>7. PICK A : A = Anchors(t, Ids)
  OBVIOUS
<1>8. \A k \in Ids : Visible(k, t) /\ k \notin A => k \in links /\ Visible(events[k].sup, t)
  BY <1>2, <1>7 DEF Anchors
<1>9. PICK Bad : Bad = {k \in Ids : Visible(k, t) /\ ~\E root \in A : root \in f[k]}
  OBVIOUS
<1>10. Bad = {}
  <2>1. SUFFICES ASSUME Bad # {} PROVE FALSE
    OBVIOUS
  <2>2. Bad \subseteq Nat
    BY <1>1, <1>9
  <2>3. PICK k \in Bad : \A m \in Bad : k <= m
    BY <2>1, <2>2, LeastExists
  <2>4. k \in Ids /\ k \in Nat /\ Visible(k, t) /\ ~\E root \in A : root \in f[k]
    BY <1>1, <1>9
  <2>5. k \in links /\ Visible(events[k].sup, t)
    BY <1>6, <1>8, <2>4
  <2>6. PICK m \in Ids : m = events[k].sup /\ m < k /\ m \in Nat
    BY <1>1, <1>3, <1>4, <2>5
  <2>7. m \notin Bad
    BY <2>3, <2>4, <2>6
  <2>8. PICK root \in A : root \in f[m]
    BY <1>9, <2>5, <2>6, <2>7
  <2>9. f[m] \subseteq f[k]
    BY <1>6, <2>4, <2>5, <2>6
  <2> QED BY <2>4, <2>8, <2>9
<1> QED BY <1>2, <1>5, <1>7, <1>9, <1>10

\* The recursive query returns the tips.
LEMMA TerminalsAreTips ==
  ASSUME Forest, NEW t
  PROVE  \A i : i \in Terminals(t, Ids) <=> Tip(i, t)
<1>1. PICK N \in Nat : Ids = 1 .. N /\ N = Len(events)
  BY DEF Forest
<1>2. PICK links : links = {k \in Corrections \cap Ids : Visible(k, t)}
  OBVIOUS
<1>3. links \subseteq Corrections /\ \A k \in Corrections : k \in Ids /\ events[k].sup \in Ids
  BY <1>1, <1>2 DEF Forest, Corrections
<1>4. PICK f : f = Path(links)
  OBVIOUS
<1>5. \A k \in Ids : f[k] = {k} \cup (IF k \in links THEN f[events[k].sup] ELSE {})
  BY <1>3, <1>4, PathStep
<1>6. PICK A : A = Anchors(t, Ids)
  OBVIOUS
<1>7. \A root \in A : root \in Ids /\ Visible(root, t)
  BY <1>6 DEF Anchors
<1>8. \A i : i \in Terminals(t, Ids) <=> \E root \in A : i \in Ends({k \in Ids : root \in f[k]})
  BY <1>2, <1>4, <1>6 DEF Terminals, Reached
<1>9. \A i \in Ids : \A j \in Successors(i) : j \in Corrections /\ j \in Ids /\ events[j].sup = i
  BY <1>1 DEF Successors, Corrections
<1>10. ASSUME NEW i, NEW root \in A, i \in Ends({k \in Ids : root \in f[k]})
       PROVE  Tip(i, t)
  <2>1. i \in Ids /\ root \in f[i] /\ \A j \in Successors(i) : ~(j \in Ids /\ root \in f[j])
    BY <1>10 DEF Ends
  <2>2. Visible(i, t)
    <3>1. i \in links \/ root = i
      BY <1>5, <2>1
    <3> QED BY <1>2, <1>7, <3>1
  <2>3. ASSUME NEW j \in Successors(i), Visible(j, t) PROVE FALSE
    <3>1. j \in links /\ j \in Ids /\ events[j].sup = i
      BY <1>2, <1>9, <2>1, <2>3
    <3>2. f[j] = {j} \cup f[i]
      BY <1>5, <3>1
    <3> QED BY <2>1, <3>1, <3>2
  <2> QED BY <2>1, <2>2, <2>3 DEF Tip
<1>11. ASSUME NEW i, Tip(i, t)
       PROVE  \E root \in A : i \in Ends({k \in Ids : root \in f[k]})
  <2>1. i \in Ids /\ Visible(i, t) /\ \A j \in Successors(i) : ~Visible(j, t)
    BY <1>11 DEF Tip
  <2>2. PICK root \in A : root \in f[i]
    BY <1>2, <1>4, <1>6, <2>1, AnchorExists
  <2>3. ASSUME NEW j \in Successors(i), root \in f[j] PROVE FALSE
    <3>1. ~Visible(j, t) /\ j \in Ids
      BY <1>9, <2>1
    <3>2. j \notin links
      BY <1>2, <3>1
    <3>3. root = j
      BY <1>5, <2>3, <3>1, <3>2
    <3> QED BY <1>7, <3>1, <3>3
  <2> QED BY <2>1, <2>2, <2>3 DEF Ends
<1> QED BY <1>8, <1>10, <1>11

\* A bounded nonempty set of naturals has a maximum.
LEMMA MaxIn ==
  ASSUME NEW S, NEW n \in Nat, S \subseteq 1 .. n, S # {}
  PROVE  Max(S) \in S /\ \A y \in S : y <= Max(S)
<1>1. \E x \in S : \A y \in S : y <= x
  <2>1. S \subseteq Int /\ n \in Int /\ \A x \in S : x <= n
    OBVIOUS
  <2> QED BY <2>1, GreatestExists
<1>2. \E x \in S : \A y \in S : x >= y
  BY <1>1
<1>3. Max(S) \in S /\ \A y \in S : Max(S) >= y
  BY <1>2 DEF Max
<1> QED BY <1>3

\* The walk in Python returns the sound tips.
LEMMA WalkFindsTips ==
  ASSUME Forest, NEW t \in Nat
  PROVE  \A i : i \in VisibleRecords(t) <=> Tip(i, t) /\ Sound(i)
<1>1. PICK N \in Nat : Ids = 1 .. N /\ N = Len(events)
  BY DEF Forest
<1>2. \A k \in Corrections : k \in Ids /\ events[k].sup \in Ids /\ events[k].sup < k
  BY <1>1 DEF Forest, Corrections
<1>3. PICK f : f = Path(Corrections)
  OBVIOUS
<1>4. \A k \in Ids : f[k] = {k} \cup (IF k \in Corrections THEN f[events[k].sup] ELSE {})
  BY <1>3, PathStep
<1>5. \A root, i : i \in Line(root) <=> i \in Ids /\ root \in f[i]
  BY <1>3 DEF Line, Reached
<1>6. \A i \in Ids : \A j \in Successors(i) : j \in Corrections /\ j \in Ids /\ events[j].sup = i
  BY <1>1 DEF Successors, Corrections
<1>7. \A i \in Ids : ~(Cardinality(Successors(i)) > 1)
  <2> TAKE i \in Ids
  <2>1. CASE Successors(i) = {}
    <3>1. Cardinality(Successors(i)) = 0
      BY <2>1, FS_EmptySet
    <3> QED BY <3>1
  <2>2. CASE Successors(i) # {}
    <3>1. PICK j : j \in Successors(i)
      BY <2>2
    <3>2. \A k \in Successors(i) : k = j
      BY <1>6, <3>1 DEF Forest
    <3>3. Successors(i) = {j}
      BY <3>1, <3>2
    <3>4. Cardinality({j}) = 1
      BY FS_Singleton
    <3> QED BY <3>3, <3>4
  <2> QED BY <2>1, <2>2
<1>8. \A k \in Ids : k \in Nat /\ events[k].pat \in Nat
  <2> TAKE k \in Ids
  <2>1. events[k].pat \in 0 .. now
    BY DEF Forest
  <2> QED BY <1>1, <2>1
<1>9. \A root : ~\E i \in Line(root) : Cardinality(Successors(i)) > 1
  BY <1>5, <1>7
<1> DEFINE Seen(root) == {i \in Line(root) : Visible(i, t)}
<1>10. \A root : Resolved(root, t) = IF Seen(root) = {} THEN {} ELSE {Max(Seen(root))}
  BY <1>9 DEF Resolved
<1>11. \A root : Seen(root) \subseteq 1 .. N
  BY <1>1, <1>5
<1>12. \A root : Seen(root) # {} => Max(Seen(root)) \in Seen(root) /\ \A y \in Seen(root) : y <= Max(Seen(root))
  <2> TAKE root
  <2>1. PICK S : S = Seen(root)
    OBVIOUS
  <2>2. S # {} => Max(S) \in S /\ \A y \in S : y <= Max(S)
    BY <1>11, <2>1, MaxIn
  <2> QED BY <2>1, <2>2
<1>13. \A i : i \in VisibleRecords(t) <=> Sound(i) /\ \E root \in Ids \ Corrections : i \in Resolved(root, t)
  BY DEF VisibleRecords
<1>s. \A root, i : i \in Seen(root) <=> i \in Ids /\ root \in f[i] /\ Visible(i, t)
  BY <1>5
<1> HIDE DEF Seen
<1>14. ASSUME NEW i, NEW root \in Ids \ Corrections, i \in Resolved(root, t)
       PROVE  Tip(i, t)
  <2>1. i \in Seen(root) /\ \A y \in Seen(root) : y <= i
    BY <1>10, <1>12, <1>14
  <2>2. i \in Ids /\ root \in f[i] /\ Visible(i, t)
    BY <1>s, <2>1
  <2>3. ASSUME NEW j \in Successors(i), Visible(j, t) PROVE FALSE
    <3>1. j \in Corrections /\ j \in Ids /\ events[j].sup = i /\ i < j
      BY <1>2, <1>6, <2>2
    <3>2. root \in f[j]
      BY <1>4, <2>2, <3>1
    <3>3. j <= i
      BY <1>s, <2>1, <2>3, <3>1, <3>2
    <3> QED BY <1>8, <2>2, <3>1, <3>3
  <2> QED BY <2>2, <2>3 DEF Tip
<1>15. ASSUME NEW i, Tip(i, t)
       PROVE  \E root \in Ids \ Corrections : i \in Resolved(root, t)
  <2>1. i \in Ids /\ Visible(i, t) /\ \A j \in Successors(i) : ~Visible(j, t)
    BY <1>15 DEF Tip
  <2>2. PICK root \in Ids \ Corrections : root \in f[i]
    BY <1>3, <2>1, RootExists
  <2>3. PICK k : k = Max(Seen(root))
    OBVIOUS
  <2>4. i \in Seen(root) /\ k \in Seen(root) /\ i <= k
    BY <1>s, <1>12, <2>1, <2>2, <2>3
  <2>5. k \in Ids /\ root \in f[k] /\ Visible(k, t)
    BY <1>s, <2>4
  <2>6. ASSUME i < k PROVE FALSE
    <3>1. PICK j \in Corrections : events[j].sup = i /\ j \in f[k]
      BY <1>3, <1>5, <2>1, <2>2, <2>5, <2>6, LineIsChain
    <3>2. j \in Ids /\ j \in Successors(i)
      BY <1>2, <3>1 DEF Successors
    <3>3. events[i].pat # 0 /\ events[i].pat \in Nat /\ events[j].pat \in Nat /\ events[k].pat \in Nat
          /\ events[k].pat <= t
      BY <1>8, <2>1, <2>5, <3>2 DEF Visible
    <3>4. events[j].pat >= events[i].pat
      BY <3>1, <3>2, <3>3 DEF Forest
    <3>5. events[j].pat # 0
      BY <3>3, <3>4
    <3>6. events[j].pat <= events[k].pat
      BY <1>3, <2>5, <3>1, <3>5, PathPublished
    <3>7. events[j].pat <= t
      BY <3>3, <3>6
    <3>8. Visible(j, t)
      BY <3>5, <3>7 DEF Visible
    <3> QED BY <2>1, <3>2, <3>8
  <2>7. k = i
    BY <1>8, <2>1, <2>4, <2>5, <2>6
  <2> QED BY <1>10, <2>3, <2>4, <2>7
<1> QED BY <1>13, <1>14, <1>15

\* So the readers agree on every ledger of this shape.
LEMMA ForestAgrees ==
  ASSUME Forest, LastMoment \in Nat
  PROVE  ReadersAgree
<1> SUFFICES ASSUME NEW t \in 1 .. LastMoment PROVE VisibleRecords(t) = Historical(t)
  BY DEF ReadersAgree
<1>1. \A i : i \in VisibleRecords(t) <=> Tip(i, t) /\ Sound(i)
  BY WalkFindsTips
<1>2. \A i : i \in Historical(t) <=> Tip(i, t) /\ Sound(i)
  BY TerminalsAreTips DEF Historical
<1> QED BY <1>1, <1>2

-----------------------------------------------------------------------------
(* Every operation keeps the shape.                                        *)

LedgerInv ==
  /\ \E S : events \in Seq(S)
  /\ batch \in Seq(Records)
  /\ now \in 1 .. LastMoment
  /\ Forest
  /\ \A i \in Ids : \E r \in Records : events[i].body = r.body

\* What appending does to a sequence.
LEMMA Appended ==
  ASSUME NEW S, NEW s \in Seq(S), NEW x
  PROVE  LET a == Append(s, x)
         IN  /\ a \in Seq(S \cup {x})
             /\ Len(a) = Len(s) + 1 /\ DOMAIN a = 1 .. Len(s) + 1
             /\ \A i \in 1 .. Len(s) : a[i] = s[i]
             /\ a[Len(s) + 1] = x
<1> PICK T : T = S \cup {x}
  OBVIOUS
<1>1. s \in Seq(T) /\ x \in T
  OBVIOUS
<1> QED BY <1>1

\* An insertable row keeps the shape.
LEMMA ForestGrows ==
  ASSUME Forest, NEW S, events \in Seq(S), NEW row, now \in Nat,
         row.sup \in 0 .. Len(events), row.pat \in 0 .. now,
         NotBackdated(row), SingleSuccessor(row),
         events' = Append(events, row), now' = now
  PROVE  Forest'
<1>1. PICK n \in Nat : n = Len(events) /\ Ids = 1 .. n /\ DOMAIN events = 1 .. n
  BY DEF Forest, Ids
<1>2. /\ Len(events') = n + 1 /\ DOMAIN events' = 1 .. n + 1
      /\ \A i \in 1 .. n : events'[i] = events[i]
      /\ events'[n + 1] = row
  BY <1>1, Appended
<1>3. Ids' = 1 .. n + 1
  BY <1>2 DEF Ids
<1>4. Corrections' = Corrections \cup (IF row.sup # 0 THEN {n + 1} ELSE {})
  <2>1. Corrections' = {i \in 1 .. n + 1 : events'[i].sup # 0}
    BY <1>3 DEF Corrections
  <2>2. Corrections = {i \in 1 .. n : events[i].sup # 0}
    BY <1>1 DEF Corrections
  <2>3. ASSUME NEW i \in 1 .. n + 1 PROVE i \in 1 .. n \/ i = n + 1
    OBVIOUS
  <2>4. \A i \in 1 .. n : i \in 1 .. n + 1
    OBVIOUS
  <2>5. n + 1 \in 1 .. n + 1
    OBVIOUS
  <2> QED BY <1>2, <2>1, <2>2, <2>3, <2>4, <2>5
<1>5. ASSUME NEW i \in Ids'
      PROVE  /\ events'[i].sup \in 0 .. i - 1 /\ events'[i].pat \in 0 .. now
             /\ i \in Corrections' /\ events'[events'[i].sup].pat # 0
                  => events'[i].pat >= events'[events'[i].sup].pat
  <2>1. CASE i \in 1 .. n
    <3>1. /\ events[i].sup \in 0 .. i - 1 /\ events[i].pat \in 0 .. now
          /\ i \in Corrections /\ events[events[i].sup].pat # 0
               => events[i].pat >= events[events[i].sup].pat
      BY <1>1, <2>1 DEF Forest
    <3>2. events'[i] = events[i]
      BY <1>2, <2>1
    <3>3. i # n + 1
      BY <2>1
    <3>4. i \in Corrections' => i \in Corrections
      BY <1>4, <3>3
    <3>5. i \in Corrections => events[i].sup \in 1 .. n
      BY <1>1, <2>1, <3>1 DEF Corrections
    <3>6. i \in Corrections => events'[events[i].sup] = events[events[i].sup]
      BY <1>2, <3>5
    <3> QED BY <3>1, <3>2, <3>4, <3>6
  <2>2. CASE i = n + 1
    <3>1. events'[i] = row
      BY <1>2, <2>2
    <3>2. row.sup # 0 => row.sup \in 1 .. n
      BY <1>1
    <3>3. row.sup # 0 => events'[row.sup] = events[row.sup]
      BY <1>2, <3>2
    <3>4. row.sup # 0 /\ events[row.sup].pat # 0 => row.pat >= events[row.sup].pat
      BY DEF NotBackdated
    <3>5. i \in Corrections' => row.sup # 0
      <4>1. Corrections \subseteq 1 .. n
        BY <1>1 DEF Corrections
      <4> QED BY <1>4, <2>2, <4>1
    <3>6. row.sup \in 0 .. i - 1
      BY <1>1, <2>2
    <3> QED BY <3>1, <3>3, <3>4, <3>5, <3>6
  <2>3. i \in 1 .. n \/ i = n + 1
    <3>1. i \in 1 .. n + 1
      BY <1>3
    <3> QED BY <3>1
  <2> QED BY <2>1, <2>2, <2>3
<1>6. ASSUME NEW i \in Corrections', NEW j \in Corrections', events'[i].sup = events'[j].sup
      PROVE  i = j
  <2>1. \A k \in Corrections : k \in 1 .. n /\ events'[k] = events[k]
    BY <1>1, <1>2 DEF Corrections
  <2>2. \A k \in Corrections : row.sup # 0 => events[k].sup # row.sup
    BY <1>1 DEF SingleSuccessor, Successors, Corrections
  <2>3. \A k \in Corrections' : k \in Corrections \/ (row.sup # 0 /\ k = n + 1 /\ events'[k] = row)
    BY <1>2, <1>4
  <2>4. CASE i \in Corrections /\ j \in Corrections
    <3>1. events[i].sup = events[j].sup
      BY <1>6, <2>1, <2>4
    <3> QED BY <2>4, <3>1 DEF Forest
  <2>5. CASE i \notin Corrections /\ j \notin Corrections
    BY <2>3, <2>5
  <2>6. CASE i \in Corrections /\ j \notin Corrections
    <3>1. row.sup # 0 /\ events'[j].sup = row.sup
      BY <2>3, <2>6
    <3>2. events'[i].sup # row.sup
      BY <2>1, <2>2, <2>6, <3>1
    <3> QED BY <1>6, <3>1, <3>2
  <2>7. CASE i \notin Corrections /\ j \in Corrections
    <3>1. row.sup # 0 /\ events'[i].sup = row.sup
      BY <2>3, <2>7
    <3>2. events'[j].sup # row.sup
      BY <2>1, <2>2, <2>7, <3>1
    <3> QED BY <1>6, <3>1, <3>2
  <2> QED BY <2>4, <2>5, <2>6, <2>7
<1>7. Len(events') \in Nat /\ Ids' = 1 .. Len(events')
  BY <1>2, <1>3
<1>8. \A i \in Ids' :
        /\ events'[i].sup \in 0 .. i - 1 /\ events'[i].pat \in 0 .. now'
        /\ i \in Corrections' /\ events'[events'[i].sup].pat # 0
             => events'[i].pat >= events'[events'[i].sup].pat
  BY <1>5
<1>9. \A i, j \in Corrections' : events'[i].sup = events'[j].sup => i = j
  BY <1>6
<1> QED BY <1>7, <1>8, <1>9 DEF Forest

\* An empty ledger has the shape.
LEMMA LedgerInitial == LedgerInit => LedgerInv
<1> SUFFICES ASSUME LedgerInit PROVE LedgerInv
  OBVIOUS
<1> USE DEF LedgerInit
<1>1. events = <<>> /\ Ids = {} /\ Len(events) = 0
  BY DEF Ids
<1>2. Corrections = {}
  BY <1>1 DEF Corrections
<1>3. events \in Seq({}) /\ batch \in Seq(Records)
  OBVIOUS
<1>4. now \in 1 .. LastMoment
  BY LedgerAssumption
<1>5. Forest
  BY <1>1, <1>2 DEF Forest
<1> QED BY <1>1, <1>3, <1>4, <1>5 DEF LedgerInv

\* A new record is inserted.
LEMMA IngestNewKeeps ==
  ASSUME LedgerInv, IngestNew
  PROVE  LedgerInv'
<1>1. PICK S : events \in Seq(S)
  BY DEF LedgerInv
<1>2. PICK r : r = Head(batch)
  OBVIOUS
<1>3. r \in Records /\ batch' \in Seq(Records) /\ r.pat \in Nat
  <2>1. batch \in Seq(Records) /\ batch # <<>> /\ batch' = Tail(batch)
    BY DEF LedgerInv, IngestNew
  <2>2. r \in Records /\ batch' \in Seq(Records)
    BY <1>2, <2>1
  <2> QED BY <2>2, LedgerAssumption
<1>4. PICK row : row = Row(r)
  OBVIOUS
<1>5. events' = Append(events, row) /\ PredecessorKnown(r) /\ Insertable(row) /\ now' = now
  BY <1>2, <1>4 DEF IngestNew
<1>6. row.pat = r.pat /\ row.body = r.body
  BY <1>4 DEF Row
<1>7. row.sup \in 0 .. Len(events)
  <2>1. CASE r.sup = "none"
    <3>1. row.sup = 0
      BY <1>4, <2>1 DEF Row
    <3>2. Len(events) \in Nat
      BY <1>1
    <3> QED BY <3>1, <3>2
  <2>2. CASE r.sup # "none"
    <3>1. PICK H : H = Held(r.sup)
      OBVIOUS
    <3>2. H # {}
      BY <1>5, <2>2, <3>1 DEF PredecessorKnown
    <3>3. row.sup = CHOOSE i \in H : TRUE
      BY <1>4, <2>2, <3>1 DEF Row
    <3>4. row.sup \in H
      BY <3>2, <3>3
    <3>5. row.sup \in Ids
      BY <3>1, <3>4 DEF Held
    <3>6. PICK n \in Nat : n = Len(events) /\ Ids = 1 .. n
      BY DEF LedgerInv, Forest
    <3> QED BY <3>5, <3>6
  <2> QED BY <2>1, <2>2
<1>8. now \in Nat /\ now \in 1 .. LastMoment
  BY LedgerAssumption DEF LedgerInv
<1>9. row.pat \in 0 .. now
  BY <1>3, <1>5, <1>6, <1>8 DEF Insertable, Wellformed
<1>10. Forest
  BY DEF LedgerInv
<1>11. Forest'
  BY <1>1, <1>5, <1>7, <1>8, <1>9, <1>10, ForestGrows DEF Insertable
<1>12. PICK n \in Nat : n = Len(events) /\ Ids = 1 .. n
  BY <1>10 DEF Forest
<1>13. /\ events' \in Seq(S \cup {row}) /\ DOMAIN events' = 1 .. n + 1
       /\ \A i \in 1 .. n : events'[i] = events[i]
       /\ events'[n + 1] = row
  BY <1>1, <1>5, <1>12, Appended
<1>14. \A i \in Ids' : \E q \in Records : events'[i].body = q.body
  <2> SUFFICES ASSUME NEW i \in 1 .. n + 1 PROVE \E q \in Records : events'[i].body = q.body
    BY <1>13 DEF Ids
  <2>1. CASE i \in 1 .. n
    BY <1>12, <1>13, <2>1 DEF LedgerInv
  <2>2. CASE i = n + 1
    BY <1>3, <1>6, <1>13, <2>2
  <2> QED BY <2>1, <2>2
<1> QED BY <1>3, <1>5, <1>8, <1>11, <1>13, <1>14 DEF LedgerInv

\* Everything else leaves the rows alone.
LEMMA LedgerStep == LedgerInv /\ [LedgerNext]_ledgerVars => LedgerInv'
<1> SUFFICES ASSUME LedgerInv, [LedgerNext]_ledgerVars PROVE LedgerInv'
  OBVIOUS
<1>1. ASSUME events' = events, batch' \in Seq(Records), now' \in 1 .. LastMoment, now <= now'
      PROVE  LedgerInv'
  <2>1. now \in Nat /\ now' \in Nat
    BY <1>1, LedgerAssumption DEF LedgerInv
  <2>2. Ids' = Ids /\ Corrections' = Corrections /\ Len(events') = Len(events)
    BY <1>1 DEF Ids, Corrections
  <2>3. \A x \in 0 .. now : x \in 0 .. now'
    BY <1>1, <2>1
  <2>4. Forest'
    <3>1. Forest
      BY DEF LedgerInv
    <3> QED BY <1>1, <2>2, <2>3, <3>1 DEF Forest
  <2> QED BY <1>1, <2>2, <2>4 DEF LedgerInv
<1>2. batch \in Seq(Records) /\ now \in 1 .. LastMoment /\ now <= now /\ now \in Nat /\ LastMoment \in Nat
  BY LedgerAssumption DEF LedgerInv
<1>3. CASE Ingest
  <2>1. CASE IngestNew
    BY <2>1, IngestNewKeeps
  <2>2. CASE IngestAgain
    <3>1. events' = events /\ now' = now /\ batch' \in Seq(Records)
      BY <1>2, <2>2 DEF IngestAgain
    <3> QED BY <1>1, <1>2, <3>1
  <2>3. CASE IngestStops
    <3>1. events' = events /\ now' = now /\ batch' \in Seq(Records)
      BY <2>3 DEF IngestStops
    <3> QED BY <1>1, <1>2, <3>1
  <2> QED BY <1>3, <2>1, <2>2, <2>3 DEF Ingest
<1>4. CASE Tick
  <2>1. events' = events /\ batch' = batch /\ now' = now + 1 /\ now < LastMoment
    BY <1>4 DEF Tick
  <2>2. now' \in 1 .. LastMoment /\ now <= now'
    BY <1>2, <2>1
  <2> QED BY <1>1, <1>2, <2>1, <2>2
<1>5. ASSUME NEW b \in Batches, StartBatch(b) PROVE LedgerInv'
  <2>1. events' = events /\ now' = now /\ batch' = b /\ b \in Seq(Records)
    BY <1>5, LedgerAssumption DEF StartBatch
  <2> QED BY <1>1, <1>2, <2>1
<1>6. CASE UNCHANGED ledgerVars
  <2>1. events' = events /\ now' = now /\ batch' = batch
    BY <1>6 DEF ledgerVars
  <2> QED BY <1>1, <1>2, <2>1
<1> QED BY <1>3, <1>4, <1>5, <1>6 DEF LedgerNext

\* Every ledger that ingestion can build has the shape: evidence.py's checks
\* and the table's one-successor index are enough for that.
THEOREM LedgerInvariant == LedgerSpec => []LedgerInv
BY LedgerInitial, LedgerStep, PTL DEF LedgerSpec

\* The store's recursive query (EvidenceStore.historical) and the portfolio
\* plane's walk (_visible_records) always agree.
THEOREM ReadersAlwaysAgree == LedgerSpec => []ReadersAgree
<1>1. LedgerInv => ReadersAgree
  BY ForestAgrees, LedgerAssumption DEF LedgerInv
<1> QED BY <1>1, LedgerInvariant, PTL

-----------------------------------------------------------------------------
(* Outcomes.                                                               *)

NotDelisted == [row |-> 0, event |-> 0]

(* What a reader at moment t returns, as long as the rows stay the same.    *)
IsView(rows, t) ==
  /\ rows = [i \in DOMAIN rows |-> rows[i]]
  /\ \A i : i \in DOMAIN rows <=> Tip(i, t) /\ Sound(i)
  /\ \A i \in DOMAIN rows : rows[i] = events[i].body

\* A reader's rows are a view.
LEMMA ResolveIsView ==
  ASSUME Forest, NEW t \in Nat
  PROVE  IsView(Resolve(t), t)
<1>1. PICK R : R = Resolve(t)
  OBVIOUS
<1>2. R = [i \in VisibleRecords(t) |-> events[i].body]
  BY <1>1 DEF Resolve
<1>3. DOMAIN R = VisibleRecords(t)
  BY <1>2
<1>4. \A i : i \in VisibleRecords(t) <=> Tip(i, t) /\ Sound(i)
  BY WalkFindsTips
<1>5. R = [i \in DOMAIN R |-> R[i]]
  BY <1>2
<1>6. \A i \in DOMAIN R : R[i] = events[i].body
  BY <1>2
<1> QED BY <1>1, <1>3, <1>4, <1>5, <1>6 DEF IsView

\* A moment's view is unique.
LEMMA OneView ==
  ASSUME NEW t, NEW R, NEW Q, IsView(R, t), IsView(Q, t)
  PROVE  R = Q
<1>1. DOMAIN R = DOMAIN Q
  BY DEF IsView
<1>2. \A i \in DOMAIN R : R[i] = Q[i]
  BY <1>1 DEF IsView
<1>3. R = [i \in DOMAIN R |-> R[i]] /\ Q = [i \in DOMAIN Q |-> Q[i]]
  BY DEF IsView
<1> QED BY <1>1, <1>2, <1>3

\* With every row published by then, nothing later shows more.
LEMMA ViewIsFinal ==
  ASSUME LedgerInv, NEW bound \in 1 .. now, \A i \in Ids : events[i].pat <= bound,
         NEW rows, IsView(rows, bound)
  PROVE  IsView(rows, FarFuture)
<1>1. bound \in Nat /\ FarFuture \in Nat /\ bound <= FarFuture
  BY LedgerAssumption DEF LedgerInv, FarFuture
<1>2. \A i \in Ids : Visible(i, FarFuture) <=> Visible(i, bound)
  <2> TAKE i \in Ids
  <2>1. events[i].pat \in 0 .. now /\ now \in Nat
    BY LedgerAssumption DEF LedgerInv, Forest
  <2>2. events[i].pat <= bound /\ events[i].pat <= FarFuture
    BY <1>1, <2>1
  <2> QED BY <2>2 DEF Visible
<1>3. \A i \in Ids : \A j \in Successors(i) : j \in Ids
  BY DEF Successors
<1>4. \A i : Tip(i, FarFuture) <=> Tip(i, bound)
  BY <1>2, <1>3 DEF Tip
<1> QED BY <1>4 DEF IsView

\* A session whose bar is known has the same bar however far the reader looks.
LEMMA SameBar ==
  ASSUME LedgerInv, NEW t, NEW rows, IsView(rows, t), NEW near \in Nat, NEW far \in Nat,
         near <= far, NEW s, BarAt(rows, near, s) # {}
  PROVE  BarAt(rows, far, s) = BarAt(rows, near, s)
<1>1. \A day : \A bar : bar \in BarsUpTo(rows, day) <=>
        \E i \in DOMAIN rows : bar = rows[i] /\ rows[i].type = "price_bar" /\ rows[i].session <= day
  BY DEF BarsUpTo
<1>2. \A i \in DOMAIN rows : rows[i].type = "price_bar" => rows[i].session \in Nat
  <2> TAKE i \in DOMAIN rows
  <2>1. i \in Ids /\ rows[i] = events[i].body
    BY DEF IsView, Tip
  <2>2. PICK r \in Records : events[i].body = r.body
    BY <2>1 DEF LedgerInv
  <2> QED BY <2>1, <2>2, ForwardAssumption
<1>3. PICK N : N = {bar \in BarsUpTo(rows, near) : bar.session = s}
  OBVIOUS
<1>4. PICK F : F = {bar \in BarsUpTo(rows, far) : bar.session = s}
  OBVIOUS
<1>5. BarAt(rows, near, s) = IF Cardinality(N) = 1 THEN N ELSE {}
  BY <1>3 DEF BarAt
<1>6. BarAt(rows, far, s) = IF Cardinality(F) = 1 THEN F ELSE {}
  BY <1>4 DEF BarAt
<1>7. PICK b : b \in N
  BY <1>5
<1>8. b.session = s /\ b.session \in Nat /\ b.session <= near
  BY <1>1, <1>2, <1>3, <1>7
<1>9. ASSUME NEW bar \in N PROVE bar \in F
  <2>1. PICK i \in DOMAIN rows : bar = rows[i] /\ rows[i].type = "price_bar" /\ rows[i].session <= near
    BY <1>1, <1>3, <1>9
  <2>2. rows[i].session <= far
    BY <1>2, <2>1
  <2>3. bar \in BarsUpTo(rows, far) /\ bar.session = s
    BY <1>1, <1>3, <1>9, <2>1, <2>2
  <2> QED BY <1>4, <2>3
<1>10. ASSUME NEW bar \in F PROVE bar \in N
  <2>1. PICK i \in DOMAIN rows : bar = rows[i] /\ rows[i].type = "price_bar" /\ rows[i].session <= far
    BY <1>1, <1>4, <1>10
  <2>2. bar.session = s
    BY <1>4, <1>10
  <2>3. rows[i].session <= near
    BY <1>8, <2>1, <2>2
  <2>4. bar \in BarsUpTo(rows, near)
    BY <1>1, <2>1, <2>3
  <2> QED BY <1>3, <2>2, <2>4
<1>11. N = F
  BY <1>9, <1>10, <1>3, <1>4
<1> QED BY <1>5, <1>6, <1>11

\* The frozen builder finds what the maturation job observed.
LEMMA LabelFollows ==
  ASSUME LedgerInv, NEW p, NEW bound \in 1 .. now, NEW rows, IsView(rows, bound),
         \A i \in Ids : events[i].pat <= bound, delisted = NotDelisted,
         NEW result, result = Evaluate(p.h, rows, bound, 0), result.status = "OBSERVED"
  PROVE  Label(p) = result
<1>1. bound \in Nat /\ FarFuture \in Nat /\ Day(bound) \in Nat /\ Day(bound) <= FarFuture
  BY LedgerAssumption DEF LedgerInv, FarFuture, Day
<1>2. Resolve(FarFuture) = rows
  <2>1. IsView(rows, FarFuture)
    BY ViewIsFinal
  <2>2. IsView(Resolve(FarFuture), FarFuture)
    BY <1>1, ResolveIsView DEF LedgerInv
  <2> QED BY <2>1, <2>2, OneView
<1>3. PICK exit : exit = RequiredExit(p.h)
  OBVIOUS
<1>4. PICK entryBar : entryBar = BarAt(rows, Day(bound), EntrySession)
  OBVIOUS
<1>5. PICK exitBar : exitBar = BarAt(rows, Day(bound), exit)
  OBVIOUS
<1>6. result = IF Unusable(entryBar) THEN Pending("AWAITING_ENTRY_BAR")
               ELSE IF Cutoff(bound) < exit THEN Pending("AWAITING_HORIZON")
               ELSE IF NoExit(exitBar) THEN Pending("AWAITING_EXIT_BAR")
               ELSE Observed(rows, entryBar, exitBar)
  BY <1>3, <1>4, <1>5 DEF Evaluate
<1>7. ~Unusable(entryBar) /\ ~NoExit(exitBar) /\ result = Observed(rows, entryBar, exitBar)
  BY <1>6 DEF Pending
<1>8. entryBar # {} /\ exitBar # {}
  BY <1>7 DEF Unusable, NoExit
<1>9. BarAt(rows, FarFuture, EntrySession) = entryBar /\ BarAt(rows, FarFuture, exit) = exitBar
  BY <1>1, <1>4, <1>5, <1>8, SameBar
<1>10. delisted.row = 0 /\ delisted.event = 0
  BY DEF NotDelisted
<1> QED BY <1>2, <1>3, <1>7, <1>9, <1>10 DEF Label

(* A maturation run: `at` = Len(events) + 1 while nothing came in since it  *)
(* read, and then its rows are a view and its results what they give.       *)
RunInv(x) ==
  /\ x = [pc |-> x.pc, bound |-> x.bound, rows |-> x.rows, at |-> x.at, known |-> x.known,
          pick |-> x.pick, todo |-> x.todo]
  /\ x.bound \in 1 .. now /\ x.at \in 0 .. Len(events) + 1
  /\ x.at = 0 => x.pc # "append" /\ DOMAIN x.known = {}
  /\ x.pc = "append" => x.pick \in Predictions /\ x.pick.h \in DOMAIN x.known
  /\ x.at = Len(events) + 1 =>
       /\ IsView(x.rows, x.bound)
       /\ delisted = NotDelisted =>
            \A h \in DOMAIN x.known : x.known[h] = Evaluate(h, x.rows, x.bound, 0)

(* An observed outcome is what the view of that time gives.                 *)
OutcomeInv(p, o) ==
  o.status = "OBSERVED" =>
    /\ o.bound \in 1 .. now /\ o.at \in 0 .. Len(events)
    /\ o.at = Len(events) /\ delisted = NotDelisted =>
         \E rows : /\ IsView(rows, o.bound)
                   /\ o.result = Evaluate(p.h, rows, o.bound, 0)
                   /\ o.result.status = "OBSERVED"

ForwardInv ==
  /\ LedgerInv
  /\ run = [r \in Runs |-> run[r]]
  /\ \A r \in Runs : run[r] = NotRunning \/ RunInv(run[r])
  /\ outcome = [p \in Predictions |-> outcome[p]]
  /\ \A p \in Predictions : OutcomeInv(p, outcome[p])

\* The invariant gives the agreement of the planes.
LEMMA ForwardAgrees == ForwardInv => FrozenPlaneAgrees
<1> SUFFICES ASSUME ForwardInv, NEW p \in Predictions,
                    outcome[p].status = "OBSERVED", outcome[p].at = Len(events),
                    \A i \in Ids : events[i].pat <= outcome[p].bound,
                    delisted = NotDelisted
             PROVE  Label(p) = outcome[p].result
  BY DEF FrozenPlaneAgrees, NotDelisted
<1>1. OutcomeInv(p, outcome[p]) /\ LedgerInv
  BY DEF ForwardInv
<1>2. PICK bound \in 1 .. now : bound = outcome[p].bound
  BY <1>1 DEF OutcomeInv
<1>3. PICK result : result = outcome[p].result
  OBVIOUS
<1>4. PICK rows : IsView(rows, bound) /\ result = Evaluate(p.h, rows, bound, 0) /\ result.status = "OBSERVED"
  BY <1>1, <1>2, <1>3 DEF OutcomeInv
<1> QED BY <1>1, <1>2, <1>3, <1>4, LabelFollows

\* A view stays one as long as the rows do.
LEMMA ViewFrame ==
  ASSUME events' = events
  PROVE  \A rows, t : IsView(rows, t) => IsView(rows, t)'
<1>1. Ids' = Ids
  BY DEF Ids
<1>2. \A i : Sound(i)' <=> Sound(i)
  BY DEF Sound
<1>3. \A i, t : Visible(i, t)' <=> Visible(i, t)
  BY DEF Visible
<1>4. \A i : Successors(i)' = Successors(i)
  BY <1>1 DEF Successors
<1>5. \A i, t : Tip(i, t)' <=> Tip(i, t)
  BY <1>1, <1>3, <1>4 DEF Tip
<1> QED BY <1>2, <1>5 DEF IsView

\* Time, a delisting and a new row take nothing from what holds of runs and
\* outcomes.
LEMMA RunFrame ==
  ASSUME now \in Nat, now' \in Nat, now <= now', Len(events) \in Nat,
         \/ events' = events /\ (delisted' = NotDelisted => delisted = NotDelisted)
         \/ Len(events') = Len(events) + 1
  PROVE  /\ \A x : RunInv(x) => RunInv(x)'
         /\ \A p, o : OutcomeInv(p, o) => OutcomeInv(p, o)'
<1>1. \A b \in 1 .. now : b \in 1 .. now'
  OBVIOUS
<1>2. CASE events' = events /\ (delisted' = NotDelisted => delisted = NotDelisted)
  <2>1. \A rows, t : IsView(rows, t) => IsView(rows, t)'
    BY <1>2, ViewFrame
  <2>2. Len(events') = Len(events)
    BY <1>2
  <2>3. ASSUME NEW x, RunInv(x) PROVE RunInv(x)'
    BY <1>1, <1>2, <2>1, <2>2, <2>3 DEF RunInv
  <2>4. ASSUME NEW p, NEW o, OutcomeInv(p, o) PROVE OutcomeInv(p, o)'
    BY <1>1, <1>2, <2>1, <2>2, <2>4 DEF OutcomeInv
  <2> QED BY <2>3, <2>4
<1>3. CASE Len(events') = Len(events) + 1
  <2>1. \A n \in 0 .. Len(events) + 1 : n \in 0 .. Len(events') + 1 /\ n # Len(events') + 1
    BY <1>3
  <2>2. \A n \in 0 .. Len(events) : n \in 0 .. Len(events') /\ n # Len(events')
    BY <1>3
  <2>3. ASSUME NEW x, RunInv(x) PROVE RunInv(x)'
    BY <1>1, <2>1, <2>3 DEF RunInv
  <2>4. ASSUME NEW p, NEW o, OutcomeInv(p, o) PROVE OutcomeInv(p, o)'
    BY <1>1, <2>2, <2>4 DEF OutcomeInv
  <2> QED BY <2>3, <2>4
<1> QED BY <1>2, <1>3

\* The ledger's own steps are of that kind.
LEMMA LedgerMoves ==
  ASSUME LedgerInv, [LedgerNext]_ledgerVars
  PROVE  /\ LedgerInv' /\ now \in Nat /\ now' \in Nat /\ now <= now' /\ Len(events) \in Nat
         /\ events' = events \/ Len(events') = Len(events) + 1
<1>1. LedgerInv'
  BY LedgerStep
<1>2. now \in Nat /\ now' \in Nat
  BY <1>1, LedgerAssumption DEF LedgerInv
<1>3. now <= now'
  BY <1>2 DEF LedgerNext, Ingest, IngestNew, IngestAgain, IngestStops, Tick, StartBatch, ledgerVars
<1>4. PICK S : events \in Seq(S)
  BY DEF LedgerInv
<1>5. Len(events) \in Nat
  BY <1>4
<1>6. events' = events \/ Len(events') = Len(events) + 1
  <2>1. CASE IngestNew
    <3>1. PICK row : events' = Append(events, row)
      BY <2>1 DEF IngestNew
    <3> QED BY <1>4, <3>1, Appended
  <2>2. CASE ~IngestNew
    BY <2>2 DEF LedgerNext, Ingest, IngestAgain, IngestStops, Tick, StartBatch, ledgerVars
  <2> QED BY <2>1, <2>2
<1> QED BY <1>1, <1>2, <1>3, <1>5, <1>6

\* Nothing runs and nothing is observed at first.
LEMMA ForwardInitial == ForwardInit => ForwardInv
<1> SUFFICES ASSUME ForwardInit PROVE ForwardInv
  OBVIOUS
<1>1. LedgerInv
  BY LedgerInitial DEF ForwardInit
<1>2. run = [r \in Runs |-> run[r]] /\ \A r \in Runs : run[r] = NotRunning
  BY DEF ForwardInit
<1>3. outcome = [p \in Predictions |-> outcome[p]]
  BY DEF ForwardInit
<1>4. \A p \in Predictions : outcome[p].status = "none"
  BY DEF ForwardInit, NoOutcome
<1>5. \A p \in Predictions : OutcomeInv(p, outcome[p])
  BY <1>4 DEF OutcomeInv
<1> QED BY <1>1, <1>2, <1>3, <1>5 DEF ForwardInv

\* A run reads its rows once, and a result once.
LEMMA EvaluateKeeps ==
  ASSUME ForwardInv, NEW r \in Runs, NEW p \in Predictions, EvaluateNext(r, p)
  PROVE  RunInv(run'[r])
<1> DEFINE old == run[r]
           found == IF old.at = 0 THEN Resolve(old.bound) ELSE old.rows
           results == [h \in DOMAIN old.known \cup {p.h} |->
                         IF h \in DOMAIN old.known THEN old.known[h]
                         ELSE Evaluate(h, found, old.bound, delisted.row)]
<1>1. old.pc = "evaluate"
  BY DEF EvaluateNext
<1>2. run' = [run EXCEPT ![r] = [old EXCEPT !.pc = "append", !.pick = p, !.rows = found, !.known = results,
                                            !.at = IF old.at = 0 THEN Len(events) + 1 ELSE old.at]]
  BY Zenon DEF EvaluateNext
<1>3. PICK x : x = old
  OBVIOUS
<1>4. PICK rows : rows = found
  OBVIOUS
<1>5. PICK known : known = results
  OBVIOUS
<1>a. rows = IF x.at = 0 THEN Resolve(x.bound) ELSE x.rows
  BY <1>3, <1>4
<1>b. known = [h \in DOMAIN x.known \cup {p.h} |->
                 IF h \in DOMAIN x.known THEN x.known[h] ELSE Evaluate(h, rows, x.bound, delisted.row)]
  BY <1>3, <1>4, <1>5
<1>c. RunInv(x) /\ x.pc = "evaluate"
  BY <1>1, <1>3 DEF ForwardInv, NotRunning
<1> HIDE DEF old, found, results
<1>6. r \in DOMAIN run
  BY DEF ForwardInv
<1>7. PICK y : y = run'[r]
  OBVIOUS
<1>8. y = [x EXCEPT !.pc = "append", !.pick = p, !.rows = rows, !.known = known,
                    !.at = IF x.at = 0 THEN Len(events) + 1 ELSE x.at]
  BY <1>2, <1>3, <1>4, <1>5, <1>6, <1>7
<1>9. y = [pc |-> "append", bound |-> x.bound, rows |-> rows,
           at |-> IF x.at = 0 THEN Len(events) + 1 ELSE x.at, known |-> known,
           pick |-> p, todo |-> x.todo]
  BY <1>c, <1>8 DEF RunInv
<1>10. Forest /\ now \in Nat /\ Len(events) \in Nat
  BY LedgerAssumption DEF ForwardInv, LedgerInv, Forest
<1>11. x.bound \in 1 .. now /\ x.at \in 0 .. Len(events) + 1 /\ x.bound \in Nat
  BY <1>c, <1>10 DEF RunInv
<1>12. y.at \in 0 .. Len(events) + 1 /\ y.at # 0
  BY <1>9, <1>10, <1>11
<1>13. p.h \in DOMAIN known
  BY <1>b
<1>14. ASSUME y.at = Len(events) + 1 PROVE IsView(rows, x.bound)
  <2>1. CASE x.at = 0
    BY <1>a, <1>10, <1>11, <2>1, ResolveIsView
  <2>2. CASE x.at # 0
    <3>1. x.at = Len(events) + 1
      BY <1>9, <1>14, <2>2
    <3> QED BY <1>a, <1>c, <2>2, <3>1 DEF RunInv
  <2> QED BY <2>1, <2>2
<1>15. ASSUME y.at = Len(events) + 1, delisted = NotDelisted, NEW h \in DOMAIN known
       PROVE  known[h] = Evaluate(h, rows, x.bound, 0)
  <2>1. delisted.row = 0
    BY <1>15 DEF NotDelisted
  <2>2. CASE h \in DOMAIN x.known
    <3>1. x.at # 0
      BY <1>c, <2>2 DEF RunInv
    <3>2. x.at = Len(events) + 1 /\ rows = x.rows
      BY <1>a, <1>9, <1>15, <3>1
    <3>3. x.known[h] = Evaluate(h, x.rows, x.bound, 0)
      BY <1>c, <1>15, <2>2, <3>2 DEF RunInv
    <3> QED BY <1>b, <2>2, <3>2, <3>3
  <2>3. CASE h \notin DOMAIN x.known
    BY <1>b, <2>1, <2>3
  <2> QED BY <2>2, <2>3
<1>16. RunInv(y)
  BY <1>9, <1>11, <1>12, <1>13, <1>14, <1>15 DEF RunInv
<1> QED BY <1>7, <1>16

\* A terminal result is written as it was found.
LEMMA AppendKeeps ==
  ASSUME ForwardInv, NEW r \in Runs, AppendOutcome(r)
  PROVE  /\ outcome' = [p \in Predictions |-> outcome'[p]]
         /\ \A p \in Predictions : OutcomeInv(p, outcome'[p])
         /\ run'[r] = NotRunning \/ RunInv(run'[r])
<1>1. PICK x : x = run[r]
  OBVIOUS
<1>2. RunInv(x) /\ x.pc = "append"
  BY <1>1 DEF ForwardInv, AppendOutcome, NotRunning
<1>3. PICK p : p = x.pick
  OBVIOUS
<1>4. p \in Predictions /\ p.h \in DOMAIN x.known /\ x.at # 0
  BY <1>2, <1>3 DEF RunInv
<1>5. PICK result : result = x.known[p.h]
  OBVIOUS
<1>6. PICK o : o = [status |-> result.status, result |-> result, at |-> x.at - 1, bound |-> x.bound]
  OBVIOUS
<1>7. Len(events) \in Nat /\ now \in Nat
  BY LedgerAssumption DEF ForwardInv, LedgerInv, Forest
<1>8. x.bound \in 1 .. now /\ x.at \in 0 .. Len(events) + 1
  BY <1>2 DEF RunInv
<1>9. o.at \in 0 .. Len(events) /\ (o.at = Len(events) => x.at = Len(events) + 1)
  BY <1>4, <1>6, <1>7, <1>8
<1>10. OutcomeInv(p, o)
  <2>1. o.at = x.at - 1 /\ o.bound = x.bound /\ o.result = result /\ o.status = result.status
    BY <1>6
  <2>2. ASSUME o.status = "OBSERVED", o.at = Len(events), delisted = NotDelisted
        PROVE  /\ IsView(x.rows, o.bound)
               /\ o.result = Evaluate(p.h, x.rows, o.bound, 0)
               /\ o.result.status = "OBSERVED"
    BY <1>2, <1>4, <1>5, <1>9, <2>1, <2>2 DEF RunInv
  <2> QED BY <1>8, <1>9, <2>1, <2>2 DEF OutcomeInv
<1>11. outcome' = outcome \/ outcome' = [outcome EXCEPT ![p] = o]
  BY <1>1, <1>3, <1>5, <1>6 DEF AppendOutcome
<1>12. outcome = [q \in Predictions |-> outcome[q]] /\ \A q \in Predictions : OutcomeInv(q, outcome[q])
  BY DEF ForwardInv
<1>13. outcome' = [q \in Predictions |-> outcome'[q]]
  BY <1>11, <1>12
<1>14. \A q \in Predictions : outcome'[q] = outcome[q] \/ (q = p /\ outcome'[q] = o)
  BY <1>11, <1>12
<1>15. \A q \in Predictions : OutcomeInv(q, outcome'[q])
  BY <1>10, <1>12, <1>14
<1>16. PICK y : y = run'[r]
  OBVIOUS
<1>17. y = NotRunning \/ y = [x EXCEPT !.pc = "evaluate", !.todo = x.todo \ {p}, !.pick = NoPick]
  <2>1. r \in DOMAIN run
    BY DEF ForwardInv
  <2>2. \/ run' = [run EXCEPT ![r] = NotRunning]
        \/ run' = [run EXCEPT ![r] = [run[r] EXCEPT !.pc = "evaluate", !.todo = run[r].todo \ {run[r].pick}, !.pick = NoPick]]
    BY Zenon DEF AppendOutcome
  <2> QED BY <1>1, <1>3, <1>16, <2>1, <2>2
<1>18. CASE y = [x EXCEPT !.pc = "evaluate", !.todo = x.todo \ {p}, !.pick = NoPick]
  <2>1. y = [pc |-> "evaluate", bound |-> x.bound, rows |-> x.rows, at |-> x.at, known |-> x.known,
             pick |-> NoPick, todo |-> x.todo \ {p}]
    BY <1>2, <1>18 DEF RunInv
  <2>2. /\ y = [pc |-> y.pc, bound |-> y.bound, rows |-> y.rows, at |-> y.at, known |-> y.known,
                pick |-> y.pick, todo |-> y.todo]
        /\ y.pc = "evaluate" /\ y.bound = x.bound /\ y.rows = x.rows /\ y.at = x.at /\ y.known = x.known
    BY <2>1
  <2>3. RunInv(y)
    BY <1>2, <2>2 DEF RunInv
  <2> QED BY <1>13, <1>15, <1>16, <2>3
<1> QED BY <1>13, <1>15, <1>16, <1>17, <1>18

\* Every action keeps the invariant.
LEMMA ForwardStep == ForwardInv /\ [ForwardNext]_forwardVars => ForwardInv'
<1> SUFFICES ASSUME ForwardInv, [ForwardNext]_forwardVars PROVE ForwardInv'
  OBVIOUS
<1>1. LedgerInv /\ now \in Nat /\ Len(events) \in Nat /\ now <= now
  BY LedgerAssumption DEF ForwardInv, LedgerInv, Forest
<1>2. /\ run = [r \in Runs |-> run[r]] /\ outcome = [p \in Predictions |-> outcome[p]]
      /\ \A r \in Runs : run[r] = NotRunning \/ RunInv(run[r])
      /\ \A p \in Predictions : OutcomeInv(p, outcome[p])
  BY DEF ForwardInv
\* The ledger is still; runs and outcomes are replaced by sound ones.
<1>3. ASSUME UNCHANGED ledgerVars, delisted' = NotDelisted => delisted = NotDelisted,
             run' = [r \in Runs |-> run'[r]], outcome' = [p \in Predictions |-> outcome'[p]],
             \A r \in Runs : run'[r] = NotRunning \/ RunInv(run'[r]),
             \A p \in Predictions : OutcomeInv(p, outcome'[p])
      PROVE  ForwardInv'
  <2>1. LedgerInv'
    BY <1>1, <1>3, LedgerStep
  <2>2. events' = events /\ now' = now
    BY <1>3 DEF ledgerVars
  <2>3. /\ \A x : RunInv(x) => RunInv(x)'
        /\ \A p, o : OutcomeInv(p, o) => OutcomeInv(p, o)'
    BY <1>1, <1>3, <2>2, RunFrame
  <2>4. \A r \in Runs : run'[r] = NotRunning \/ RunInv(run[r])'
    <3> TAKE r \in Runs
    <3>1. PICK x : x = run'[r]
      OBVIOUS
    <3>2. RunInv(x) => RunInv(x)'
      BY <2>3
    <3> QED BY <1>3, <3>1, <3>2 DEF RunInv
  <2>5. \A p \in Predictions : OutcomeInv(p, outcome[p])'
    <3> TAKE p \in Predictions
    <3>1. PICK o : o = outcome'[p]
      OBVIOUS
    <3>2. OutcomeInv(p, o) => OutcomeInv(p, o)'
      BY <2>3
    <3> QED BY <1>3, <3>1, <3>2 DEF OutcomeInv
  <2> QED BY <1>3, <2>1, <2>4, <2>5 DEF ForwardInv, NotRunning
\* One run is replaced.
<1>4. ASSUME NEW r \in Runs, NEW y, run' = [run EXCEPT ![r] = y],
             UNCHANGED <<events, batch, now, outcome, delisted>>, y = NotRunning \/ RunInv(y)
      PROVE  ForwardInv'
  <2>1. UNCHANGED ledgerVars /\ outcome' = outcome /\ delisted' = delisted
    BY <1>4 DEF ledgerVars
  <2>2. run' = [q \in Runs |-> run'[q]] /\ \A q \in Runs : run'[q] = run[q] \/ run'[q] = y
    BY <1>2, <1>4
  <2>3. \A q \in Runs : run'[q] = NotRunning \/ RunInv(run'[q])
    BY <1>2, <1>4, <2>2
  <2> QED BY <1>2, <1>3, <2>1, <2>2, <2>3
<1>5. CASE Ledger
  <2>1. /\ LedgerInv' /\ now' \in Nat /\ now <= now'
        /\ events' = events \/ Len(events') = Len(events) + 1
        /\ run' = run /\ outcome' = outcome /\ delisted' = delisted
    BY <1>1, <1>5, LedgerMoves DEF Ledger
  <2>2. /\ \A x : RunInv(x) => RunInv(x)'
        /\ \A p, o : OutcomeInv(p, o) => OutcomeInv(p, o)'
    BY <1>1, <2>1, RunFrame
  <2>3. \A r \in Runs : run'[r] = NotRunning \/ RunInv(run[r])'
    <3> TAKE r \in Runs
    <3>1. PICK x : x = run[r]
      OBVIOUS
    <3>2. RunInv(x) => RunInv(x)'
      BY <2>2
    <3> QED BY <1>2, <2>1, <3>1, <3>2 DEF RunInv
  <2>4. \A p \in Predictions : OutcomeInv(p, outcome[p])'
    <3> TAKE p \in Predictions
    <3>1. PICK o : o = outcome[p]
      OBVIOUS
    <3>2. OutcomeInv(p, o) => OutcomeInv(p, o)'
      BY <2>2
    <3> QED BY <1>2, <2>1, <3>1, <3>2 DEF OutcomeInv
  <2> QED BY <1>2, <2>1, <2>3, <2>4 DEF ForwardInv, NotRunning
<1>6. ASSUME NEW f \in Features, StartCapture(f) PROVE ForwardInv'
  <2>1. UNCHANGED ledgerVars /\ run' = run /\ outcome' = outcome /\ delisted' = delisted
    BY <1>6 DEF StartCapture, ledgerVars
  <2> QED BY <1>2, <1>3, <2>1
<1>7. ASSUME NEW p \in Predictions, RecordPrediction(p) PROVE ForwardInv'
  <2>1. UNCHANGED ledgerVars /\ run' = run /\ outcome' = outcome /\ delisted' = delisted
    BY <1>7 DEF RecordPrediction, ledgerVars
  <2> QED BY <1>2, <1>3, <2>1
<1>8. ASSUME NEW r \in Runs, Begin(r) PROVE ForwardInv'
  <2>1. PICK todo : run' = [run EXCEPT ![r] = [pc |-> "evaluate", bound |-> now, rows |-> <<>>, at |-> 0,
                                               known |-> <<>>, pick |-> NoPick, todo |-> todo]]
    BY <1>8, Zenon DEF Begin
  <2>2. PICK y : y = [pc |-> "evaluate", bound |-> now, rows |-> <<>>, at |-> 0,
                      known |-> <<>>, pick |-> NoPick, todo |-> todo]
    OBVIOUS
  <2>3. now \in 1 .. now /\ 0 \in 0 .. Len(events) + 1 /\ 0 # Len(events) + 1
    BY <1>1, LedgerAssumption DEF LedgerInv
  <2>4. /\ y = [pc |-> y.pc, bound |-> y.bound, rows |-> y.rows, at |-> y.at, known |-> y.known,
                pick |-> y.pick, todo |-> y.todo]
        /\ y.pc = "evaluate" /\ y.bound = now /\ y.at = 0 /\ y.known = <<>>
    BY <2>2
  <2>5. RunInv(y)
    BY <2>3, <2>4 DEF RunInv
  <2> QED BY <1>4, <1>8, <2>1, <2>2, <2>5 DEF Begin
<1>9. ASSUME NEW r \in Runs, End(r) \/ RunDies(r) PROVE ForwardInv'
  BY <1>4, <1>9 DEF End, RunDies
<1>10. ASSUME NEW r \in Runs, NEW p \in Predictions, EvaluateNext(r, p) PROVE ForwardInv'
  <2>1. RunInv(run'[r])
    BY <1>10, EvaluateKeeps
  <2>2. PICK y : run' = [run EXCEPT ![r] = y]
    BY <1>10, Zenon DEF EvaluateNext
  <2>3. y = run'[r]
    BY <1>2, <2>2
  <2>4. UNCHANGED <<events, batch, now, outcome, delisted>>
    BY <1>10 DEF EvaluateNext
  <2> QED BY <1>4, <2>1, <2>2, <2>3, <2>4
<1>11. ASSUME NEW r \in Runs, AppendOutcome(r) PROVE ForwardInv'
  <2>1. /\ outcome' = [p \in Predictions |-> outcome'[p]]
        /\ \A p \in Predictions : OutcomeInv(p, outcome'[p])
        /\ run'[r] = NotRunning \/ RunInv(run'[r])
    BY <1>11, AppendKeeps
  <2>2. PICK y : run' = [run EXCEPT ![r] = y]
    BY <1>11, Zenon DEF AppendOutcome
  <2>3. run' = [q \in Runs |-> run'[q]] /\ \A q \in Runs : q # r => run'[q] = run[q]
    BY <1>2, <2>2
  <2>4. \A q \in Runs : run'[q] = NotRunning \/ RunInv(run'[q])
    BY <1>2, <2>1, <2>3
  <2>5. UNCHANGED ledgerVars /\ delisted' = delisted
    BY <1>11 DEF AppendOutcome, ledgerVars
  <2> QED BY <1>3, <2>1, <2>3, <2>4, <2>5
<1>12. ASSUME NEW d \in Delistings, Delist(d) PROVE ForwardInv'
  <2>1. UNCHANGED ledgerVars /\ run' = run /\ outcome' = outcome /\ delisted = NotDelisted
    BY <1>12 DEF Delist, ledgerVars, NotDelisted
  <2> QED BY <1>2, <1>3, <2>1
<1>13. CASE UNCHANGED forwardVars
  <2>1. UNCHANGED ledgerVars /\ run' = run /\ outcome' = outcome /\ delisted' = delisted
    BY <1>13 DEF forwardVars, ledgerVars
  <2> QED BY <1>2, <1>3, <2>1
<1> QED BY <1>5, <1>6, <1>7, <1>8, <1>9, <1>10, <1>11, <1>12, <1>13 DEF ForwardNext

\* Overlapping runs of mature_due_outcomes, dying anywhere, cache and write
\* only what the rows they read give.
THEOREM ForwardInvariant == ForwardSpec => []ForwardInv
BY ForwardInitial, ForwardStep, PTL DEF ForwardSpec

\* What mature_due_outcomes records as observed, build_outcome_label computes,
\* for every stream of records, calendar, set of horizons and of runs.
THEOREM OutcomesAreReproducible == ForwardSpec => []FrozenPlaneAgrees
BY ForwardAgrees, ForwardInvariant, PTL

-----------------------------------------------------------------------------
(* The past of the cohort.  Every row a step adds is stamped with the      *)
(* second its call began in, so the rows visible at an earlier second, the *)
(* chains they end and what is read from them are what they were.          *)

\* A sequence, whatever its elements are.
IsList(s) == Len(s) \in Nat /\ s = [i \in 1 .. Len(s) |-> s[i]]

\* Appending keeps the elements and adds one.
LEMMA ListAppend ==
  ASSUME NEW s, IsList(s), NEW e
  PROVE  /\ IsList(Append(s, e)) /\ Len(Append(s, e)) = Len(s) + 1
         /\ \A i \in 1 .. Len(s) : Append(s, e)[i] = s[i]
         /\ Append(s, e)[Len(s) + 1] = e
<1> DEFINE R == {s[i] : i \in 1 .. Len(s)} \cup {e}
<1>1. s \in [1 .. Len(s) -> R]
  <2> HIDE DEF R
  <2>1. \A i \in 1 .. Len(s) : s[i] \in R
    BY DEF R
  <2> QED
    BY <2>1 DEF IsList
<1>2. s \in Seq(R) /\ e \in R
  <2> e \in R
    OBVIOUS
  <2> HIDE DEF R
  <2> QED
    BY <1>1, SeqDef DEF IsList
<1> HIDE DEF R
<1>3. Append(s, e) \in Seq(R) /\ Len(Append(s, e)) = Len(s) + 1
       /\ (\A i \in 1 .. Len(s) : Append(s, e)[i] = s[i]) /\ Append(s, e)[Len(s) + 1] = e
  BY <1>2, AppendProperties
<1>4. IsList(Append(s, e))
  BY <1>3, LenProperties DEF IsList
<1> QED
  BY <1>3, <1>4

\* Rows stamped with a second.
Timed(s) == IsList(s) /\ \A i \in 1 .. Len(s) : s[i].time \in Nat

CallFields == {"pc", "sample", "time", "rows", "ciks", "lacks", "read", "last", "retire"}

\* Histories are sequences of stamped rows; calls are records with a start.
CohortInv ==
  /\ second \in Nat
  /\ identity = [c \in Ciks |-> identity[c]] /\ \A c \in Ciks : Timed(identity[c])
  /\ member = [c \in Ciks |-> member[c]] /\ \A c \in Ciks : Timed(member[c])
  /\ boot = [b \in BootCalls |-> boot[b]]
  /\ \A b \in BootCalls : DOMAIN boot[b] = CallFields /\ boot[b].time \in Nat

\* Rows r are the rows s, or these and one of a call in progress.
Grown(s, r) ==
  \/ r = s
  \/ \E b \in BootCalls : Running(b) /\ \E e : r = Append(s, e) /\ e.time = boot[b].time

\* A grown history is still one of stamped rows.
LEMMA GrownIsTimed ==
  ASSUME CohortInv, NEW s, Timed(s), NEW r, Grown(s, r)
  PROVE  Timed(r)
<1>1. CASE r = s
  BY <1>1
<1>2. CASE r # s
  <2>1. PICK b \in BootCalls : \E e : r = Append(s, e) /\ e.time = boot[b].time
    BY <1>2 DEF Grown
  <2>2. PICK e : r = Append(s, e) /\ e.time = boot[b].time
    BY <2>1
  <2>3. /\ IsList(r) /\ Len(r) = Len(s) + 1 /\ r[Len(s) + 1] = e
        /\ \A i \in 1 .. Len(s) : r[i] = s[i]
    BY <2>2, ListAppend DEF Timed
  <2>4. e.time \in Nat /\ Len(s) \in Nat
    BY <2>2 DEF CohortInv, Timed, IsList
  <2>5. \A i \in 1 .. Len(r) : i \in 1 .. Len(s) \/ i = Len(s) + 1
    BY <2>3, <2>4
  <2> QED
    BY <2>3, <2>4, <2>5 DEF Timed
<1> QED
  BY <1>1, <1>2

\* A row stamped later ends no chain visible at t and supersedes none.
LEMMA GrownStands ==
  ASSUME CohortInv, NEW s, Timed(s), NEW r, Grown(s, r), NEW t \in Nat,
         \A b \in BootCalls : Running(b) => t < boot[b].time
  PROVE  ChainEnds(r, t) = ChainEnds(s, t) /\ \A i \in ChainEnds(s, t) : r[i] = s[i]
<1>1. CASE r = s
  BY <1>1
<1>2. CASE r # s
  <2>1. PICK b \in BootCalls : Running(b) /\ \E e : r = Append(s, e) /\ e.time = boot[b].time
    BY <1>2 DEF Grown
  <2>2. PICK e : r = Append(s, e) /\ e.time = boot[b].time
    BY <2>1
  <2>3. /\ IsList(r) /\ Len(r) = Len(s) + 1 /\ r[Len(s) + 1] = e
        /\ \A i \in 1 .. Len(s) : r[i] = s[i]
    BY <2>2, ListAppend DEF Timed
  <2>4. Len(s) \in Nat /\ ~(e.time <= t)
    BY <2>1, <2>2 DEF Timed, IsList, CohortInv
  <2>5. DOMAIN s = 1 .. Len(s) /\ DOMAIN r = 1 .. Len(s) + 1
    BY <2>3 DEF Timed, IsList
  <2>6. VisibleRows(r, t) = VisibleRows(s, t)
    BY <2>3, <2>4, <2>5 DEF VisibleRows
  <2>7. VisibleRows(s, t) \subseteq 1 .. Len(s)
    BY <2>5 DEF VisibleRows
  <2>8. \A i \in VisibleRows(s, t) : Superseded(r, i, t) <=> Superseded(s, i, t)
    BY <2>3, <2>6, <2>7 DEF Superseded
  <2>9. ChainEnds(r, t) = ChainEnds(s, t)
    BY <2>6, <2>8 DEF ChainEnds
  <2>10. \A i \in ChainEnds(s, t) : i \in 1 .. Len(s)
    BY <2>7 DEF ChainEnds
  <2> QED
    BY <2>3, <2>9, <2>10
<1> QED
  BY <1>1, <1>2

\* No row of a history is changed or taken away.
HistoriesGrow ==
  /\ identity' = [c \in Ciks |-> identity'[c]] /\ \A c \in Ciks : Grown(identity[c], identity'[c])
  /\ member' = [c \in Ciks |-> member'[c]] /\ \A c \in Ciks : Grown(member[c], member'[c])

\* A step adds at most one row to a history, stamped by the call that adds it.
LEMMA StoresGrow ==
  ASSUME CohortInv, CohortNext
  PROVE  HistoriesGrow
<1> SUFFICES ASSUME <<identity, member>>' # <<identity, member>>
             PROVE  HistoriesGrow
  BY DEF HistoriesGrow, Grown, CohortInv
<1>1. PICK b \in BootCalls : BootStep(b)
  BY DEF CohortNext, SecondPasses
<1> USE DEF In, HistoriesGrow
<1>2. CASE AddBaseline(b)
  <2>1. Running(b) /\ member' = member
    BY <1>2 DEF AddBaseline, Running
  <2>2. identity' = [identity EXCEPT ![Head(boot[b].rows).cik] =
                        Append(@, [ticker |-> Head(boot[b].rows).ticker,
                                   time |-> boot[b].time, of |-> 0])]
    BY <1>2 DEF AddBaseline
  <2> DEFINE k == Head(boot[b].rows).cik
             e == [ticker |-> Head(boot[b].rows).ticker, time |-> boot[b].time, of |-> 0]
  <2>3. e.time = boot[b].time
    OBVIOUS
  <2>4. identity' = [identity EXCEPT ![k] = Append(@, e)]
    BY <2>2
  <2> HIDE DEF k, e
  <2>5. identity' = [c \in Ciks |-> IF c = k THEN Append(identity[c], e) ELSE identity[c]]
    BY <2>4 DEF CohortInv
  <2> QED
    BY <2>1, <2>3, <2>5 DEF Grown, CohortInv
<1>3. CASE AlignSecurities(b) \/ CorrectEvents(b)
  <2>1. Running(b) /\ member' = member
    BY <1>3 DEF AlignSecurities, CorrectEvents, Running
  <2>2. \E last : identity' = Corrected(b, last)
    BY <1>3, <2>1 DEF AlignSecurities, CorrectEvents
  <2>3. PICK last : identity' = Corrected(b, last)
    BY <2>2
  <2> DEFINE E(c) == [ticker |-> Canonical(boot[b].sample, c), time |-> boot[b].time, of |-> last[c]]
  <2>4. identity' = [c \in Ciks |-> IF c \notin Corrects(b, last) THEN identity[c]
                                   ELSE Append(identity[c], E(c))]
    BY <2>3 DEF Corrected
  <2>5. \A c : E(c).time = boot[b].time
    OBVIOUS
  <2> HIDE DEF E
  <2>6. \A c \in Ciks : identity'[c] = identity[c] \/ identity'[c] = Append(identity[c], E(c))
    BY <2>4
  <2> QED
    BY <2>1, <2>4, <2>5, <2>6 DEF Grown, CohortInv
<1>4. CASE RetireMember(b)
  <2>1. Running(b) /\ identity' = identity
    BY <1>4 DEF RetireMember, Running
  <2>2. PICK x \in boot[b].retire :
           member' = [member EXCEPT ![x[1]] =
                        Append(@, [eligible |-> FALSE, time |-> boot[b].time, of |-> x[2]])]
    BY <1>4, <2>1 DEF RetireMember
  <2> DEFINE e == [eligible |-> FALSE, time |-> boot[b].time, of |-> x[2]]
  <2>3. e.time = boot[b].time /\ member' = [member EXCEPT ![x[1]] = Append(@, e)]
    BY <2>2
  <2> HIDE DEF e
  <2>4. member' = [c \in Ciks |-> IF c = x[1] THEN Append(member[c], e) ELSE member[c]]
    BY <2>3 DEF CohortInv
  <2> QED
    BY <2>1, <2>3, <2>4 DEF Grown, CohortInv
<1>5. CASE AddMember(b)
  <2>1. Running(b) /\ identity' = identity
    BY <1>5 DEF AddMember, Joins, Running
  <2> DEFINE e == [eligible |-> TRUE, time |-> boot[b].time, of |-> 0]
  <2>2. PICK k : member' = [member EXCEPT ![k] = Append(@, e)]
    BY <1>5 DEF AddMember
  <2>3. e.time = boot[b].time
    OBVIOUS
  <2> HIDE DEF e
  <2>4. member' = [c \in Ciks |-> IF c = k THEN Append(member[c], e) ELSE member[c]]
    BY <2>2 DEF CohortInv
  <2> QED
    BY <2>1, <2>3, <2>4 DEF Grown, CohortInv
<1> QED
  BY <1>1, <1>2, <1>3, <1>4, <1>5
     DEF BootStep, BeginBootstrap, BeginReconcile, BeginCall, BootSecurities, ReadBaselines,
         EndBaselines, ReadSecurities, ReadEvents, ReadEligible, EndRetirement, LookUpMember,
         EndCall, BootDies

\* A call's record, with the second it began in.
DatedCall(r) == DOMAIN r = CallFields /\ r.time \in Nat

\* Going on does not change when a call began.
LEMMA CallKeepsDate ==
  ASSUME NEW r, DatedCall(r), NEW x, NEW y, NEW z
  PROVE  /\ DatedCall([r EXCEPT !.pc = x]) /\ DatedCall([r EXCEPT !.rows = x])
         /\ DatedCall([r EXCEPT !.retire = x]) /\ DatedCall([r EXCEPT !.lacks = x])
         /\ DatedCall([r EXCEPT !.pc = x, !.rows = y]) /\ DatedCall([r EXCEPT !.pc = x, !.ciks = y])
         /\ DatedCall([r EXCEPT !.pc = x, !.read = y]) /\ DatedCall([r EXCEPT !.pc = x, !.last = y])
         /\ DatedCall([r EXCEPT !.pc = x, !.retire = y]) /\ DatedCall([r EXCEPT !.ciks = x, !.lacks = y])
         /\ DatedCall([r EXCEPT !.pc = x, !.read = y, !.last = z])
  BY DEF DatedCall, CallFields

\* Every step leaves calls with the fields of a call.
LEMMA CallsStayDated ==
  ASSUME CohortInv, CohortNext
  PROVE  /\ second' \in Nat /\ boot' = [b \in BootCalls |-> boot'[b]]
         /\ \A b \in BootCalls : DOMAIN boot'[b] = CallFields /\ boot'[b].time \in Nat
<1>1. DOMAIN Resting = CallFields /\ Resting.time = 0
  BY DEF Resting, CallFields
<1>2. CASE SecondPasses
  BY <1>2 DEF SecondPasses, CohortInv
<1>3. CASE \E b \in BootCalls : BootStep(b)
  <2>1. PICK b \in BootCalls : BootStep(b)
    BY <1>3
  <2>2. second' = second
    BY <2>1 DEF BootStep, BeginBootstrap, AddBaseline, AlignSecurities, CorrectEvents,
       RetireMember, AddMember,
          BeginReconcile, BeginCall, BootSecurities, ReadBaselines,
         EndBaselines, ReadSecurities, ReadEvents, ReadEligible, EndRetirement, LookUpMember,
         EndCall, BootDies
  <2>3. \E r : Becomes(b, r) /\ DatedCall(r)
    <3>0. DatedCall(boot[b]) /\ DatedCall(Resting)
      BY <1>1 DEF DatedCall, CohortInv
    <3> DEFINE S == [Resting EXCEPT !.pc = "stopped"]
    <3>s. Stopped(b) => Becomes(b, S) /\ DatedCall(S)
      BY <3>0, CallKeepsDate DEF Stopped
    <3>1. CASE BeginBootstrap(b)
      <4>1. PICK pc, s : Becomes(b, [Resting EXCEPT !.pc = pc, !.sample = s, !.time = second])
        BY <3>1 DEF BeginBootstrap, BeginCall
      <4>2. DatedCall([Resting EXCEPT !.pc = pc, !.sample = s, !.time = second])
        BY <1>1 DEF DatedCall, CallFields, CohortInv
      <4> QED
        BY <4>1, <4>2
    <3>2. CASE BeginReconcile(b)
      <4>1. PICK pc, s : Becomes(b, [Resting EXCEPT !.pc = pc, !.sample = s, !.time = second])
        BY <3>2 DEF BeginReconcile, BeginCall
      <4>2. DatedCall([Resting EXCEPT !.pc = pc, !.sample = s, !.time = second])
        BY <1>1 DEF DatedCall, CallFields, CohortInv
      <4> QED
        BY <4>1, <4>2
    <3>3. CASE BootSecurities(b)
      BY <3>3, <3>0, CallKeepsDate DEF BootSecurities
    <3>4. CASE ReadBaselines(b)
      BY <3>4, <3>0, CallKeepsDate DEF ReadBaselines
    <3>5. CASE AddBaseline(b)
      BY <3>5, <3>0, CallKeepsDate DEF AddBaseline
    <3>6. CASE EndBaselines(b)
      BY <3>6, <3>0, CallKeepsDate DEF EndBaselines
    <3>7. CASE ReadSecurities(b)
      BY <3>7, <3>0, CallKeepsDate DEF ReadSecurities
    <3>8. CASE AlignSecurities(b)
      <4> DEFINE R == [boot[b] EXCEPT !.pc = "eligible", !.read = NothingRead]
      <4>1. Stopped(b) \/ Becomes(b, R)
        BY <3>8 DEF AlignSecurities
      <4>2. DatedCall(R)
        BY <3>0, CallKeepsDate
      <4> HIDE DEF R
      <4> QED
        BY <4>1, <4>2, <3>s
    <3>9. CASE ReadEvents(b)
      <4> DEFINE R == [boot[b] EXCEPT !.pc = "correct", !.read = NothingRead, !.last = LastEvents]
      <4>1. Becomes(b, R)
        BY <3>9 DEF ReadEvents
      <4>2. DatedCall(R)
        BY <3>0, CallKeepsDate
      <4> HIDE DEF R
      <4> QED
        BY <4>1, <4>2
    <3>10. CASE CorrectEvents(b)
      <4> DEFINE R == [boot[b] EXCEPT !.pc = "eligible", !.last = NoEvents]
      <4>1. Stopped(b) \/ Becomes(b, R)
        BY <3>10 DEF CorrectEvents
      <4>2. DatedCall(R)
        BY <3>0, CallKeepsDate
      <4> HIDE DEF R
      <4> QED
        BY <4>1, <4>2, <3>s
    <3>11. CASE ReadEligible(b)
      <4>1. PICK x : Becomes(b, [boot[b] EXCEPT !.pc = "retire", !.retire = x])
        BY <3>11 DEF ReadEligible
      <4>2. DatedCall([boot[b] EXCEPT !.pc = "retire", !.retire = x])
        BY <3>0, CallKeepsDate
      <4> QED
        BY <4>1, <4>2
    <3>12. CASE RetireMember(b)
      BY <3>12, <3>0, CallKeepsDate, <3>s DEF RetireMember
    <3>13. CASE EndRetirement(b)
      <4> DEFINE R == [boot[b] EXCEPT !.pc = "cohort", !.ciks = CiksOf(boot[b].sample)]
      <4>1. Becomes(b, R)
        BY <3>13 DEF EndRetirement
      <4>2. DatedCall(R)
        BY <3>0, CallKeepsDate
      <4> HIDE DEF R
      <4> QED
        BY <4>1, <4>2
    <3>14. CASE LookUpMember(b)
      <4>1. PICK x, y : Becomes(b, [boot[b] EXCEPT !.ciks = x, !.lacks = y])
        BY <3>14 DEF LookUpMember
      <4>2. DatedCall([boot[b] EXCEPT !.ciks = x, !.lacks = y])
        BY <3>0, CallKeepsDate
      <4> QED
        BY <4>1, <4>2
    <3>15. CASE AddMember(b)
      BY <3>15, <3>0, CallKeepsDate DEF AddMember
    <3>16. CASE EndCall(b)
      BY <3>16, <3>0, CallKeepsDate DEF EndCall
    <3>17. CASE BootDies(b)
      BY <3>17, <3>0, CallKeepsDate, <3>s DEF BootDies
    <3> QED
      BY <2>1, <3>1, <3>2, <3>3, <3>4, <3>5, <3>6, <3>7, <3>8, <3>9, <3>10, <3>11, <3>12,
         <3>13, <3>14, <3>15, <3>16, <3>17 DEF BootStep
  <2>4. PICK r : boot' = [boot EXCEPT ![b] = r] /\ DatedCall(r)
    BY <2>3 DEF Becomes
  <2> QED
    BY <2>2, <2>4 DEF CohortInv, DatedCall
<1> QED
  BY <1>2, <1>3 DEF CohortNext

\* The first baselines and memberships are stamped before the first second.
LEMMA CohortStarts == CohortInit => CohortInv
<1> SUFFICES ASSUME CohortInit
             PROVE  CohortInv
  OBVIOUS
<1>1. PICK s \in Samples \cup {<<>>} :
        /\ identity = [c \in Ciks |-> [k \in 1 .. Cardinality(RowsOf(s, c)) |->
                        [ticker |-> s[Nth(RowsOf(s, c), k)].ticker, time |-> 0, of |-> 0]]]
        /\ member = [c \in Ciks |-> IF c \in CiksOf(s)
                                   THEN <<[eligible |-> TRUE, time |-> 0, of |-> 0]>> ELSE <<>>]
  BY DEF CohortInit
<1>2. \A c \in Ciks : Timed(member[c])
  BY <1>1 DEF Timed, IsList
<1>3. \A c : Cardinality(RowsOf(s, c)) \in Nat
  <2>1. DOMAIN s = 1 .. Len(s) /\ Len(s) \in Nat
    BY CohortAssumption
  <2>2. IsFiniteSet(1 .. Len(s))
    BY <2>1, FS_Interval
  <2>3. \A c : RowsOf(s, c) \subseteq 1 .. Len(s)
    BY <2>1 DEF RowsOf
  <2> QED
    BY <2>2, <2>3, FS_Subset, FS_CardinalityType
<1>4. \A c \in Ciks : Timed(identity[c])
  <2> SUFFICES ASSUME NEW c \in Ciks
               PROVE  Timed(identity[c])
    OBVIOUS
  <2> DEFINE n == Cardinality(RowsOf(s, c))
             e(k) == [ticker |-> s[Nth(RowsOf(s, c), k)].ticker, time |-> 0, of |-> 0]
             S == {e(k) : k \in 1 .. n}
  <2>1. n \in Nat /\ identity[c] = [k \in 1 .. n |-> e(k)] /\ \A k : e(k).time = 0
    BY <1>1, <1>3
  <2>2. \A k \in 1 .. n : e(k) \in S
    OBVIOUS
  <2> HIDE DEF n, e, S
  <2>3. identity[c] \in [1 .. n -> S]
    BY <2>1, <2>2
  <2>4. identity[c] \in Seq(S) /\ Len(identity[c]) = n
    BY <2>1, <2>3, SeqDef, LenProperties
  <2> QED
    BY <2>1, <2>4 DEF Timed, IsList
<1>5. DOMAIN Resting = CallFields /\ Resting.time = 0
  BY DEF Resting, CallFields
<1>6. /\ second \in Nat /\ boot = [b \in BootCalls |-> Resting]
      /\ identity = [c \in Ciks |-> identity[c]] /\ member = [c \in Ciks |-> member[c]]
  BY <1>1 DEF CohortInit
<1> QED
  BY <1>2, <1>4, <1>5, <1>6 DEF CohortInv

\* Who was in the universe, and under which ticker, at a second that no call in
\* progress is stamped with never changes (security_bootstrap's append-only
\* corrections, read through universe_as_of and ticker_at).
THEOREM PastAlwaysStands == CohortSpec => PastStands
<1> DEFINE Stands ==
       \A t \in 0 .. second - 1 :
         (\A b \in BootCalls : Running(b) => t < boot[b].time) =>
            /\ UniverseAt(t)' = UniverseAt(t)
            /\ \A c \in Ciks : TickerAt(c, t)' = TickerAt(c, t)
<1>1. CohortInv /\ [CohortNext]_cohortVars => CohortInv'
  <2> SUFFICES ASSUME CohortInv, [CohortNext]_cohortVars
               PROVE  CohortInv'
    OBVIOUS
  <2>1. CASE CohortNext
    BY <2>1, StoresGrow, GrownIsTimed, CallsStayDated DEF CohortInv, HistoriesGrow
  <2>2. CASE UNCHANGED cohortVars
    BY <2>2 DEF CohortInv, cohortVars
  <2> QED
    BY <2>1, <2>2
<1>2. CohortInv /\ [CohortNext]_cohortVars => [Stands]_cohortVars
  <2> SUFFICES ASSUME CohortInv, CohortNext, NEW t \in 0 .. second - 1,
                      \A b \in BootCalls : Running(b) => t < boot[b].time
               PROVE  /\ UniverseAt(t)' = UniverseAt(t)
                      /\ \A c \in Ciks : TickerAt(c, t)' = TickerAt(c, t)
    OBVIOUS
  <2>0. t \in Nat
    BY DEF CohortInv
  <2>1. ASSUME NEW c \in Ciks
        PROVE  /\ ChainEnds(member'[c], t) = ChainEnds(member[c], t)
               /\ \A i \in ChainEnds(member[c], t) : member'[c][i] = member[c][i]
    BY <2>0, <2>1, StoresGrow, GrownStands DEF CohortInv, HistoriesGrow
  <2>2. UniverseAt(t)' = UniverseAt(t)
    BY <2>1 DEF UniverseAt
  <2>3. ASSUME NEW c \in Ciks
        PROVE  TickerAt(c, t)' = TickerAt(c, t)
    <3> DEFINE r == identity'[c]
               s == identity[c]
    <3>0. Timed(s) /\ Grown(s, r)
      BY <2>3, StoresGrow DEF CohortInv, HistoriesGrow
    <3> HIDE DEF r, s
    <3>9. ChainEnds(r, t) = ChainEnds(s, t) /\ \A i \in ChainEnds(s, t) : r[i] = s[i]
      BY <2>0, <3>0, GrownStands
    <3> HIDE DEF r, s
    <3>1. Newest(r, t) = Newest(s, t)
      BY <3>9 DEF Newest
    <3>2. \A i \in Newest(s, t) : r[i] = s[i]
      BY <3>9 DEF Newest
    <3> USE DEF r, s
    <3> DEFINE k == CHOOSE i \in Newest(identity[c], t) : TRUE
    <3>3. Newest(identity[c], t) # {} => k \in Newest(identity[c], t)
      OBVIOUS
    <3>4. TickerAt(c, t)' = IF Newest(identity[c], t) = {} THEN Absent ELSE identity'[c][k].ticker
      BY <3>1 DEF TickerAt
    <3>5. TickerAt(c, t) = IF Newest(identity[c], t) = {} THEN Absent ELSE identity[c][k].ticker
      BY DEF TickerAt
    <3> HIDE DEF k
    <3> QED
      BY <3>2, <3>3, <3>4, <3>5
  <2> QED
    BY <2>2, <2>3
<1> QED
  BY <1>1, <1>2, CohortStarts, PTL DEF CohortSpec, PastStands

-----------------------------------------------------------------------------
(* The provider's reserve.  A window of sent requests holds those stored   *)
(* within it, at most the reserve, and at most one of each driver stamped  *)
(* before the window opened: a driver reads its clock after its last send. *)

DriverFields == {"pc", "kind", "left", "again", "pass", "ticker", "attempt", "now", "number",
                 "ingested", "result"}

(* A driver that has not read the clock for a request.                     *)
Keeps(r, n) == DOMAIN r = DriverFields /\ r.number = n
Away(r, n) == Keeps(r, n) /\ r.pc \notin {"acquire", "send", "idle"}

(* What was sent is stored until a day after its stamp.                    *)
RowOf(e) == [by |-> e.by, number |-> e.number, at |-> e.stamp]

\* Drivers count their requests.
DriversNumbered ==
  /\ driver = [d \in Drivers |-> driver[d]]
  /\ \A d \in Drivers : DOMAIN driver[d] = DriverFields /\ driver[d].number \in Nat
  /\ \A d \in Drivers : driver[d].pc = "idle" => driver[d].number = 0

RequestsStored ==
  /\ IsFiniteSet(request) /\ request \subseteq [by : Drivers, number : Nat, at : Nat]
  /\ sent \subseteq [by : Drivers, number : Nat, stamp : Nat, at : Nat]
  /\ \A e \in sent : e.number <= driver[e.by].number /\ e.at <= tick
  /\ \A e, f \in sent : e.by = f.by /\ e.number = f.number => e = f
  /\ \A e, f \in sent : e.by = f.by /\ e.number < f.number => e.at <= f.stamp
  /\ \A e \in sent : e.stamp > tick - DaySpan => RowOf(e) \in request

\* A driver about to send has its row, stamped after all it sent before.
DriversReady ==
  /\ \A d \in Drivers : driver[d].pc \in {"acquire", "send"} =>
       /\ driver[d].now \in Nat /\ driver[d].now <= tick
       /\ \A e \in sent : e.by = d => e.at <= driver[d].now
  /\ \A d \in Drivers : driver[d].pc = "send" =>
       /\ \A e \in sent : e.by = d => e.number < driver[d].number
       /\ driver[d].now > tick - DaySpan =>
            [by |-> d, number |-> driver[d].number, at |-> driver[d].now] \in request

\* The stored rows of each window are within its reserve.
ReserveKept ==
  /\ Cardinality(Recent(request, HourSpan)) <= HourlyReserve
  /\ Cardinality(Recent(request, DaySpan)) <= DailyReserve

BackfillInv ==
  tick \in Nat /\ DriversNumbered /\ RequestsStored /\ DriversReady /\ ReserveKept

\* The steps that neither read the clock for a request nor acquire nor send.
Quiet(d) ==
  \/ StartRun(d) \/ StartSmoke(d) \/ PlanTicker(d) \/ EndPlan(d) \/ NextTicker(d) \/ EndPass(d)
  \/ ReserveSymbol(d) \/ WaitForQuota(d)
  \/ IngestRecord(d) \/ EndIngest(d) \/ AnswerRaises(d) \/ RecordResult(d) \/ DriverDies(d)

\* A driver between requests goes on without reading the clock.
LEMMA FieldsKeep ==
  ASSUME NEW n, NEW r, Keeps(r, n), NEW p, p \notin {"acquire", "send", "idle"},
         NEW x, NEW y, NEW z
  PROVE  /\ Away([r EXCEPT !.pc = p, !.left = x, !.again = y], n)
         /\ Away([r EXCEPT !.pc = p, !.attempt = x], n)
         /\ Away([r EXCEPT !.pc = p, !.attempt = x, !.now = y], n)
         /\ Away([r EXCEPT !.pc = p, !.ticker = x, !.result = y, !.again = z], n)
         /\ Away([r EXCEPT !.pc = p, !.result = x, !.attempt = 0, !.now = 0, !.ingested = 0], n)
         /\ Away([[r EXCEPT !.left = x] EXCEPT !.pc = p, !.ticker = y], n)
         /\ r.pc = p => /\ Away([r EXCEPT !.left = x], n)
                        /\ Away([r EXCEPT !.ingested = x], n)
                        /\ Away([[r EXCEPT !.left = x] EXCEPT !.again = y], n)
                        /\ Away([r EXCEPT !.pass = 2, !.left = x, !.again = y], n)
BY DEF Away, Keeps, DriverFields

\* Ending a run or dying keeps the count of requests.
LEMMA OverIsAway ==
  ASSUME NEW d \in Drivers, NEW p, p \notin {"acquire", "send", "idle"}
  PROVE  Away(Over(d, p), driver[d].number)
BY DEF Away, Keeps, DriverFields, Over, Waiting

\* A run or a smoke test starts with no request made.
LEMMA WaitingStarts ==
  ASSUME NEW x
  PROVE  /\ Away([Waiting EXCEPT !.pc = "plan", !.left = x], 0)
         /\ Away([Waiting EXCEPT !.pc = "reserve", !.kind = "smoke", !.ticker = x], 0)
BY DEF Away, Keeps, DriverFields, Waiting

\* An outcome is recorded without reading the clock.
LEMMA FinishesAway ==
  ASSUME DriversNumbered, NEW d \in Drivers, NEW result, Finishes(d, result)
  PROVE  \E r : Turns(d, r) /\ Away(r, driver[d].number)
<1>1. Keeps(driver[d], driver[d].number)
  BY DEF DriversNumbered, Keeps
<1>2. Away([driver[d] EXCEPT !.pc = "record", !.result = result, !.attempt = 0, !.now = 0,
                             !.ingested = 0], driver[d].number)
  BY <1>1, FieldsKeep
<1> QED
  BY <1>2 DEF Finishes

\* What a driver does between requests leaves the tables alone.
LEMMA QuietIsAway ==
  ASSUME DriversNumbered, NEW d \in Drivers, Quiet(d)
  PROVE  /\ UNCHANGED <<tick, request, sent>>
         /\ \E r : Turns(d, r) /\ Away(r, driver[d].number)
<1> DEFINE n == driver[d].number
           Gone == \E r : Turns(d, r) /\ Away(r, n)
<1>0. Keeps(driver[d], n) /\ (driver[d].pc = "idle" => n = 0)
  BY DEF DriversNumbered, Keeps
<1>1. UNCHANGED <<tick, request, sent>>
  BY DEF Quiet, StartRun, StartSmoke, PlanTicker, EndPlan, NextTicker, EndPass, ReserveSymbol,
         WaitForQuota, IngestRecord, EndIngest, AnswerRaises, RecordResult, DriverDies
<1> SUFFICES Gone
  BY <1>1
<1> DEFINE Fields(p) ==
      \A x, y, z :
         /\ Away([driver[d] EXCEPT !.pc = p, !.left = x, !.again = y], n)
         /\ Away([driver[d] EXCEPT !.pc = p, !.attempt = x], n)
         /\ Away([driver[d] EXCEPT !.pc = p, !.attempt = x, !.now = y], n)
         /\ Away([driver[d] EXCEPT !.pc = p, !.ticker = x, !.result = y, !.again = z], n)
         /\ Away([[driver[d] EXCEPT !.left = x] EXCEPT !.pc = p, !.ticker = y], n)
         /\ driver[d].pc = p =>
              /\ Away([driver[d] EXCEPT !.left = x], n)
              /\ Away([driver[d] EXCEPT !.ingested = x], n)
              /\ Away([[driver[d] EXCEPT !.left = x] EXCEPT !.again = y], n)
              /\ Away([driver[d] EXCEPT !.pass = 2, !.left = x, !.again = y], n)
<1>2. \A p : p \notin {"acquire", "send", "idle"} => Fields(p)
  BY <1>0, FieldsKeep
<1>3. Fields("plan") /\ Fields("next") /\ Fields("reserve") /\ Fields("clock")
        /\ Fields("ingest")
  BY <1>2
<1> HIDE DEF Fields
<1>4. CASE StartRun(d)
  <2> DEFINE r == [Waiting EXCEPT !.pc = "plan", !.left = InOrder(Tickers)]
  <2>1. n = 0 /\ Turns(d, r)
    BY <1>4, <1>0 DEF StartRun, Does
  <2>2. Away(r, 0)
    BY WaitingStarts
  <2> HIDE DEF r, n
  <2> QED
    BY <2>1, <2>2
<1>16. CASE StartSmoke(d)
  <2> DEFINE r == [Waiting EXCEPT !.pc = "reserve", !.kind = "smoke",
                              !.ticker = Head(InOrder(CanonicalTickers))]
  <2>1. n = 0 /\ Turns(d, r)
    BY <1>16, <1>0 DEF StartSmoke, Does
  <2>2. Away(r, 0)
    BY WaitingStarts
  <2> HIDE DEF r, n
  <2> QED
    BY <2>1, <2>2
<1>5. CASE PlanTicker(d)
  <2> DEFINE x == Tail(driver[d].left)
             y == Append([driver[d] EXCEPT !.left = x].again, Head(driver[d].left))
             r == [driver[d] EXCEPT !.left = x]
             q == [[driver[d] EXCEPT !.left = x] EXCEPT !.again = y]
  <2>1. driver[d].pc = "plan" /\ (Turns(d, r) \/ Turns(d, q))
    BY <1>5 DEF PlanTicker, Does
  <2> HIDE DEF x, y
  <2>2. Away(r, n) /\ Away(q, n)
    BY <2>1, <1>3 DEF Fields
  <2> HIDE DEF r, q
  <2> QED
    BY <2>1, <2>2
<1>6. CASE EndPlan(d)
  <2> DEFINE x == driver[d].again
             y == <<>>
             r == [driver[d] EXCEPT !.pc = "next", !.left = x, !.again = y]
  <2>1. Turns(d, r)
    BY <1>6 DEF EndPlan
  <2> HIDE DEF x, y
  <2>2. Away(r, n)
    BY <1>3 DEF Fields
  <2> HIDE DEF r
  <2> QED
    BY <2>1, <2>2
<1>7. CASE NextTicker(d)
  <2> DEFINE x == Tail(driver[d].left)
             y == Head(driver[d].left)
             r == [driver[d] EXCEPT !.left = x]
             q == [[driver[d] EXCEPT !.left = x] EXCEPT !.pc = "reserve", !.ticker = y]
  <2>1. driver[d].pc = "next" /\ (Turns(d, r) \/ Turns(d, q))
    BY <1>7 DEF NextTicker, Does
  <2> HIDE DEF x, y
  <2>2. Away(r, n) /\ Away(q, n)
    BY <2>1, <1>3 DEF Fields
  <2> HIDE DEF r, q
  <2> QED
    BY <2>1, <2>2
<1>8. CASE EndPass(d)
  <2> DEFINE x == driver[d].again
             y == <<>>
             r == [driver[d] EXCEPT !.pass = 2, !.left = x, !.again = y]
             q == Over(d, "done")
  <2>1. driver[d].pc = "next" /\ (Turns(d, r) \/ Turns(d, q))
    BY <1>8 DEF EndPass, Does
  <2> HIDE DEF x, y
  <2>2. Away(r, n)
    BY <2>1, <1>3 DEF Fields
  <2>3. Away(q, n)
    BY OverIsAway
  <2> HIDE DEF r, q
  <2> QED
    BY <2>1, <2>2, <2>3
<1>9. CASE ReserveSymbol(d)
  BY <1>9, <1>3, FinishesAway DEF ReserveSymbol, Does, Fields
<1>10. CASE WaitForQuota(d)
  BY <1>10, <1>3 DEF WaitForQuota, Does, Fields
<1>11. CASE IngestRecord(d)
  BY <1>11, <1>3 DEF IngestRecord, Does, Fields
<1>12. CASE EndIngest(d) \/ AnswerRaises(d)
  <2>1. Finishes(d, "SUCCESS") \/ Finishes(d, "PARSE") \/ Finishes(d, "TRANSIENT")
    BY <1>12 DEF EndIngest, AnswerRaises
  <2>2. \A result : Finishes(d, result) => Gone
    BY FinishesAway
  <2> HIDE DEF Gone
  <2> QED
    BY <2>1, <2>2
<1>13. CASE RecordResult(d)
  <2> DEFINE x == 0
             y == "none"
             z == IF driver[d].result = "TRANSIENT" /\ driver[d].pass = 1
                  THEN Append(driver[d].again, driver[d].ticker) ELSE driver[d].again
             r == [driver[d] EXCEPT !.pc = "next", !.ticker = x, !.result = y, !.again = z]
             q == Over(d, "done")
             p == Over(d, "stopped")
  <2>1. Turns(d, r) \/ Turns(d, q) \/ Turns(d, p)
    BY <1>13 DEF RecordResult
  <2> HIDE DEF x, y, z
  <2>2. Away(r, n)
    BY <1>3 DEF Fields
  <2>3. Away(q, n) /\ Away(p, n)
    BY OverIsAway
  <2> HIDE DEF r, q, p
  <2> QED
    BY <2>1, <2>2, <2>3
<1>14. CASE DriverDies(d)
  BY <1>14, OverIsAway DEF DriverDies
<1> QED
  BY <1>4, <1>16, <1>5, <1>6, <1>7, <1>8, <1>9, <1>10, <1>11, <1>12, <1>13, <1>14 DEF Quiet

(* A driver goes where it neither acquires nor sends, or reads the clock,  *)
(* or stays; time passes; the tables stand.                                *)
Rests(d) ==
  /\ DOMAIN driver'[d] = DriverFields /\ driver'[d].number = driver[d].number
  /\ driver'[d].pc = "idle" => driver[d].pc = "idle"
  /\ driver'[d].pc \in {"acquire", "send"} =>
       \/ driver'[d] = driver[d]
       \/ driver'[d].pc = "acquire" /\ driver'[d].now = tick

\* Time passes, or a driver rests or reads the clock.
LEMMA RestKeeps ==
  ASSUME BackfillInv, tick' \in Nat, tick' >= tick, request' = request, sent' = sent,
         driver' = [d \in Drivers |-> driver'[d]], \A d \in Drivers : Rests(d)
  PROVE  BackfillInv'
<1> USE DEF BackfillInv, Rests
<1>0. DaySpan \in Nat /\ HourSpan \in Nat /\ HourlyReserve \in Nat /\ DailyReserve \in Nat
  BY BackfillAssumption
<1>1. DriversNumbered'
  BY DEF DriversNumbered
<1>2. RequestsStored'
  <2>1. \A e \in sent : e.by \in Drivers /\ e.stamp \in Nat /\ e.at \in Nat
    BY DEF RequestsStored
  <2>2. \A e \in sent : e.number <= driver'[e.by].number /\ e.at <= tick'
    BY <2>1 DEF RequestsStored
  <2>3. \A e \in sent : e.stamp > tick' - DaySpan => RowOf(e) \in request
    BY <2>1, <1>0 DEF RequestsStored
  <2> QED
    BY <2>1, <2>2, <2>3 DEF RequestsStored, RowOf
<1>3. DriversReady'
  <2>1. \A e \in sent : e.at \in Nat /\ e.at <= tick
    BY DEF RequestsStored
  <2> SUFFICES ASSUME NEW d \in Drivers, driver'[d].pc \in {"acquire", "send"}
               PROVE  /\ driver'[d].now \in Nat /\ driver'[d].now <= tick'
                      /\ \A e \in sent : e.by = d => e.at <= driver'[d].now
                      /\ driver'[d].pc = "send" =>
                           /\ \A e \in sent : e.by = d => e.number < driver'[d].number
                           /\ driver'[d].now > tick' - DaySpan =>
                                [by |-> d, number |-> driver'[d].number, at |-> driver'[d].now]
                                  \in request
    BY DEF DriversReady
  <2>2. CASE driver'[d] = driver[d]
    BY <2>2, <1>0 DEF DriversReady
  <2>3. CASE driver'[d].pc = "acquire" /\ driver'[d].now = tick
    BY <2>1, <2>3
  <2> QED
    BY <2>2, <2>3
<1>4. ReserveKept'
  <2> SUFFICES ASSUME NEW span \in {HourSpan, DaySpan}
               PROVE  /\ Recent(request, span)' \subseteq Recent(request, span)
                      /\ IsFiniteSet(Recent(request, span))
    <3>1. /\ Cardinality(Recent(request, HourSpan)') <= Cardinality(Recent(request, HourSpan))
          /\ Cardinality(Recent(request, DaySpan)') <= Cardinality(Recent(request, DaySpan))
          /\ Cardinality(Recent(request, HourSpan)) \in Nat
          /\ Cardinality(Recent(request, DaySpan)) \in Nat
          /\ Cardinality(Recent(request, HourSpan)') \in Nat
          /\ Cardinality(Recent(request, DaySpan)') \in Nat
      BY FS_Subset, FS_CardinalityType
    <3> QED
      BY <3>1, <1>0 DEF ReserveKept
  <2>1. \A e \in request : e.at \in Nat
    BY DEF RequestsStored
  <2>2. Recent(request, span) \subseteq request /\ IsFiniteSet(request)
    BY DEF Recent, RequestsStored
  <2> QED
    BY <2>1, <2>2, <1>0, FS_Subset DEF Recent
<1> QED
  BY <1>1, <1>2, <1>3, <1>4

\* Between requests.
LEMMA QuietKeeps ==
  ASSUME BackfillInv, NEW d \in Drivers, Quiet(d)
  PROVE  BackfillInv'
<1>1. PICK r : Turns(d, r) /\ Away(r, driver[d].number)
  BY QuietIsAway DEF BackfillInv
<1>2. UNCHANGED <<tick, request, sent>>
  BY QuietIsAway DEF BackfillInv
<1>3. driver' = [x \in Drivers |-> IF x = d THEN r ELSE driver[x]]
  BY <1>1 DEF BackfillInv, DriversNumbered, Turns
<1>4. \A x \in Drivers : Rests(x)
  BY <1>1, <1>3 DEF Rests, BackfillInv, DriversNumbered, Away, Keeps
<1> QED
  BY <1>2, <1>3, <1>4, RestKeeps DEF BackfillInv

\* Time passes: the windows only lose what they hold.
LEMMA TickKeeps ==
  ASSUME BackfillInv, TickPasses
  PROVE  BackfillInv'
<1>1. \A x \in Drivers : Rests(x)
  BY DEF TickPasses, Rests, BackfillInv, DriversNumbered
<1> QED
  BY <1>1, RestKeeps DEF BackfillInv, TickPasses, DriversNumbered

\* A clock read now is no earlier than what was sent.
LEMMA ReadClockKeeps ==
  ASSUME BackfillInv, NEW d \in Drivers, ReadClock(d)
  PROVE  BackfillInv'
<1> DEFINE r == [driver[d] EXCEPT !.pc = "acquire", !.now = tick]
<1>1. driver' = [driver EXCEPT ![d] = r] /\ UNCHANGED <<tick, request, sent>>
  BY DEF ReadClock, Turns
<1>2. DOMAIN r = DriverFields /\ r.number = driver[d].number /\ r.pc = "acquire" /\ r.now = tick
  BY DEF BackfillInv, DriversNumbered, DriverFields
<1> HIDE DEF r
<1>3. driver' = [x \in Drivers |-> IF x = d THEN r ELSE driver[x]]
  BY <1>1 DEF BackfillInv, DriversNumbered
<1>4. \A x \in Drivers : Rests(x)
  BY <1>2, <1>3 DEF Rests, BackfillInv, DriversNumbered
<1>5. driver' = [x \in Drivers |-> driver'[x]]
  BY <1>3
<1>6. tick' \in Nat /\ tick' >= tick
  BY <1>1 DEF BackfillInv
<1> QED
  BY <1>1, <1>4, <1>5, <1>6, RestKeeps

\* One transaction counts both windows and adds the row (TiingoQuota.acquire).
LEMMA AcquireKeeps ==
  ASSUME BackfillInv, NEW d \in Drivers, Acquire(d)
  PROVE  BackfillInv'
<1> DEFINE moment == driver[d].now
           n == driver[d].number + 1
           kept == {e \in request : e.at > moment - DaySpan}
           e0 == [by |-> d, number |-> n, at |-> moment]
           r == [driver[d] EXCEPT !.pc = "send", !.number = @ + 1]
           q == [driver[d] EXCEPT !.pc = "wait", !.now = 0]
<1>0. DaySpan \in Nat /\ HourSpan \in Nat /\ HourSpan <= DaySpan
       /\ HourlyReserve \in Nat /\ DailyReserve \in Nat
  BY BackfillAssumption
<1>1. driver[d].pc = "acquire" /\ UNCHANGED <<tick, sent>> /\ tick \in Nat
  BY DEF Acquire, Does, BackfillInv
<1>2. moment \in Nat /\ moment <= tick /\ driver[d].number \in Nat
  BY <1>1 DEF BackfillInv, DriversReady, DriversNumbered
<1>3. CASE Turns(d, q) /\ UNCHANGED request
  <2>1. DOMAIN q = DriverFields /\ q.number = driver[d].number /\ q.pc = "wait"
    BY DEF BackfillInv, DriversNumbered, DriverFields
  <2> HIDE DEF q
  <2>2. driver' = [x \in Drivers |-> IF x = d THEN q ELSE driver[x]]
    BY <1>3 DEF BackfillInv, DriversNumbered, Turns
  <2>3. \A x \in Drivers : Rests(x)
    BY <2>1, <2>2 DEF Rests, BackfillInv, DriversNumbered
  <2> QED
    BY <1>1, <1>3, <2>2, <2>3, RestKeeps DEF BackfillInv
<1>4. CASE /\ Cardinality({e \in kept : e.at > moment - HourSpan}) < HourlyReserve
           /\ Cardinality(kept) < DailyReserve
           /\ request' = kept \cup {e0} /\ Turns(d, r)
  <2>1. /\ DOMAIN r = DriverFields /\ r.number = n /\ r.pc = "send" /\ r.now = moment
    BY DEF BackfillInv, DriversNumbered, DriverFields
  <2> HIDE DEF r
  <2>2. driver' = [x \in Drivers |-> IF x = d THEN r ELSE driver[x]]
    BY <1>4 DEF BackfillInv, DriversNumbered, Turns
  <2>3. n \in Nat /\ n > driver[d].number
    BY <1>2
  <2>4. DriversNumbered'
    BY <2>1, <2>2, <2>3 DEF BackfillInv, DriversNumbered
  <2>5. IsFiniteSet(kept) /\ kept \subseteq request
    BY FS_Subset DEF BackfillInv, RequestsStored
  <2>6. \A e \in request : e.at > tick - DaySpan => e \in kept
    BY <1>0, <1>1, <1>2 DEF BackfillInv, RequestsStored
  <2>7. \A e \in sent : e.by \in Drivers /\ e.number \in Nat /\ e.stamp \in Nat /\ e.at \in Nat
    BY DEF BackfillInv, RequestsStored
  <2>8. RequestsStored'
    <3>1. IsFiniteSet(request')
      BY <1>4, <2>5, FS_AddElement
    <3>2. request' \subseteq [by : Drivers, number : Nat, at : Nat]
      BY <1>2, <1>4, <2>3 DEF BackfillInv, RequestsStored
    <3>3. \A e \in sent : e.number <= driver'[e.by].number /\ e.at <= tick
      BY <2>1, <2>2, <2>3, <2>7, <1>2 DEF BackfillInv, RequestsStored, DriversNumbered
    <3>4. \A e \in sent : e.stamp > tick - DaySpan => RowOf(e) \in request'
      BY <1>4, <2>6 DEF BackfillInv, RequestsStored, RowOf
    <3> QED
      BY <1>1, <3>1, <3>2, <3>3, <3>4 DEF BackfillInv, RequestsStored, RowOf
  <2>9. DriversReady'
    <3> SUFFICES ASSUME NEW x \in Drivers, driver'[x].pc \in {"acquire", "send"}
                 PROVE  /\ driver'[x].now \in Nat /\ driver'[x].now <= tick
                        /\ \A e \in sent : e.by = x => e.at <= driver'[x].now
                        /\ driver'[x].pc = "send" =>
                             /\ \A e \in sent : e.by = x => e.number < driver'[x].number
                             /\ driver'[x].now > tick - DaySpan =>
                                  [by |-> x, number |-> driver'[x].number, at |-> driver'[x].now]
                                    \in request'
      BY <1>1 DEF DriversReady
    <3>1. CASE x = d
      <4>1. driver'[x] = r
        BY <2>2, <3>1
      <4>2. \A e \in sent : e.by = d => e.at <= moment /\ e.number < n
        BY <1>1, <1>2, <2>3, <2>7 DEF BackfillInv, RequestsStored, DriversReady
      <4> QED
        BY <1>2, <1>4, <2>1, <3>1, <4>1, <4>2
    <3>2. CASE x # d
      <4>1. driver'[x] = driver[x]
        BY <2>2, <3>2
      <4>2. driver[x].pc = "send" /\ driver[x].now > tick - DaySpan =>
              [by |-> x, number |-> driver[x].number, at |-> driver[x].now] \in request'
        <5> DEFINE e1 == [by |-> x, number |-> driver[x].number, at |-> driver[x].now]
        <5>1. e1.at = driver[x].now
          OBVIOUS
        <5>2. driver[x].pc = "send" /\ driver[x].now > tick - DaySpan => e1 \in request
          BY DEF BackfillInv, DriversReady
        <5> HIDE DEF e1
        <5>3. driver[x].pc = "send" /\ driver[x].now > tick - DaySpan => e1 \in request'
          BY <1>4, <2>6, <5>1, <5>2
        <5> QED
          BY <5>3 DEF e1
      <4> QED
        BY <4>1, <4>2 DEF BackfillInv, DriversReady
    <3> QED
      BY <3>1, <3>2
  <2>10. ReserveKept'
    <3> DEFINE hour == {e \in kept : e.at > moment - HourSpan}
    <3>1. IsFiniteSet(hour)
      BY <2>5, FS_Subset
    <3>2. /\ Recent(request, HourSpan)' \subseteq hour \cup {e0}
          /\ Recent(request, DaySpan)' \subseteq kept \cup {e0}
      <4>1. \A e \in request : e.at \in Nat
        BY DEF BackfillInv, RequestsStored
      <4>2. e0.at = moment
        OBVIOUS
      <4> HIDE DEF e0
      <4> QED
        BY <1>0, <1>1, <1>2, <1>4, <4>1, <4>2 DEF Recent
    <3>3. /\ Cardinality(hour) \in Nat /\ Cardinality(kept) \in Nat
          /\ IsFiniteSet(hour \cup {e0}) /\ IsFiniteSet(kept \cup {e0})
          /\ Cardinality(hour \cup {e0}) <= Cardinality(hour) + 1
          /\ Cardinality(kept \cup {e0}) <= Cardinality(kept) + 1
      <4>1. /\ IsFiniteSet(hour \cup {e0})
            /\ Cardinality(hour \cup {e0})
                 = IF e0 \in hour THEN Cardinality(hour) ELSE Cardinality(hour) + 1
        BY <3>1, FS_AddElement
      <4>2. /\ IsFiniteSet(kept \cup {e0})
            /\ Cardinality(kept \cup {e0})
                 = IF e0 \in kept THEN Cardinality(kept) ELSE Cardinality(kept) + 1
        BY <2>5, FS_AddElement
      <4>3. Cardinality(hour) \in Nat /\ Cardinality(kept) \in Nat
        BY <2>5, <3>1, FS_CardinalityType
      <4> HIDE DEF e0, hour, kept
      <4> QED
        BY <4>1, <4>2, <4>3
    <3>4. /\ Cardinality(Recent(request, HourSpan)') <= Cardinality(hour \cup {e0})
          /\ Cardinality(Recent(request, DaySpan)') <= Cardinality(kept \cup {e0})
          /\ Cardinality(Recent(request, HourSpan)') \in Nat
          /\ Cardinality(Recent(request, DaySpan)') \in Nat
          /\ Cardinality(hour \cup {e0}) \in Nat /\ Cardinality(kept \cup {e0}) \in Nat
      <4> HIDE DEF e0, hour, kept
      <4> QED
        BY <3>2, <3>3, FS_Subset, FS_CardinalityType
    <3>5. Cardinality(hour) < HourlyReserve /\ Cardinality(kept) < DailyReserve
      BY <1>4
    <3> HIDE DEF e0, hour, kept
    <3> QED
      BY <1>0, <3>3, <3>4, <3>5 DEF ReserveKept
  <2> QED
    BY <1>1, <2>4, <2>8, <2>9, <2>10 DEF BackfillInv
<1>5. \/ Turns(d, q) /\ UNCHANGED request
      \/ /\ ~(Cardinality({e \in kept : e.at > moment - HourSpan}) >= HourlyReserve)
         /\ ~(Cardinality(kept) >= DailyReserve)
         /\ request' = kept \cup {e0} /\ Turns(d, r)
  BY DEF Acquire
<1>6. Cardinality({e \in kept : e.at > moment - HourSpan}) \in Nat /\ Cardinality(kept) \in Nat
  <2>1. IsFiniteSet(kept)
    BY FS_Subset DEF BackfillInv, RequestsStored
  <2> HIDE DEF kept
  <2>2. IsFiniteSet({e \in kept : e.at > moment - HourSpan})
    BY <2>1, FS_Subset
  <2> QED
    BY <2>1, <2>2, FS_CardinalityType
<1> HIDE DEF kept, e0, r, q
<1> QED
  BY <1>0, <1>3, <1>4, <1>5, <1>6

\* An answer ends, retries or reads the request; none sends again without a row.
LEMMA SendGoesAway ==
  ASSUME DriversNumbered, NEW d \in Drivers, SendRequest(d)
  PROVE  \E r : Turns(d, r) /\ Away(r, driver[d].number)
<1> DEFINE x == driver[d].attempt + 1
           r == [driver[d] EXCEPT !.pc = "ingest", !.attempt = 0, !.now = 0]
           q == [driver[d] EXCEPT !.pc = "clock", !.attempt = x, !.now = 0]
<1>1. Turns(d, r) \/ Turns(d, q) \/ \E result : Finishes(d, result)
  <2>1. PICK answer \in Answers :
          IF answer = "ok" THEN Turns(d, r)
          ELSE IF answer \in Retried /\ driver[d].attempt < Tries(d) THEN Turns(d, q)
          ELSE Finishes(d, Class(answer))
    BY DEF SendRequest
  <2> HIDE DEF r, q
  <2> QED
    BY <2>1
<1> HIDE DEF x
<1>2. Keeps(driver[d], driver[d].number)
  BY DEF DriversNumbered, Keeps
<1>3. Away(r, driver[d].number) /\ Away(q, driver[d].number)
  BY <1>2, FieldsKeep
<1> HIDE DEF r, q
<1> QED
  BY <1>1, <1>3, FinishesAway

\* The request sent is the one its row was stored for.
LEMMA SendKeeps ==
  ASSUME BackfillInv, NEW d \in Drivers, SendRequest(d)
  PROVE  BackfillInv'
<1> DEFINE n == driver[d].number
           e1 == [by |-> d, number |-> n, stamp |-> driver[d].now, at |-> tick]
<1>0. DaySpan \in Nat /\ tick \in Nat
  BY BackfillAssumption DEF BackfillInv
<1>1. driver[d].pc = "send" /\ UNCHANGED <<tick, request>> /\ sent' = sent \cup {e1}
  BY DEF SendRequest, Does
<1>2. PICK r : Turns(d, r) /\ Away(r, n)
  BY SendGoesAway DEF BackfillInv
<1>3. driver' = [x \in Drivers |-> IF x = d THEN r ELSE driver[x]]
  BY <1>2 DEF BackfillInv, DriversNumbered, Turns
<1>4. n \in Nat /\ driver[d].now \in Nat /\ driver[d].now <= tick
  BY <1>1 DEF BackfillInv, DriversNumbered, DriversReady
<1>5. /\ e1.by = d /\ e1.number = n /\ e1.stamp = driver[d].now /\ e1.at = tick
      /\ e1 \in [by : Drivers, number : Nat, stamp : Nat, at : Nat]
      /\ RowOf(e1) = [by |-> d, number |-> driver[d].number, at |-> driver[d].now]
  BY <1>0, <1>4 DEF RowOf
<1> HIDE DEF e1
<1>6. \A e \in sent : /\ e.by \in Drivers /\ e.number \in Nat /\ e.stamp \in Nat /\ e.at \in Nat
                      /\ e.number <= driver[e.by].number /\ e.at <= tick
  BY DEF BackfillInv, RequestsStored
<1>7. \A e \in sent : e.by = d => e.number < n /\ e.at <= driver[d].now
  BY <1>1 DEF BackfillInv, DriversReady
<1>8. DriversNumbered'
  BY <1>2, <1>3 DEF BackfillInv, DriversNumbered, Away, Keeps
<1>9. \A x \in Drivers : driver'[x].number = driver[x].number
  BY <1>2, <1>3 DEF Away, Keeps
<1>10. RequestsStored'
  <2>1. sent' \subseteq [by : Drivers, number : Nat, stamp : Nat, at : Nat]
    BY <1>1, <1>5 DEF BackfillInv, RequestsStored
  <2>2. \A e \in sent' : e.number <= driver'[e.by].number /\ e.at <= tick
    BY <1>0, <1>1, <1>4, <1>5, <1>6, <1>9
  <2>3. \A e, f \in sent' : e.by = f.by /\ e.number = f.number => e = f
    BY <1>1, <1>4, <1>5, <1>6, <1>7 DEF BackfillInv, RequestsStored
  <2>4. \A e, f \in sent' : e.by = f.by /\ e.number < f.number => e.at <= f.stamp
    BY <1>1, <1>4, <1>5, <1>6, <1>7 DEF BackfillInv, RequestsStored
  <2>5. \A e \in sent' : e.stamp > tick - DaySpan => RowOf(e) \in request
    BY <1>1, <1>5 DEF BackfillInv, RequestsStored, DriversReady
  <2> QED
    BY <1>1, <2>1, <2>2, <2>3, <2>4, <2>5 DEF BackfillInv, RequestsStored, RowOf
<1>11. DriversReady'
  <2> SUFFICES ASSUME NEW x \in Drivers, driver'[x].pc \in {"acquire", "send"}
               PROVE  /\ driver'[x].now \in Nat /\ driver'[x].now <= tick
                      /\ \A e \in sent' : e.by = x => e.at <= driver'[x].now
                      /\ driver'[x].pc = "send" =>
                           /\ \A e \in sent' : e.by = x => e.number < driver'[x].number
                           /\ driver'[x].now > tick - DaySpan =>
                                [by |-> x, number |-> driver'[x].number, at |-> driver'[x].now]
                                  \in request
    BY <1>1 DEF DriversReady
  <2>1. x # d /\ driver'[x] = driver[x]
    BY <1>2, <1>3 DEF Away
  <2>2. \A e \in sent' : e.by = x => e \in sent
    BY <1>1, <1>5, <2>1
  <2> QED
    BY <2>1, <2>2 DEF BackfillInv, DriversReady
<1>12. ReserveKept'
  BY <1>1 DEF BackfillInv, ReserveKept, Recent
<1> QED
  BY <1>0, <1>1, <1>8, <1>10, <1>11, <1>12 DEF BackfillInv

\* Nothing is stored or sent at first.
LEMMA BackfillStarts == BackfillInit => BackfillInv
<1> SUFFICES ASSUME BackfillInit PROVE BackfillInv
  OBVIOUS
<1>1. tick \in Nat /\ DriversNumbered
  BY DEF BackfillInit, DriversNumbered, Waiting, DriverFields
<1>2. RequestsStored /\ DriversReady
  BY FS_EmptySet DEF BackfillInit, RequestsStored, DriversReady, Waiting
<1>3. ReserveKept
  <2>1. Recent(request, HourSpan) = {} /\ Recent(request, DaySpan) = {}
    BY DEF BackfillInit, Recent
  <2> QED
    BY <2>1, FS_EmptySet, BackfillAssumption DEF ReserveKept
<1> QED
  BY <1>1, <1>2, <1>3 DEF BackfillInv

\* Requests sent within a window inject into the rows stored within it, but for
\* at most one late one of each driver.
LEMMA SentWithin ==
  ASSUME BackfillInv, NEW span \in {HourSpan, DaySpan}
  PROVE  /\ IsFiniteSet(Recent(sent, span))
         /\ Cardinality(Recent(sent, span))
              <= Cardinality(Recent(request, span)) + Cardinality(Drivers)
<1> DEFINE Fresh == {e \in Recent(sent, span) : e.stamp > tick - span}
           Late == {e \in Recent(sent, span) : e.stamp <= tick - span}
           f == [e \in Fresh |-> RowOf(e)]
           g == [e \in Late |-> e.by]
<1>0. /\ DaySpan \in Nat /\ HourSpan \in Nat /\ HourSpan <= DaySpan /\ tick \in Nat
      /\ span \in Nat /\ span <= DaySpan
  BY BackfillAssumption DEF BackfillInv
<1>1. \A e \in sent : e.by \in Drivers /\ e.number \in Nat /\ e.stamp \in Nat /\ e.at \in Nat
  BY DEF BackfillInv, RequestsStored
<1>2. Recent(sent, span) = Fresh \cup Late
  BY <1>0, <1>1 DEF Recent
<1>3. \A e \in Recent(sent, span) : e \in sent /\ e.at > tick - span
  BY DEF Recent
<1>4. IsFiniteSet(Recent(request, span))
  BY FS_Subset DEF BackfillInv, RequestsStored, Recent
<1>5. f \in Injection(Fresh, Recent(request, span))
  <2>1. \A e \in Fresh : RowOf(e) \in Recent(request, span)
    <3> SUFFICES ASSUME NEW e \in Fresh PROVE RowOf(e) \in Recent(request, span)
      OBVIOUS
    <3>1. e \in sent /\ e.stamp > tick - span /\ e.stamp > tick - DaySpan
      BY <1>0, <1>1, <1>3
    <3>2. RowOf(e) \in request /\ RowOf(e).at = e.stamp
      BY <3>1 DEF BackfillInv, RequestsStored, RowOf
    <3> QED
      BY <3>1, <3>2 DEF Recent
  <2>2. \A e, h \in Fresh : RowOf(e) = RowOf(h) => e = h
    BY <1>3 DEF BackfillInv, RequestsStored, RowOf
  <2> HIDE DEF Fresh
  <2> QED
    BY <2>1, <2>2 DEF Injection, IsInjective
<1>6. g \in Injection(Late, Drivers)
  <2>1. \A e, h \in Late : e.by = h.by => e = h
    <3> SUFFICES ASSUME NEW e \in Late, NEW h \in Late, e.by = h.by, e # h PROVE FALSE
      OBVIOUS
    <3>1. e.number < h.number \/ h.number < e.number
      BY <1>1, <1>3 DEF BackfillInv, RequestsStored
    <3>2. e.at <= h.stamp \/ h.at <= e.stamp
      BY <1>3, <3>1 DEF BackfillInv, RequestsStored
    <3> QED
      BY <1>0, <1>1, <1>3, <3>2
  <2>2. \A e \in Late : e.by \in Drivers
    BY <1>1, <1>3
  <2> HIDE DEF Late
  <2> QED
    BY <2>1, <2>2 DEF Injection, IsInjective
<1> HIDE DEF Fresh, Late, f, g
<1>7. IsFiniteSet(Fresh) /\ Cardinality(Fresh) <= Cardinality(Recent(request, span))
  BY <1>4, <1>5, FS_Injection
<1>8. IsFiniteSet(Late) /\ Cardinality(Late) <= Cardinality(Drivers)
  BY <1>6, FS_Injection, BackfillAssumption
<1>9. /\ IsFiniteSet(Fresh \cup Late)
      /\ Cardinality(Fresh \cup Late)
           = Cardinality(Fresh) + Cardinality(Late) - Cardinality(Fresh \cap Late)
  BY <1>7, <1>8, FS_Union
<1>10. /\ Cardinality(Fresh) \in Nat /\ Cardinality(Late) \in Nat
       /\ Cardinality(Fresh \cap Late) \in Nat /\ Cardinality(Drivers) \in Nat
       /\ Cardinality(Recent(request, span)) \in Nat
  <2>1. IsFiniteSet(Fresh \cap Late)
    BY <1>7, FS_Subset
  <2> QED
    BY <1>4, <1>7, <1>8, <2>1, FS_CardinalityType, BackfillAssumption
<1> QED
  BY <1>2, <1>7, <1>8, <1>9, <1>10

\* However many runs share the provider's table, no hour and no day holds more
\* requests sent than its reserve and one late request of each driver
\* (TiingoQuota.acquire: a row is stamped before its request leaves).
THEOREM RequestsStayWithinReserve == BackfillSpec => []RequestsWithinReserve
<1>1. BackfillInv /\ [BackfillNext]_backfillVars => BackfillInv'
  <2> SUFFICES ASSUME BackfillInv, [BackfillNext]_backfillVars PROVE BackfillInv'
    OBVIOUS
  <2>1. CASE UNCHANGED backfillVars
    BY <2>1 DEF backfillVars, BackfillInv, DriversNumbered, RequestsStored, DriversReady,
                ReserveKept, Recent
  <2>2. CASE TickPasses
    BY <2>2, TickKeeps
  <2>3. CASE \E d \in Drivers : DriverStep(d)
    <3>1. PICK d \in Drivers : DriverStep(d)
      BY <2>3
    <3>2. Quiet(d) \/ ReadClock(d) \/ Acquire(d) \/ SendRequest(d)
      BY <3>1 DEF DriverStep, Quiet
    <3> QED
      BY <3>2, QuietKeeps, ReadClockKeeps, AcquireKeeps, SendKeeps
  <2> QED
    BY <2>1, <2>2, <2>3 DEF BackfillNext
<1>2. BackfillInv => RequestsWithinReserve
  <2> SUFFICES ASSUME BackfillInv PROVE RequestsWithinReserve
    OBVIOUS
  <2>1. /\ IsFiniteSet(Recent(sent, HourSpan)) /\ IsFiniteSet(Recent(sent, DaySpan))
        /\ Cardinality(Recent(sent, HourSpan))
             <= Cardinality(Recent(request, HourSpan)) + Cardinality(Drivers)
        /\ Cardinality(Recent(sent, DaySpan))
             <= Cardinality(Recent(request, DaySpan)) + Cardinality(Drivers)
    BY SentWithin
  <2>2. /\ Cardinality(Recent(request, HourSpan)) <= HourlyReserve
        /\ Cardinality(Recent(request, DaySpan)) <= DailyReserve
    BY DEF BackfillInv, ReserveKept
  <2>3. /\ IsFiniteSet(Recent(request, HourSpan)) /\ IsFiniteSet(Recent(request, DaySpan))
    BY FS_Subset DEF BackfillInv, RequestsStored, Recent
  <2>4. /\ Cardinality(Recent(request, HourSpan)) \in Nat /\ Cardinality(Drivers) \in Nat
        /\ Cardinality(Recent(request, DaySpan)) \in Nat
        /\ Cardinality(Recent(sent, HourSpan)) \in Nat /\ Cardinality(Recent(sent, DaySpan)) \in Nat
        /\ HourlyReserve \in Nat /\ DailyReserve \in Nat
    BY <2>1, <2>3, FS_CardinalityType, BackfillAssumption
  <2> QED
    BY <2>1, <2>2, <2>4 DEF RequestsWithinReserve
<1> QED
  BY <1>1, <1>2, BackfillStarts, PTL DEF BackfillSpec

-----------------------------------------------------------------------------
(* Published snapshots.  A destination holds a synced copy or nothing; a   *)
(* row becomes READY after its copy and its directory entry are synced, or *)
(* by a recovery that found the copy; calls that do not overlap find their *)
(* rows as they left them.                                                 *)

\* How far a call got.
Points == {"idle", "recover", "register", "copy", "sync", "move", "name", "publish", "freeze",
           "done", "stopped"}
FileType == [is : {"absent", "whole", "damaged"}, id : Calls \cup {Nobody}, content : Nat,
             synced : BOOLEAN, named : BOOLEAN]
CallType == [pc : Points, copy : FileType, pending : SUBSET Calls,
             looked : Calls \cup {Nobody}, found : BOOLEAN, deletes : SUBSET Calls,
             readies : SUBSET Calls]
RowType == [status : {"none", "PENDING", "READY"}, content : Nat, by : Calls \cup {Nobody}]

\* The types of the variables.
SnapshotTypeOK ==
  /\ content \in Nat /\ version \in [Calls -> RowType] /\ placed \in [Calls -> FileType]
  /\ call \in [Calls -> CallType] /\ overlapped \in BOOLEAN /\ frozen \subseteq Calls

\* A synced copy of call c.
Synced(f, c) == f.is = "whole" /\ f.id = c /\ f.synced

\* Destinations hold synced copies, and a call knows how far it got with its own.
FilesOK ==
  /\ \A c \in Calls : placed[c] = NoFile \/ Synced(placed[c], c)
  /\ \A c \in Calls : call[c].pc \in {"idle", "recover", "register", "copy", "sync", "move"} =>
       placed[c] = NoFile
  /\ \A c \in Calls :
       /\ At(c, "sync") => IsCopyOf(call[c].copy, c)
       /\ At(c, "move") => Synced(call[c].copy, c)
       /\ call[c].pc \in {"name", "publish", "freeze"} =>
            Synced(placed[c], c) /\ placed[c].content = call[c].copy.content
       /\ call[c].pc \in {"publish", "freeze"} => placed[c].named
       /\ c \in frozen => At(c, "done") /\ Synced(placed[c], c) /\ placed[c].named

\* What a recovery found is there until it ends.
RecoveriesOK ==
  \A c \in Calls :
    /\ At(c, "idle") => call[c] = NoCall
    /\ At(c, "recover") =>
         /\ call[c].found /\ call[c].looked # Nobody => Synced(placed[call[c].looked], call[c].looked)
         /\ \A x \in call[c].readies : Synced(placed[x], x)

\* A READY row has its file, unless a recovery published it too soon for an outage.
ReadyOK ==
  \A c \in Calls : version[c].status = "READY" =>
    \/ c \in lost /\ version[c].by # c
    \/ /\ Synced(placed[c], c) /\ placed[c].content = version[c].content
       /\ version[c].by = c => placed[c].named

\* Calls that do not overlap find their rows as they left them.
AloneOK ==
  ~overlapped =>
    /\ \A c, d \in Calls : Active(c) /\ Active(d) => c = d
    /\ \A c \in Calls : At(c, "recover") =>
         \A x \in Calls : x \in call[c].pending \cup call[c].deletes \cup call[c].readies
                            \cup {call[c].looked} => version[x].status = "PENDING"
    /\ \A c \in Calls : call[c].pc \in {"copy", "sync", "move", "name", "publish"} =>
         version[c].status = "PENDING"
    /\ \A c \in Calls : At(c, "freeze") \/ c \in frozen => version[c].status = "READY"

\* The inductive invariant.
SnapshotInv == SnapshotTypeOK /\ FilesOK /\ RecoveriesOK /\ ReadyOK /\ AloneOK

\* Nothing is registered, placed or in progress at first.
LEMMA SnapshotStarts == SnapshotInit => SnapshotInv
<1> SUFFICES ASSUME SnapshotInit PROVE SnapshotInv
  OBVIOUS
<1> USE DEF SnapshotInit
<1>1. NoFile \in FileType /\ NoCall \in CallType /\ NoRow \in RowType
  <2>1. NoFile \in FileType
    BY DEF NoFile, FileType
  <2>2. NoCall \in CallType
    <3> HIDE DEF SnapshotInit
    <3> QED
      BY <2>1 DEF NoCall, CallType, Points
  <2>3. NoRow \in RowType
    BY DEF NoRow, RowType
  <2> QED
    BY <2>1, <2>2, <2>3
<1>2. NoCall.pc = "idle" /\ NoRow.status = "none"
  BY DEF NoCall, NoRow
<1>3. SnapshotTypeOK
  BY <1>1 DEF SnapshotTypeOK
<1>4. FilesOK /\ RecoveriesOK /\ ReadyOK /\ AloneOK
  BY <1>2 DEF FilesOK, RecoveriesOK, ReadyOK, AloneOK, At, Active
<1> QED
  BY <1>3, <1>4 DEF SnapshotInv

\* What a call records about itself.
LEMMA CallFieldsKeep ==
  ASSUME NEW r \in CallType, NEW p \in Points, NEW X \in SUBSET Calls, NEW f \in FileType,
         NEW y \in Calls \cup {Nobody}, NEW b \in BOOLEAN
  PROVE  /\ [r EXCEPT !.pc = p] \in CallType
         /\ [r EXCEPT !.pc = p, !.pending = X] \in CallType
         /\ [r EXCEPT !.pc = p, !.copy = f] \in CallType
         /\ [r EXCEPT !.pc = p, !.deletes = {}, !.readies = {}] \in CallType
         /\ [r EXCEPT !.pending = X, !.looked = y, !.found = b] \in CallType
         /\ [r EXCEPT !.looked = Nobody, !.deletes = X] \in CallType
         /\ [r EXCEPT !.looked = Nobody, !.found = FALSE, !.readies = X] \in CallType
BY DEF CallType

\* A call reads the PENDING rows it will recover.
LEMMA BeginSnapshotKeeps ==
  ASSUME SnapshotInv, NEW c \in Calls, BeginSnapshot(c)
  PROVE  SnapshotInv'
<1> DEFINE r == [call[c] EXCEPT !.pc = "recover",
                             !.pending = {x \in Calls : version[x].status = "PENDING"}]
<1>0. /\ call[c] \in CallType /\ NoFile.is = "absent" /\ NoCall.pc = "idle"
       /\ NoCall.looked = Nobody /\ NoCall.pending = {} /\ NoCall.deletes = {}
       /\ NoCall.readies = {}
  BY DEF SnapshotInv, SnapshotTypeOK, NoFile, NoCall
<1>1. call' = [call EXCEPT ![c] = r]
  BY DEF BeginSnapshot, Goes, GoesTo
<1>2. /\ r \in CallType /\ r.pc = "recover" /\ r.copy = call[c].copy
      /\ r.pending = {x \in Calls : version[x].status = "PENDING"}
      /\ r.looked = call[c].looked /\ r.found = call[c].found
      /\ r.deletes = call[c].deletes /\ r.readies = call[c].readies
  BY <1>0, SnapshotAssumption DEF Points, CallType
<1> HIDE DEF r
<1>3. call' = [x \in Calls |-> IF x = c THEN r ELSE call[x]]
  BY <1>1 DEF SnapshotInv, SnapshotTypeOK
<1>4. SnapshotTypeOK'
  BY <1>0, <1>2, <1>3 DEF BeginSnapshot, SnapshotInv, SnapshotTypeOK, RowType, CallType
<1> USE DEF At, Active, Synced, IsCopyOf, Points
<1>5. FilesOK'
  BY <1>0, <1>2, <1>3 DEF BeginSnapshot, SnapshotInv, SnapshotTypeOK, FilesOK
<1>6. RecoveriesOK'
  BY <1>0, <1>2, <1>3 DEF BeginSnapshot, SnapshotInv, SnapshotTypeOK, FilesOK, RecoveriesOK
<1>7. ReadyOK'
  BY <1>0, <1>2, <1>3 DEF BeginSnapshot, SnapshotInv, SnapshotTypeOK, FilesOK, ReadyOK
<1>8. AloneOK'
  <2> SUFFICES ASSUME ~overlapped' PROVE AloneOK'
    BY DEF AloneOK
  <2>1. ~overlapped /\ (\A x \in Calls \ {c} : ~Active(x))
    BY DEF BeginSnapshot
  <2>2. \A x \in Calls \ {c} : call'[x] = call[x]
    BY <1>3
  <2>3. version' = version /\ frozen' = frozen /\ call'[c] = r /\ At(c, "idle")
    BY <1>3 DEF BeginSnapshot
  <2>4. \A x \in r.pending \cup r.deletes \cup r.readies : version[x].status = "PENDING"
    BY <1>0, <1>2, <2>3 DEF SnapshotInv, RecoveriesOK
  <2>5. r.looked \notin Calls
    BY <1>0, <1>2, <2>3, SnapshotAssumption DEF SnapshotInv, RecoveriesOK
  <2> QED
    BY <1>2, <2>1, <2>2, <2>3, <2>4, <2>5 DEF SnapshotInv, AloneOK
<1> QED
  BY <1>4, <1>5, <1>6, <1>7, <1>8 DEF SnapshotInv

\* It stores its own row as PENDING.
LEMMA RegisterKeeps ==
  ASSUME SnapshotInv, NEW c \in Calls, Register(c)
  PROVE  SnapshotInv'
<1> DEFINE r == [call[c] EXCEPT !.pc = "copy"]
<1>0. /\ call[c] \in CallType /\ NoFile.is = "absent" /\ NoCall.pc = "idle"
       /\ NoCall.looked = Nobody /\ NoCall.pending = {} /\ NoCall.deletes = {}
       /\ NoCall.readies = {}
  BY DEF SnapshotInv, SnapshotTypeOK, NoFile, NoCall
<1>1. call' = [call EXCEPT ![c] = r]
  BY DEF Register, Goes, GoesTo
<1>2. /\ r \in CallType /\ r.pc = "copy" /\ r.copy = call[c].copy
      /\ r.pending = call[c].pending /\ r.looked = call[c].looked /\ r.found = call[c].found
      /\ r.deletes = call[c].deletes /\ r.readies = call[c].readies
  BY <1>0, SnapshotAssumption DEF Points, CallType
<1> HIDE DEF r
<1>3. call' = [x \in Calls |-> IF x = c THEN r ELSE call[x]]
  BY <1>1 DEF SnapshotInv, SnapshotTypeOK
<1> DEFINE v == [status |-> "PENDING", content |-> 0, by |-> Nobody]
<1>10. v \in RowType /\ v.status = "PENDING"
  BY DEF RowType
<1> HIDE DEF v
<1>9. version' = [x \in Calls |-> IF x = c THEN v ELSE version[x]]
  BY DEF Register, SnapshotInv, SnapshotTypeOK, v
<1>4. SnapshotTypeOK'
  BY <1>0, <1>2, <1>3, <1>9, <1>10 DEF Register, SnapshotInv, SnapshotTypeOK, RowType, CallType
<1> USE DEF At, Active, Synced, IsCopyOf, Points
<1>5. FilesOK'
  BY <1>0, <1>2, <1>3, <1>9, <1>10 DEF Register, SnapshotInv, SnapshotTypeOK, FilesOK
<1>6. RecoveriesOK'
  BY <1>0, <1>2, <1>3, <1>9, <1>10 DEF Register, SnapshotInv, SnapshotTypeOK, FilesOK, RecoveriesOK
<1>7. ReadyOK'
  BY <1>0, <1>2, <1>3, <1>9, <1>10 DEF Register, SnapshotInv, SnapshotTypeOK, FilesOK, ReadyOK
<1>8. AloneOK'
  BY <1>0, SnapshotAssumption, <1>2, <1>3, <1>9, <1>10
     DEF Register, SnapshotInv, SnapshotTypeOK, FilesOK, RecoveriesOK, AloneOK
<1> QED
  BY <1>4, <1>5, <1>6, <1>7, <1>8 DEF SnapshotInv

\* The synced copy takes its destination.
LEMMA MoveCopyKeeps ==
  ASSUME SnapshotInv, NEW c \in Calls, MoveCopy(c)
  PROVE  SnapshotInv'
<1> DEFINE r == [call[c] EXCEPT !.pc = "name"]
<1>0. /\ call[c] \in CallType /\ NoFile.is = "absent" /\ NoCall.pc = "idle"
       /\ NoCall.looked = Nobody /\ NoCall.pending = {} /\ NoCall.deletes = {}
       /\ NoCall.readies = {}
  BY DEF SnapshotInv, SnapshotTypeOK, NoFile, NoCall
<1>1. call' = [call EXCEPT ![c] = r]
  BY DEF MoveCopy, Goes, GoesTo
<1>2. /\ r \in CallType /\ r.pc = "name" /\ r.copy = call[c].copy
      /\ r.pending = call[c].pending /\ r.looked = call[c].looked /\ r.found = call[c].found
      /\ r.deletes = call[c].deletes /\ r.readies = call[c].readies
  BY <1>0, SnapshotAssumption DEF Points, CallType
<1> HIDE DEF r
<1>3. call' = [x \in Calls |-> IF x = c THEN r ELSE call[x]]
  BY <1>1 DEF SnapshotInv, SnapshotTypeOK
<1>9. placed' = [x \in Calls |-> IF x = c THEN call[c].copy ELSE placed[x]]
  BY DEF MoveCopy, SnapshotInv, SnapshotTypeOK
<1>4. SnapshotTypeOK'
  BY <1>0, <1>2, <1>3, <1>9 DEF MoveCopy, SnapshotInv, SnapshotTypeOK, RowType, CallType
<1> USE DEF At, Active, Synced, IsCopyOf, Points
<1>5. FilesOK'
  BY <1>0, <1>2, <1>3, <1>9 DEF MoveCopy, SnapshotInv, SnapshotTypeOK, FilesOK
<1>6. RecoveriesOK'
  BY <1>0, <1>2, <1>3, <1>9 DEF MoveCopy, SnapshotInv, SnapshotTypeOK, FilesOK, RecoveriesOK
<1>7. ReadyOK'
  BY <1>0, <1>2, <1>3, <1>9 DEF MoveCopy, SnapshotInv, SnapshotTypeOK, FilesOK, ReadyOK
<1>8. AloneOK'
  BY <1>0, SnapshotAssumption, <1>2, <1>3, <1>9
     DEF MoveCopy, SnapshotInv, SnapshotTypeOK, FilesOK, RecoveriesOK, AloneOK
<1> QED
  BY <1>4, <1>5, <1>6, <1>7, <1>8 DEF SnapshotInv

\* The directory entry is synced before the row is published.
LEMMA SyncNameKeeps ==
  ASSUME SnapshotInv, NEW c \in Calls, SyncName(c)
  PROVE  SnapshotInv'
<1> DEFINE r == [call[c] EXCEPT !.pc = "publish"]
<1>0. /\ call[c] \in CallType /\ NoFile.is = "absent" /\ NoCall.pc = "idle"
       /\ NoCall.looked = Nobody /\ NoCall.pending = {} /\ NoCall.deletes = {}
       /\ NoCall.readies = {}
  BY DEF SnapshotInv, SnapshotTypeOK, NoFile, NoCall
<1>1. call' = [call EXCEPT ![c] = r]
  BY DEF SyncName, Goes, GoesTo
<1>2. /\ r \in CallType /\ r.pc = "publish" /\ r.copy = call[c].copy
      /\ r.pending = call[c].pending /\ r.looked = call[c].looked /\ r.found = call[c].found
      /\ r.deletes = call[c].deletes /\ r.readies = call[c].readies
  BY <1>0, SnapshotAssumption DEF Points, CallType
<1> HIDE DEF r
<1>3. call' = [x \in Calls |-> IF x = c THEN r ELSE call[x]]
  BY <1>1 DEF SnapshotInv, SnapshotTypeOK
<1> DEFINE f == [placed[c] EXCEPT !.named = TRUE]
<1>10. /\ f \in FileType /\ f.is = placed[c].is /\ f.id = placed[c].id /\ f.named
       /\ f.content = placed[c].content /\ f.synced = placed[c].synced
  BY DEF SnapshotInv, SnapshotTypeOK, FileType
<1>11. UNCHANGED <<content, version, overlapped, frozen>>
  BY DEF SyncName
<1> HIDE DEF f
<1>9. placed' = [x \in Calls |-> IF x = c THEN f ELSE placed[x]]
  BY DEF SyncName, SnapshotInv, SnapshotTypeOK, f
<1>4. SnapshotTypeOK'
  BY <1>0, <1>2, <1>3, <1>9, <1>10, <1>11 DEF SnapshotInv, SnapshotTypeOK, RowType, CallType
<1> USE DEF At, Active, Synced, IsCopyOf, Points
<1>5. FilesOK'
  BY <1>0, <1>2, <1>3, <1>9, <1>10, <1>11 DEF SyncName, SnapshotInv, SnapshotTypeOK, FilesOK
<1>6. RecoveriesOK'
  BY <1>0, <1>2, <1>3, <1>9, <1>10, <1>11
     DEF SyncName, SnapshotInv, SnapshotTypeOK, FilesOK, RecoveriesOK
<1>7. ReadyOK'
  BY <1>0, <1>2, <1>3, <1>9, <1>10, <1>11
     DEF SyncName, SnapshotInv, SnapshotTypeOK, FilesOK, ReadyOK
<1>8. AloneOK'
  BY <1>0, SnapshotAssumption, <1>2, <1>3, <1>9, <1>10, <1>11
     DEF SyncName, SnapshotInv, SnapshotTypeOK, FilesOK, RecoveriesOK, AloneOK
<1> QED
  BY <1>4, <1>5, <1>6, <1>7, <1>8 DEF SnapshotInv

\* The row is set READY once copy and entry are synced.
LEMMA PublishRowKeeps ==
  ASSUME SnapshotInv, NEW c \in Calls, PublishRow(c)
  PROVE  SnapshotInv'
<1> DEFINE r == [call[c] EXCEPT !.pc = "freeze"]
<1>0. /\ call[c] \in CallType /\ NoFile.is = "absent" /\ NoCall.pc = "idle"
       /\ NoCall.looked = Nobody /\ NoCall.pending = {} /\ NoCall.deletes = {}
       /\ NoCall.readies = {}
  BY DEF SnapshotInv, SnapshotTypeOK, NoFile, NoCall
<1>1. call' = [call EXCEPT ![c] = r]
  BY DEF PublishRow, Goes, GoesTo
<1>2. /\ r \in CallType /\ r.pc = "freeze" /\ r.copy = call[c].copy
      /\ r.pending = call[c].pending /\ r.looked = call[c].looked /\ r.found = call[c].found
      /\ r.deletes = call[c].deletes /\ r.readies = call[c].readies
  BY <1>0, SnapshotAssumption DEF Points, CallType
<1> HIDE DEF r
<1>3. call' = [x \in Calls |-> IF x = c THEN r ELSE call[x]]
  BY <1>1 DEF SnapshotInv, SnapshotTypeOK
<1> DEFINE v == IF version[c].status = "none" THEN version[c]
                ELSE [status |-> "READY", content |-> call[c].copy.content, by |-> c]
<1>10. /\ v \in RowType
       /\ \/ version[c].status = "none" /\ v = version[c]
          \/ /\ version[c].status # "none" /\ v.status = "READY" /\ v.by = c
             /\ v.content = call[c].copy.content
  BY <1>0 DEF RowType, CallType, FileType, SnapshotInv, SnapshotTypeOK
<1> HIDE DEF v
<1>9. version' = [x \in Calls |-> IF x = c THEN v ELSE version[x]]
  BY DEF PublishRow, SnapshotInv, SnapshotTypeOK, v
<1>4. SnapshotTypeOK'
  BY <1>0, <1>2, <1>3, <1>9, <1>10 DEF PublishRow, SnapshotInv, SnapshotTypeOK, RowType, CallType
<1> USE DEF At, Active, Synced, IsCopyOf, Points
<1>5. FilesOK'
  BY <1>0, <1>2, <1>3, <1>9, <1>10 DEF PublishRow, SnapshotInv, SnapshotTypeOK, FilesOK
<1>6. RecoveriesOK'
  BY <1>0, <1>2, <1>3, <1>9, <1>10 DEF PublishRow, SnapshotInv, SnapshotTypeOK, FilesOK,
     RecoveriesOK
<1>7. ReadyOK'
  BY <1>0, <1>2, <1>3, <1>9, <1>10 DEF PublishRow, SnapshotInv, SnapshotTypeOK, FilesOK, ReadyOK
<1>8. AloneOK'
  BY <1>0, SnapshotAssumption, <1>2, <1>3, <1>9, <1>10
     DEF PublishRow, SnapshotInv, SnapshotTypeOK, FilesOK, RecoveriesOK, AloneOK
<1> QED
  BY <1>4, <1>5, <1>6, <1>7, <1>8 DEF SnapshotInv

\* A copy is made beside the destination.
LEMMA MakeCopyKeeps ==
  ASSUME SnapshotInv, NEW c \in Calls, MakeCopy(c)
  PROVE  SnapshotInv'
<1> DEFINE r == [call[c] EXCEPT !.pc = "sync", !.copy = Copy(c)]
<1>0. /\ call[c] \in CallType /\ NoFile.is = "absent" /\ NoCall.pc = "idle"
       /\ NoCall.looked = Nobody /\ NoCall.pending = {} /\ NoCall.deletes = {}
       /\ NoCall.readies = {}
  BY DEF SnapshotInv, SnapshotTypeOK, NoFile, NoCall
<1>1. call' = [call EXCEPT ![c] = r]
  BY DEF MakeCopy, Goes, GoesTo
<1>2. /\ r \in CallType /\ r.pc = "sync" /\ IsCopyOf(r.copy, c)
      /\ r.pending = call[c].pending /\ r.looked = call[c].looked /\ r.found = call[c].found
      /\ r.deletes = call[c].deletes /\ r.readies = call[c].readies
  BY <1>0, SnapshotAssumption DEF Points, CallType, Copy, FileType, IsCopyOf, SnapshotInv,
     SnapshotTypeOK
<1> HIDE DEF r
<1>3. call' = [x \in Calls |-> IF x = c THEN r ELSE call[x]]
  BY <1>1 DEF SnapshotInv, SnapshotTypeOK
<1>4. SnapshotTypeOK'
  BY <1>0, <1>2, <1>3 DEF MakeCopy, SnapshotInv, SnapshotTypeOK, RowType, CallType
<1> USE DEF At, Active, Synced, IsCopyOf, Points
<1>5. FilesOK'
  BY <1>0, <1>2, <1>3 DEF MakeCopy, SnapshotInv, SnapshotTypeOK, FilesOK
<1>6. RecoveriesOK'
  BY <1>0, <1>2, <1>3 DEF MakeCopy, SnapshotInv, SnapshotTypeOK, FilesOK, RecoveriesOK
<1>7. ReadyOK'
  BY <1>0, <1>2, <1>3 DEF MakeCopy, SnapshotInv, SnapshotTypeOK, FilesOK, ReadyOK
<1>8. AloneOK'
  BY <1>0, SnapshotAssumption, <1>2, <1>3
     DEF MakeCopy, SnapshotInv, SnapshotTypeOK, FilesOK, RecoveriesOK, AloneOK
<1> QED
  BY <1>4, <1>5, <1>6, <1>7, <1>8 DEF SnapshotInv

\* The copy is synced before it is moved.
LEMMA SyncCopyKeeps ==
  ASSUME SnapshotInv, NEW c \in Calls, SyncCopy(c)
  PROVE  SnapshotInv'
<1> DEFINE r == [call[c] EXCEPT !.pc = "move", !.copy.synced = TRUE]
<1>0. /\ call[c] \in CallType /\ NoFile.is = "absent" /\ NoCall.pc = "idle"
       /\ NoCall.looked = Nobody /\ NoCall.pending = {} /\ NoCall.deletes = {}
       /\ NoCall.readies = {}
  BY DEF SnapshotInv, SnapshotTypeOK, NoFile, NoCall
<1>1. call' = [call EXCEPT ![c] = r]
  BY DEF SyncCopy, Goes, GoesTo
<1>2. /\ r \in CallType /\ r.pc = "move"
      /\ r.copy.is = call[c].copy.is /\ r.copy.id = call[c].copy.id /\ r.copy.synced
      /\ r.pending = call[c].pending /\ r.looked = call[c].looked /\ r.found = call[c].found
      /\ r.deletes = call[c].deletes /\ r.readies = call[c].readies
  BY <1>0, SnapshotAssumption DEF Points, CallType, FileType
<1> HIDE DEF r
<1>3. call' = [x \in Calls |-> IF x = c THEN r ELSE call[x]]
  BY <1>1 DEF SnapshotInv, SnapshotTypeOK
<1>4. SnapshotTypeOK'
  BY <1>0, <1>2, <1>3 DEF SyncCopy, SnapshotInv, SnapshotTypeOK, RowType, CallType
<1> USE DEF At, Active, Synced, IsCopyOf, Points
<1>5. FilesOK'
  BY <1>0, <1>2, <1>3 DEF SyncCopy, SnapshotInv, SnapshotTypeOK, FilesOK
<1>6. RecoveriesOK'
  BY <1>0, <1>2, <1>3 DEF SyncCopy, SnapshotInv, SnapshotTypeOK, FilesOK, RecoveriesOK
<1>7. ReadyOK'
  BY <1>0, <1>2, <1>3 DEF SyncCopy, SnapshotInv, SnapshotTypeOK, FilesOK, ReadyOK
<1>8. AloneOK'
  BY <1>0, SnapshotAssumption, <1>2, <1>3
     DEF SyncCopy, SnapshotInv, SnapshotTypeOK, FilesOK, RecoveriesOK, AloneOK
<1> QED
  BY <1>4, <1>5, <1>6, <1>7, <1>8 DEF SnapshotInv

\* The dataset points at a row that was published.
LEMMA FreezeDatasetKeeps ==
  ASSUME SnapshotInv, NEW c \in Calls, FreezeDataset(c)
  PROVE  SnapshotInv'
<1> DEFINE r == [NoCall EXCEPT !.pc = "done"]
<1>0. /\ call[c] \in CallType /\ NoFile.is = "absent" /\ NoCall.pc = "idle"
       /\ NoCall.looked = Nobody /\ NoCall.pending = {} /\ NoCall.deletes = {}
       /\ NoCall.readies = {}
  BY DEF SnapshotInv, SnapshotTypeOK, NoFile, NoCall
<1>1. call' = [call EXCEPT ![c] = r]
  BY DEF FreezeDataset, Goes, GoesTo
<1>2. /\ r \in CallType /\ r.pc = "done"
  BY <1>0, SnapshotAssumption DEF Points, CallType, NoCall, NoFile, FileType
<1> HIDE DEF r
<1>3. call' = [x \in Calls |-> IF x = c THEN r ELSE call[x]]
  BY <1>1 DEF SnapshotInv, SnapshotTypeOK
<1>4. SnapshotTypeOK'
  BY <1>0, <1>2, <1>3 DEF FreezeDataset, SnapshotInv, SnapshotTypeOK, RowType, CallType
<1> USE DEF At, Active, Synced, IsCopyOf, Points
<1>5. FilesOK'
  BY <1>0, <1>2, <1>3 DEF FreezeDataset, SnapshotInv, SnapshotTypeOK, FilesOK
<1>6. RecoveriesOK'
  BY <1>0, <1>2, <1>3 DEF FreezeDataset, SnapshotInv, SnapshotTypeOK, FilesOK, RecoveriesOK
<1>7. ReadyOK'
  BY <1>0, <1>2, <1>3 DEF FreezeDataset, SnapshotInv, SnapshotTypeOK, FilesOK, ReadyOK
<1>8. AloneOK'
  BY <1>0, SnapshotAssumption, <1>2, <1>3
     DEF FreezeDataset, SnapshotInv, SnapshotTypeOK, FilesOK, RecoveriesOK, AloneOK
<1> QED
  BY <1>4, <1>5, <1>6, <1>7, <1>8 DEF SnapshotInv

\* A call that dies leaves rows and files as they are.
LEMMA CallDiesKeeps ==
  ASSUME SnapshotInv, NEW c \in Calls, CallDies(c)
  PROVE  SnapshotInv'
<1> DEFINE r == [NoCall EXCEPT !.pc = "stopped"]
<1>0. /\ call[c] \in CallType /\ NoFile.is = "absent" /\ NoCall.pc = "idle"
       /\ NoCall.looked = Nobody /\ NoCall.pending = {} /\ NoCall.deletes = {}
       /\ NoCall.readies = {}
  BY DEF SnapshotInv, SnapshotTypeOK, NoFile, NoCall
<1>1. call' = [call EXCEPT ![c] = r]
  BY DEF CallDies, Goes, GoesTo
<1>2. /\ r \in CallType /\ r.pc = "stopped"
  BY <1>0, SnapshotAssumption DEF Points, CallType, NoCall, NoFile, FileType
<1> HIDE DEF r
<1>3. call' = [x \in Calls |-> IF x = c THEN r ELSE call[x]]
  BY <1>1 DEF SnapshotInv, SnapshotTypeOK
<1>4. SnapshotTypeOK'
  BY <1>0, <1>2, <1>3 DEF CallDies, SnapshotInv, SnapshotTypeOK, RowType, CallType
<1> USE DEF At, Active, Synced, IsCopyOf, Points
<1>5. FilesOK'
  BY <1>0, <1>2, <1>3 DEF CallDies, SnapshotInv, SnapshotTypeOK, FilesOK
<1>6. RecoveriesOK'
  BY <1>0, <1>2, <1>3 DEF CallDies, SnapshotInv, SnapshotTypeOK, FilesOK, RecoveriesOK
<1>7. ReadyOK'
  BY <1>0, <1>2, <1>3 DEF CallDies, SnapshotInv, SnapshotTypeOK, FilesOK, ReadyOK
<1>8. AloneOK'
  BY <1>0, SnapshotAssumption, <1>2, <1>3
     DEF CallDies, SnapshotInv, SnapshotTypeOK, FilesOK, RecoveriesOK, AloneOK
<1> QED
  BY <1>4, <1>5, <1>6, <1>7, <1>8 DEF SnapshotInv

\* A recovery looks for the file of a row it found PENDING.
LEMMA LookForFileKeeps ==
  ASSUME SnapshotInv, NEW c \in Calls, LookForFile(c)
  PROVE  SnapshotInv'
<1>0. call[c] \in CallType /\ NoFile.is = "absent" /\ NoCall.pc = "idle"
  BY DEF SnapshotInv, SnapshotTypeOK, NoFile, NoCall
<1>1. PICK x \in call[c].pending :
        call' = [call EXCEPT ![c] = [call[c] EXCEPT
                  !.pending = @ \ {x},
                  !.looked = IF placed[x].is # "absent" /\ ~IsCopyOf(placed[x], x) THEN @ ELSE x,
                  !.found = placed[x].is # "absent"]]
  BY DEF LookForFile, Goes
<1> DEFINE y == IF placed[x].is # "absent" /\ ~IsCopyOf(placed[x], x) THEN call[c].looked ELSE x
           b == placed[x].is # "absent"
           r == [call[c] EXCEPT !.pending = @ \ {x}, !.looked = y, !.found = b]
<1>2. x \in Calls /\ call[c].looked = Nobody /\ y \in {x, Nobody} /\ b \in BOOLEAN
  BY <1>0 DEF CallType, LookForFile
<1>3. y = x /\ b => IsCopyOf(placed[x], x)
  BY <1>2, SnapshotAssumption
<1>4. call' = [call EXCEPT ![c] = r]
  BY <1>1
<1> HIDE DEF y, b
<1>5. /\ r \in CallType /\ r.pc = call[c].pc /\ r.copy = call[c].copy
      /\ r.pending = call[c].pending \ {x} /\ r.looked = y /\ r.found = b
      /\ r.deletes = call[c].deletes /\ r.readies = call[c].readies
  BY <1>0, <1>2 DEF CallType
<1> HIDE DEF r
<1>6. call' = [d \in Calls |-> IF d = c THEN r ELSE call[d]]
  BY <1>4 DEF SnapshotInv, SnapshotTypeOK
<1>7. At(c, "recover") /\ UNCHANGED <<content, version, placed, frozen, overlapped, lost>>
  BY DEF LookForFile
<1>8. SnapshotTypeOK'
  BY <1>5, <1>6, <1>7 DEF SnapshotInv, SnapshotTypeOK
<1> USE DEF At, Active, Synced, IsCopyOf
<1>9. FilesOK'
  BY <1>5, <1>6, <1>7 DEF SnapshotInv, FilesOK
<1>10. RecoveriesOK'
  <2>1. b /\ y # Nobody => Synced(placed[x], x) /\ y = x
    BY <1>0, <1>2, <1>3 DEF SnapshotInv, FilesOK
  <2> QED
    BY <1>0, <1>5, <1>6, <1>7, <2>1 DEF SnapshotInv, RecoveriesOK
<1>11. ReadyOK'
  BY <1>7 DEF SnapshotInv, ReadyOK
<1>12. AloneOK'
  BY <1>2, <1>5, <1>6, <1>7, SnapshotAssumption DEF SnapshotInv, AloneOK
<1> QED
  BY <1>8, <1>9, <1>10, <1>11, <1>12 DEF SnapshotInv

\* It will publish the row of a file it verified, and delete any other.
LEMMA SettleRowKeeps ==
  ASSUME SnapshotInv, NEW c \in Calls, SettleRow(c)
  PROVE  SnapshotInv'
<1> DEFINE x == call[c].looked
<1>0. /\ call[c] \in CallType /\ NoCall.pc = "idle" /\ At(c, "recover") /\ x \in Calls
      /\ UNCHANGED <<content, version, placed, frozen, overlapped, lost>>
  BY DEF SnapshotInv, SnapshotTypeOK, NoCall, SettleRow, CallType
<1> DEFINE q == [call[c] EXCEPT !.looked = Nobody, !.deletes = @ \cup {x}]
           p == [call[c] EXCEPT !.looked = Nobody, !.found = FALSE, !.readies = @ \cup {x}]
<1>1. \/ call' = [call EXCEPT ![c] = q]
      \/ call[c].found /\ call' = [call EXCEPT ![c] = p]
  BY DEF SettleRow, Goes
<1>2. /\ q \in CallType /\ q.pc = "recover" /\ q.copy = call[c].copy /\ q.looked = Nobody
      /\ q.pending = call[c].pending /\ q.deletes = call[c].deletes \cup {x}
      /\ q.readies = call[c].readies
  BY <1>0 DEF CallType, At
<1>3. /\ p \in CallType /\ p.pc = "recover" /\ p.copy = call[c].copy /\ p.looked = Nobody
      /\ p.pending = call[c].pending /\ p.deletes = call[c].deletes
      /\ p.readies = call[c].readies \cup {x}
  BY <1>0 DEF CallType, At
<1> HIDE DEF p, q
<1>4. PICK r :
        /\ call' = [call EXCEPT ![c] = r]
        /\ r \in CallType /\ r.pc = "recover" /\ r.copy = call[c].copy /\ r.looked = Nobody
        /\ r.pending = call[c].pending
        /\ \/ r.readies = call[c].readies /\ r.deletes = call[c].deletes \cup {x}
           \/ call[c].found /\ r.readies = call[c].readies \cup {x}
              /\ r.deletes = call[c].deletes
  BY <1>1, <1>2, <1>3
<1>6. call' = [d \in Calls |-> IF d = c THEN r ELSE call[d]]
  BY <1>4 DEF SnapshotInv, SnapshotTypeOK
<1>8. SnapshotTypeOK'
  BY <1>0, <1>4, <1>6 DEF SnapshotInv, SnapshotTypeOK
<1> USE DEF At, Active, Synced
<1>9. FilesOK'
  BY <1>0, <1>4, <1>6 DEF SnapshotInv, FilesOK
<1>10. RecoveriesOK'
  <2>1. \A d \in r.readies : Synced(placed[d], d)
    BY <1>0, <1>4, SnapshotAssumption DEF SnapshotInv, RecoveriesOK
  <2> QED
    BY <1>0, <1>4, <1>6, <2>1 DEF SnapshotInv, RecoveriesOK
<1>11. ReadyOK'
  BY <1>0 DEF SnapshotInv, ReadyOK
<1>12. AloneOK'
  BY <1>0, <1>4, <1>6, SnapshotAssumption DEF SnapshotInv, AloneOK
<1> QED
  BY <1>8, <1>9, <1>10, <1>11, <1>12 DEF SnapshotInv

\* A recovery publishes and deletes in one transaction.
LEMMA EndRecoveryKeeps ==
  ASSUME SnapshotInv, NEW c \in Calls, EndRecovery(c)
  PROVE  SnapshotInv'
<1> DEFINE r == [call[c] EXCEPT !.pc = "register", !.deletes = {}, !.readies = {}]
<1>0. /\ call[c] \in CallType /\ NoCall.pc = "idle" /\ At(c, "recover")
      /\ NoFile.is = "absent"
      /\ call' = [call EXCEPT ![c] = r] /\ version' = [x \in Calls |-> Recovered(c, x)]
      /\ UNCHANGED <<content, placed, frozen, overlapped, lost>>
  BY DEF SnapshotInv, SnapshotTypeOK, NoCall, NoFile, EndRecovery, Goes
<1>1. r \in CallType /\ r.pc = "register" /\ r.copy = call[c].copy
  BY <1>0 DEF CallType, Points
<1> HIDE DEF r
<1>2. call' = [d \in Calls |-> IF d = c THEN r ELSE call[d]]
  BY <1>0 DEF SnapshotInv, SnapshotTypeOK
<1>3. \A x \in Calls :
        /\ version'[x] \in RowType
        /\ \/ version'[x] = version[x] /\ x \notin call[c].deletes
           \/ version'[x].status = "none" /\ x \in call[c].deletes
           \/ /\ version'[x].status = "READY" /\ version'[x].content = placed[x].content
              /\ version'[x].by = c /\ x \in call[c].readies
  BY <1>0 DEF Recovered, NoRow, RowType, FileType, SnapshotInv, SnapshotTypeOK
<1>4. SnapshotTypeOK'
  <2>1. version' \in [Calls -> RowType]
    BY <1>0, <1>3
  <2> QED
    BY <1>0, <1>1, <1>2, <2>1 DEF SnapshotInv, SnapshotTypeOK
<1> USE DEF At, Active, Synced
<1>5. FilesOK'
  BY <1>0, <1>1, <1>2 DEF SnapshotInv, FilesOK
<1>6. RecoveriesOK'
  BY <1>0, <1>1, <1>2 DEF SnapshotInv, RecoveriesOK
<1>7. ReadyOK'
  <2>1. placed[c] = NoFile /\ \A x \in call[c].readies : Synced(placed[x], x)
    BY <1>0 DEF SnapshotInv, FilesOK, RecoveriesOK
  <2>2. c \notin call[c].readies
    BY <1>0, <2>1
  <2> QED
    BY <1>0, <1>3, <2>1, <2>2 DEF SnapshotInv, ReadyOK
<1>8. AloneOK'
  <2> SUFFICES ASSUME ~overlapped PROVE AloneOK'
    BY <1>0 DEF AloneOK
  <2>1. \A x \in Calls \ {c} : ~Active(x)
    BY <1>0 DEF SnapshotInv, AloneOK
  <2>2. \A x \in Calls :
          x \in call[c].deletes \cup call[c].readies => version[x].status = "PENDING"
    BY <1>0 DEF SnapshotInv, AloneOK
  <2>3. \A x \in frozen \cap Calls : version'[x].status = "READY"
    BY <1>0, <1>3, <2>2 DEF SnapshotInv, AloneOK
  <2>4. \A x \in Calls : Active(x)' => x = c
    BY <1>2, <2>1
  <2> QED
    BY <1>0, <1>1, <1>2, <2>1, <2>3, <2>4 DEF SnapshotInv, AloneOK
<1> QED
  BY <1>4, <1>5, <1>6, <1>7, <1>8 DEF SnapshotInv

\* The live database goes on changing; copies do not.
LEMMA LiveWriteKeeps ==
  ASSUME SnapshotInv, LiveWrite
  PROVE  SnapshotInv'
BY DEF LiveWrite, SnapshotInv, SnapshotTypeOK, FilesOK, RecoveriesOK, ReadyOK, AloneOK, At, Active,
       Synced, IsCopyOf

\* What is synced outlives an outage; a file whose entry is not may be gone.
LEMMA PowerFailsKeeps ==
  ASSUME SnapshotInv, PowerFails
  PROVE  SnapshotInv'
<1>0. NoCall \in CallType /\ NoFile \in FileType /\ NoFile.is = "absent"
  BY DEF NoCall, NoFile, CallType, FileType, Points
<1>1. /\ \A c \in Calls :
           placed'[c] \in IF placed[c] = NoFile THEN {NoFile} ELSE AfterOutage(placed[c])
      /\ placed' = [c \in Calls |-> placed'[c]]
      /\ lost' = lost \cup {c \in Calls : version[c].status = "READY" /\ placed'[c] = NoFile}
      /\ call' = [c \in Calls |->
                    IF Active(c) THEN [NoCall EXCEPT !.pc = "stopped"] ELSE call[c]]
      /\ UNCHANGED <<content, version, frozen, overlapped>>
  BY DEF PowerFails
<1> DEFINE r == [NoCall EXCEPT !.pc = "stopped"]
<1>2. r \in CallType /\ r.pc = "stopped"
  BY <1>0 DEF CallType, Points
<1>3. call' = [c \in Calls |-> IF Active(c) THEN r ELSE call[c]]
  BY <1>1
<1> HIDE DEF r
<1>4. \A c \in Calls :
        \/ placed'[c] = NoFile /\ (placed[c] = NoFile \/ ~placed[c].named)
        \/ /\ placed'[c] \in FileType /\ Synced(placed'[c], c) /\ Synced(placed[c], c)
           /\ placed'[c].content = placed[c].content /\ placed'[c].named
  <2> SUFFICES ASSUME NEW c \in Calls, placed[c] # NoFile, placed'[c] # NoFile \/ placed[c].named
               PROVE  /\ placed'[c] \in FileType /\ Synced(placed'[c], c) /\ Synced(placed[c], c)
                      /\ placed'[c].content = placed[c].content /\ placed'[c].named
    BY <1>1
  <2>1. placed[c] \in FileType /\ Synced(placed[c], c)
    BY DEF SnapshotInv, SnapshotTypeOK, FilesOK
  <2> DEFINE f == [placed[c] EXCEPT !.named = TRUE]
  <2>2. placed'[c] = f
    BY <1>1, <2>1 DEF AfterOutage, Synced
  <2>3. f \in FileType /\ f.is = placed[c].is /\ f.id = placed[c].id /\ f.named
         /\ f.content = placed[c].content /\ f.synced = placed[c].synced
    BY <2>1 DEF FileType
  <2> QED
    BY <2>1, <2>2, <2>3 DEF Synced
<1>5. SnapshotTypeOK'
  <2>1. placed' \in [Calls -> FileType]
    BY <1>0, <1>1, <1>4
  <2> QED
    BY <1>1, <1>2, <1>3, <2>1 DEF SnapshotInv, SnapshotTypeOK
<1>6. \A c \in Calls : ~Active(c)' /\ (call'[c].pc \in {"idle", "done"} => call'[c] = call[c])
  BY <1>2, <1>3 DEF Active
<1>7. FilesOK'
  BY <1>1, <1>4, <1>6 DEF SnapshotInv, FilesOK, Active, At
<1>8. RecoveriesOK'
  BY <1>6 DEF SnapshotInv, RecoveriesOK, Active, At
<1>9. ReadyOK'
  BY <1>1, <1>4 DEF SnapshotInv, ReadyOK
<1>10. AloneOK'
  BY <1>1, <1>6 DEF SnapshotInv, AloneOK, Active, At
<1> QED
  BY <1>5, <1>7, <1>8, <1>9, <1>10 DEF SnapshotInv

\* A READY snapshot is a whole copy of its own content, and so is a frozen
\* dataset's, through deaths, outages and recoveries (create_snapshot,
\* _recover_pending), unless an overlapping call's
\* recovery published it before its entry was synced and the power failed.
THEOREM RegisteredStaysWhole == SnapshotSpec => []RegisteredIsWhole
<1>1. SnapshotInv /\ [SnapshotNext]_snapshotVars => SnapshotInv'
  <2> SUFFICES ASSUME SnapshotInv, [SnapshotNext]_snapshotVars PROVE SnapshotInv'
    OBVIOUS
  <2>1. CASE UNCHANGED snapshotVars
    BY <2>1 DEF snapshotVars, SnapshotInv, SnapshotTypeOK, FilesOK, RecoveriesOK, ReadyOK, AloneOK,
                At, Active
  <2>2. CASE LiveWrite \/ PowerFails
    BY <2>2, LiveWriteKeeps, PowerFailsKeeps
  <2>3. CASE \E c \in Calls : SnapshotStep(c)
    BY <2>3, BeginSnapshotKeeps, LookForFileKeeps, SettleRowKeeps, EndRecoveryKeeps, RegisterKeeps,
       MakeCopyKeeps, SyncCopyKeeps, MoveCopyKeeps, SyncNameKeeps, PublishRowKeeps,
       FreezeDatasetKeeps, CallDiesKeeps DEF SnapshotStep
  <2> QED
    BY <2>1, <2>2, <2>3 DEF SnapshotNext
<1>2. SnapshotInv => RegisteredIsWhole
  <2> SUFFICES ASSUME SnapshotInv PROVE RegisteredIsWhole
    OBVIOUS
  <2>1. frozen \subseteq Calls
    BY DEF SnapshotInv, SnapshotTypeOK
  <2> QED
    BY <2>1 DEF SnapshotInv, FilesOK, ReadyOK, AloneOK, RegisteredIsWhole, Readable, IsCopyOf,
       Synced
<1> QED
  BY <1>1, <1>2, SnapshotStarts, PTL DEF SnapshotSpec
=============================================================================
