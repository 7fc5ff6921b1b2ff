----------------------------- MODULE IntakeProofs -----------------------------
(***************************************************************************)
(* What holds of uploads, productions and their files for any number of    *)
(* requests, whatever they ask and however their steps interleave.         *)
(*                                                                         *)
(* The inductive invariant speaks of every copy of a document there is,    *)
(* stored or loaded by a handler or by the analysis, and of every handler  *)
(* on its way.                                                             *)
(***************************************************************************)
EXTENDS Intake, Recurrence, FiniteSetTheorems

Sources == {"script", "cut"}

---------------------------------------------------------------------------
(***************************************************************************)
(* The reconciliation                                                      *)
(***************************************************************************)

\* A time held within bounds is within them.
LEMMA WithinFits ==
  ASSUME NEW x \in Int, NEW low \in Int, NEW high \in Int, low <= high
  PROVE  /\ Within(x, low, high) \in Int
         /\ low <= Within(x, low, high) /\ Within(x, low, high) <= high
<1>1. \A a, b \in Int : Max({a, b}) = IF a >= b THEN a ELSE b
  BY DEF Max
<1>2. \A a, b \in Int : Min({a, b}) = IF a <= b THEN a ELSE b
  BY DEF Min
<1> HIDE DEF Max, Min
<1>3. Max({x, low}) \in Int /\ Max({x, low}) >= low
  BY <1>1
<1> QED
  BY <1>2, <1>3 DEF Within

\* A candidate of the cut has its times.
IsTimed(c) == c.start \in Int /\ c.end \in Int /\ c.representative \in Int

Fits(s, duration) ==
  /\ 0 <= s.start /\ s.start <= s.representative
  /\ s.representative <= s.end /\ s.end <= duration

\* A detection clamped to the cut keeps its times in order and inside the cut.
LEMMA DetectionFits ==
  ASSUME NEW c, IsTimed(c), NEW duration \in Nat
  PROVE  Fits(Detection(c, duration), duration)
<1> DEFINE start == Within(c.start, 0, duration)
           end == Within(c.end, start, duration)
           at == Within(c.representative, start, end)
<1>0. /\ c.start \in Int /\ c.end \in Int /\ c.representative \in Int
      /\ duration \in Int
  BY DEF IsTimed
<1>1. start \in Int /\ 0 <= start /\ start <= duration
  <2>1. 0 \in Int /\ duration \in Int /\ 0 <= duration
    OBVIOUS
  <2> QED
    BY <1>0, <2>1, WithinFits
<1>2. end \in Int /\ start <= end /\ end <= duration
  <2> HIDE DEF start
  <2> QED
    BY <1>0, <1>1, WithinFits
<1>3. at \in Int /\ start <= at /\ at <= end
  <2> HIDE DEF start, end
  <2> QED
    BY <1>0, <1>1, <1>2, WithinFits
<1>4. Detection(c, duration) = [start |-> start, end |-> end, representative |-> at]
  BY DEF Detection
<1> HIDE DEF start, end, at
<1> QED
  BY <1>1, <1>2, <1>3, <1>4 DEF Fits

\* What one case is, and what several are together.
CaseFine(script, cut, duration, c) ==
  /\ c.script \in {0} \cup DOMAIN script /\ c.cut \in {0} \cup DOMAIN cut
  /\ c.script # 0 \/ c.cut # 0
  /\ c.kind \in Relationships
  /\ \A n \in DOMAIN c.spans : Fits(c.spans[n], duration)

AllFine(script, cut, duration, items) ==
  /\ \A k \in DOMAIN items : CaseFine(script, cut, duration, items[k])
  /\ \A k, l \in DOMAIN items :
       \/ items[k].script = items[l].script /\ items[k].script # 0
       \/ items[k].cut = items[l].cut /\ items[k].cut # 0
       => k = l

\* The case of a match that names a candidate is a right one.
LEMMA FromMatchFine ==
  ASSUME NEW script, NEW cut, NEW duration \in Nat, NEW m, m.relationship \in Relationships,
         \A j \in DOMAIN cut : IsTimed(cut[j]),
         0 \notin DOMAIN script, 0 \notin DOMAIN cut,
         m.script \in DOMAIN script \/ m.cut \in DOMAIN cut
  PROVE  LET c == FromMatch(script, cut, m, duration)
         IN  /\ CaseFine(script, cut, duration, c)
             /\ c.script = IF m.script \in DOMAIN script THEN m.script ELSE 0
             /\ c.cut = IF m.cut \in DOMAIN cut THEN m.cut ELSE 0
<1> DEFINE i == IF m.script \in DOMAIN script THEN m.script ELSE 0
           j == IF m.cut \in DOMAIN cut THEN m.cut ELSE 0
           spans == IF j = 0 THEN << >> ELSE <<Detection(cut[j], duration)>>
           c == FromMatch(script, cut, m, duration)
<1>1. c.script = i /\ c.cut = j /\ c.kind = m.relationship /\ c.spans = spans
  BY DEF FromMatch, Assembled
<1>2. \A n \in DOMAIN spans : Fits(spans[n], duration)
  <2>1. CASE j = 0
    BY <2>1
  <2>2. CASE j # 0
    <3>1. Fits(Detection(cut[j], duration), duration)
      BY <2>2, DetectionFits
    <3>2. spans = <<Detection(cut[j], duration)>>
      BY <2>2
    <3> HIDE DEF spans
    <3> QED
      BY <3>1, <3>2
  <2> QED
    BY <2>1, <2>2
<1> HIDE DEF c, spans
<1>3. CaseFine(script, cut, duration, c)
  BY <1>1, <1>2 DEF CaseFine
<1> QED
  BY <1>1, <1>3 DEF c

\* A counted match makes one more case.
LEMMA CountedFine ==
  ASSUME NEW script, NEW cut, NEW duration \in Nat, NEW m, m.relationship \in Relationships,
         \A j \in DOMAIN cut : IsTimed(cut[j]),
         0 \notin DOMAIN script, 0 \notin DOMAIN cut,
         NEW S, NEW items \in Seq(S), AllFine(script, cut, duration, items),
         Counts(items, script, cut, m)
  PROVE  AllFine(script, cut, duration, Append(items, FromMatch(script, cut, m, duration)))
<1> DEFINE c == FromMatch(script, cut, m, duration)
           more == Append(items, c)
<1>1. /\ CaseFine(script, cut, duration, c)
      /\ c.script = IF m.script \in DOMAIN script THEN m.script ELSE 0
      /\ c.cut = IF m.cut \in DOMAIN cut THEN m.cut ELSE 0
  BY FromMatchFine DEF Counts
<1> HIDE DEF c
<1>2. /\ DOMAIN items = 1 .. Len(items) /\ Len(items) \in Nat
      /\ DOMAIN more = 1 .. Len(items) + 1
      /\ \A k \in 1 .. Len(items) : more[k] = items[k]
      /\ more[Len(items) + 1] = c
  OBVIOUS
<1> HIDE DEF more
<1>3. \A k \in DOMAIN items :
        /\ c.script # 0 => items[k].script # c.script
        /\ c.cut # 0 => items[k].cut # c.cut
  BY <1>1 DEF Counts
<1>4. \A k \in DOMAIN more : CaseFine(script, cut, duration, more[k])
  BY <1>1, <1>2 DEF AllFine
<1>5. ASSUME NEW k \in DOMAIN more, NEW l \in DOMAIN more,
             \/ more[k].script = more[l].script /\ more[k].script # 0
             \/ more[k].cut = more[l].cut /\ more[k].cut # 0
      PROVE  k = l
  <2>1. CASE k \in DOMAIN items /\ l \in DOMAIN items
    BY <1>2, <1>5, <2>1 DEF AllFine
  <2>2. CASE k \in DOMAIN items /\ l = Len(items) + 1
    BY <1>2, <1>3, <1>5, <2>2
  <2>3. CASE l \in DOMAIN items /\ k = Len(items) + 1
    BY <1>2, <1>3, <1>5, <2>3
  <2> QED
    BY <1>2, <2>1, <2>2, <2>3
<1> QED
  BY <1>4, <1>5 DEF AllFine, more, c

\* What is considered: pairs that the schema allows, and every candidate.
LEMMA ConsideredShape ==
  ASSUME NEW S, NEW script \in Seq(S), NEW C, NEW cut \in Seq(C), NEW M, NEW matches \in Seq(M),
         \A m \in M : m.relationship \in Relationships
  PROVE  LET ms == Considered(script, cut, matches)
         IN  /\ Len(ms) \in Nat
             /\ \A n \in 1 .. Len(ms) : ms[n].relationship \in Relationships
             /\ \A i \in DOMAIN script : \E n \in 1 .. Len(ms) : ms[n].script = i /\ ms[n].cut = 0
             /\ \A j \in DOMAIN cut : \E n \in 1 .. Len(ms) : ms[n].cut = j /\ ms[n].script = 0
<1> DEFINE a == IF cut = << >> THEN << >> ELSE matches
           b == [i \in DOMAIN script |-> Match(i, 0, "script_only")]
           c == [j \in DOMAIN cut |-> Match(0, j, "cut_only")]
           K == M \cup {Match(i, 0, "script_only") : i \in DOMAIN script}
                  \cup {Match(0, j, "cut_only") : j \in DOMAIN cut}
<1>1. \A m \in K : m.relationship \in Relationships
  BY DEF Match, Relationships
<1>2. /\ a \in Seq(K) /\ b \in Seq(K) /\ c \in Seq(K)
      /\ Len(b) = Len(script) /\ Len(c) = Len(cut)
      /\ DOMAIN script = 1 .. Len(script) /\ DOMAIN cut = 1 .. Len(cut)
  <2>1. DOMAIN script = 1 .. Len(script) /\ DOMAIN cut = 1 .. Len(cut)
    OBVIOUS
  <2>2. M \subseteq K
    OBVIOUS
  <2>3. a \in Seq(K)
    <3> HIDE DEF K
    <3> QED
      BY <2>2
  <2>4. b \in [1 .. Len(script) -> K] /\ c \in [1 .. Len(cut) -> K]
    BY <2>1
  <2> HIDE DEF a, b, c, K
  <2>5. \A n \in Nat : \A f \in [1 .. n -> K] : f \in Seq(K) /\ Len(f) = n
    OBVIOUS
  <2>6. Len(script) \in Nat /\ Len(cut) \in Nat
    OBVIOUS
  <2> QED
    BY <2>1, <2>3, <2>4, <2>5, <2>6
<1>3. /\ \A i \in DOMAIN script : b[i].script = i /\ b[i].cut = 0
      /\ \A j \in DOMAIN cut : c[j].cut = j /\ c[j].script = 0
  BY DEF Match
<1> HIDE DEF a, b, c, K
<1> DEFINE ab == a \o b
           ms == ab \o c
<1>4. /\ ms \in Seq(K) /\ Len(ms) = Len(a) + Len(b) + Len(c)
      /\ \A i \in 1 .. Len(b) : ms[Len(a) + i] = b[i]
      /\ \A j \in 1 .. Len(c) : ms[Len(a) + Len(b) + j] = c[j]
  <2>1. \A s, t \in Seq(K) :
          /\ s \o t \in Seq(K) /\ Len(s \o t) = Len(s) + Len(t)
          /\ \A i \in 1 .. Len(s) : (s \o t)[i] = s[i]
          /\ \A i \in 1 .. Len(t) : (s \o t)[Len(s) + i] = t[i]
    OBVIOUS
  <2>2. /\ ab \in Seq(K) /\ Len(ab) = Len(a) + Len(b)
        /\ \A i \in 1 .. Len(b) : ab[Len(a) + i] = b[i]
    BY <1>2, <2>1
  <2> HIDE DEF ab
  <2>3. /\ ms \in Seq(K) /\ Len(ms) = Len(ab) + Len(c)
        /\ \A i \in 1 .. Len(ab) : ms[i] = ab[i]
        /\ \A j \in 1 .. Len(c) : ms[Len(ab) + j] = c[j]
    BY <1>2, <2>1, <2>2
  <2> HIDE DEF ms
  <2>4. Len(a) \in Nat /\ Len(b) \in Nat
    BY <1>2
  <2>5. \A i \in 1 .. Len(b) : Len(a) + i \in 1 .. Len(ab)
    BY <2>2, <2>4
  <2> QED
    BY <2>2, <2>3, <2>5
<1>5. /\ Len(ms) \in Nat /\ Len(a) \in Nat /\ Len(b) \in Nat /\ Len(c) \in Nat
      /\ \A n \in 1 .. Len(ms) : ms[n] \in K
  BY <1>2, <1>4
<1> HIDE DEF ms, ab
<1>6. ASSUME NEW i \in DOMAIN script PROVE \E n \in 1 .. Len(ms) : ms[n].script = i /\ ms[n].cut = 0
  <2>0. i \in 1 .. Len(b)
    BY <1>2
  <2>1. Len(a) + i \in 1 .. Len(ms)
    BY <1>4, <1>5, <2>0
  <2>2. ms[Len(a) + i].script = i /\ ms[Len(a) + i].cut = 0
    BY <1>3, <1>4, <2>0
  <2> QED
    BY <2>1, <2>2
<1>7. ASSUME NEW j \in DOMAIN cut PROVE \E n \in 1 .. Len(ms) : ms[n].cut = j /\ ms[n].script = 0
  <2>0. j \in 1 .. Len(c)
    BY <1>2
  <2>1. Len(a) + Len(b) + j \in 1 .. Len(ms)
    BY <1>4, <1>5, <2>0
  <2>2. ms[Len(a) + Len(b) + j].cut = j /\ ms[Len(a) + Len(b) + j].script = 0
    BY <1>3, <1>4, <2>0
  <2> QED
    BY <2>1, <2>2
<1> QED
  BY <1>1, <1>5, <1>6, <1>7 DEF Considered, ms, ab, a, b, c

\* A candidate considered by itself has a case.
Claimed(script, cut, items, m) ==
  /\ m.script \in DOMAIN script /\ m.cut = 0 => \E k \in DOMAIN items : items[k].script = m.script
  /\ m.cut \in DOMAIN cut /\ m.script = 0 => \E k \in DOMAIN items : items[k].cut = m.cut

\* A considered match claims its candidates, and takes no claim back.
LEMMA StepClaims ==
  ASSUME NEW script, NEW cut, NEW duration \in Nat, NEW m, m.relationship \in Relationships,
         \A j \in DOMAIN cut : IsTimed(cut[j]),
         0 \notin DOMAIN script, 0 \notin DOMAIN cut, NEW S, NEW items \in Seq(S)
  PROVE  LET c == FromMatch(script, cut, m, duration)
         IN  /\ Counts(items, script, cut, m) => Claimed(script, cut, Append(items, c), m)
             /\ ~Counts(items, script, cut, m) => Claimed(script, cut, items, m)
             /\ \A other : Claimed(script, cut, items, other) =>
                           Claimed(script, cut, Append(items, c), other)
<1> DEFINE c == FromMatch(script, cut, m, duration)
           more == Append(items, c)
<1>1. Counts(items, script, cut, m) =>
        /\ c.script = IF m.script \in DOMAIN script THEN m.script ELSE 0
        /\ c.cut = IF m.cut \in DOMAIN cut THEN m.cut ELSE 0
  BY FromMatchFine DEF Counts
<1> HIDE DEF c
<1>2. /\ DOMAIN items = 1 .. Len(items) /\ Len(items) \in Nat
      /\ DOMAIN more = 1 .. Len(items) + 1
      /\ \A k \in 1 .. Len(items) : more[k] = items[k]
      /\ more[Len(items) + 1] = c /\ Len(items) + 1 \in DOMAIN more
  OBVIOUS
<1> HIDE DEF more
<1>3. Counts(items, script, cut, m) => Claimed(script, cut, more, m)
  BY <1>1, <1>2 DEF Claimed
<1>4. ~Counts(items, script, cut, m) => Claimed(script, cut, items, m)
  BY DEF Claimed, Counts
<1>5. \A other : Claimed(script, cut, items, other) => Claimed(script, cut, more, other)
  BY <1>2 DEF Claimed
<1> QED
  BY <1>3, <1>4, <1>5 DEF more, c

\* Every candidate has its case.
AllCases(script, cut, duration, items) ==
  /\ AllFine(script, cut, duration, items)
  /\ \A i \in DOMAIN script : \E k \in DOMAIN items : items[k].script = i
  /\ \A j \in DOMAIN cut : \E k \in DOMAIN items : items[k].cut = j

\* The reconciled cases are right, and every candidate has exactly one,
\* whatever the reconciler answered (reconcileStage).
LEMMA ReconcileFine ==
  ASSUME NEW S, NEW script \in Seq(S), NEW C, NEW cut \in Seq(C), NEW M, NEW matches \in Seq(M),
         \A m \in M : m.relationship \in Relationships, NEW duration \in Nat,
         \A j \in DOMAIN cut : IsTimed(cut[j])
  PROVE  AllCases(script, cut, duration, ReconcileStage(script, cut, matches, duration))
<1> DEFINE ms == Considered(script, cut, matches)
           N == Len(ms)
           Case(n) == FromMatch(script, cut, ms[n], duration)
           A == Seq({Case(n) : n \in 1 .. N})
           Longer(it, n) == IF Counts(it, script, cut, ms[n]) THEN Append(it, Case(n)) ELSE it
           Solves(f) == f = [n \in 0 .. N |-> IF n = 0 THEN << >> ELSE Longer(f[n - 1], n)]
           items == CHOOSE f : Solves(f)
<1>1. /\ N \in Nat
      /\ \A n \in 1 .. N : ms[n].relationship \in Relationships
      /\ \A i \in DOMAIN script : \E n \in 1 .. N : ms[n].script = i /\ ms[n].cut = 0
      /\ \A j \in DOMAIN cut : \E n \in 1 .. N : ms[n].cut = j /\ ms[n].script = 0
  BY ConsideredShape
<1>2. 0 \notin DOMAIN script /\ 0 \notin DOMAIN cut
  OBVIOUS
<1>3. ReconcileStage(script, cut, matches, duration) = items[N]
  BY DEF ReconcileStage
<1>4. << >> \in A /\ \A it \in A, n \in 1 .. N : Append(it, Case(n)) \in A
  <2> HIDE DEF ms, N, Case
  <2> QED
    OBVIOUS
<1> HIDE DEF ms, N, Case, A
<1>5. \A it \in A, n \in 1 .. N : Longer(it, n) \in A
  BY <1>4
<1>6. Solves(items)
  <2> DEFINE next == [p \in A \X (1 .. N) |-> Longer(p[1], p[2])]
  <2>1. next \in [A \X (1 .. N) -> A] /\ \A it \in A, n \in 1 .. N : next[<<it, n>>] = Longer(it, n)
    <3> HIDE DEF Longer
    <3> QED
      BY <1>5
  <2> DEFINE empty == << >>
  <2>0. empty \in A
    BY <1>4
  <2> HIDE DEF next, Longer, empty
  <2>2. PICK g : /\ g \in [0 .. N -> A] /\ g[0] = empty
                 /\ \A n \in 1 .. N : g[n] = next[<<g[n - 1], n>>]
    <3>1. Advances(next, N, A)
      BY <2>1 DEF Advances
    <3>2. \E g : Solution(g, N, A, empty, next)
      BY <1>1, <2>0, <3>1, Recurrence
    <3> QED
      BY <3>2 DEF Solution
  <2>3. \A n \in 1 .. N : n - 1 \in 0 .. N /\ g[n - 1] \in A
    BY <1>1, <2>2
  <2>4. Solves(g)
    <3>1. g[0] = << >>
      BY <2>2 DEF empty
    <3>2. \A n \in 1 .. N : g[n] = Longer(g[n - 1], n)
      BY <2>1, <2>2, <2>3
    <3>3. \A n \in 0 .. N : n # 0 => n \in 1 .. N
      BY <1>1
    <3> HIDE DEF Longer
    <3> QED
      BY <2>2, <3>1, <3>2, <3>3
  <2> HIDE DEF Solves
  <2> QED
    BY <2>4
<1> HIDE DEF items
<1>7. /\ items[0] = << >>
      /\ \A n \in Nat : n + 1 <= N => items[n + 1] = Longer(items[n], n + 1)
  <2> HIDE DEF Longer
  <2>1. items[0] = << >>
    BY <1>1, <1>6
  <2>2. ASSUME NEW n \in Nat, n + 1 <= N PROVE items[n + 1] = Longer(items[n], n + 1)
    <3>1. n + 1 \in 0 .. N /\ n + 1 # 0 /\ (n + 1) - 1 = n
      BY <1>1, <2>2
    <3> QED
      BY <1>6, <3>1
  <2> QED
    BY <2>1, <2>2
<1> HIDE DEF Solves
<1> DEFINE Fine(n) == /\ items[n] \in A /\ AllFine(script, cut, duration, items[n])
                      /\ \A m \in 1 .. n : Claimed(script, cut, items[n], ms[m])
           T == {n \in Nat : n <= N => Fine(n)}
<1>8. 0 \in T
  BY <1>4, <1>7 DEF AllFine
<1>9. ASSUME NEW n \in Nat, n \in T PROVE n + 1 \in T
  <2> SUFFICES ASSUME n + 1 <= N PROVE Fine(n + 1)
    BY <1>9
  <2>1. Fine(n) /\ n + 1 \in 1 .. N /\ items[n + 1] = Longer(items[n], n + 1)
    BY <1>1, <1>7, <1>9
  <2>2. items[n] \in Seq({Case(x) : x \in 1 .. N})
    BY <2>1 DEF A
  <2>3. items[n + 1] \in A
    BY <1>5, <2>1
  <2>4. ms[n + 1].relationship \in Relationships
    BY <1>1, <2>1
  <2>5. CASE Counts(items[n], script, cut, ms[n + 1])
    <3>1. items[n + 1] = Append(items[n], FromMatch(script, cut, ms[n + 1], duration))
      BY <2>1, <2>5 DEF Case
    <3>2. AllFine(script, cut, duration, items[n + 1])
      BY <1>2, <2>1, <2>2, <2>4, <2>5, <3>1, CountedFine
    <3>3. /\ Claimed(script, cut, items[n + 1], ms[n + 1])
          /\ \A m \in 1 .. n : Claimed(script, cut, items[n + 1], ms[m])
      BY <1>2, <2>1, <2>2, <2>4, <2>5, <3>1, StepClaims
    <3> QED
      BY <2>3, <3>2, <3>3
  <2>6. CASE ~Counts(items[n], script, cut, ms[n + 1])
    <3>1. items[n + 1] = items[n]
      BY <2>1, <2>6
    <3>2. Claimed(script, cut, items[n], ms[n + 1])
      BY <1>2, <2>2, <2>4, <2>6, StepClaims
    <3> QED
      BY <2>1, <2>3, <3>1, <3>2
  <2> QED
    BY <2>5, <2>6
<1> HIDE DEF T
<1>10. N \in T
  BY <1>1, <1>8, <1>9, Induction
<1>11. Fine(N)
  BY <1>1, <1>10 DEF T
<1>12. \A i \in DOMAIN script : \E k \in DOMAIN items[N] : items[N][k].script = i
  BY <1>1, <1>11 DEF Claimed
<1>13. \A j \in DOMAIN cut : \E k \in DOMAIN items[N] : items[N][k].cut = j
  BY <1>1, <1>11 DEF Claimed
<1> QED
  BY <1>3, <1>11, <1>12, <1>13 DEF AllCases

---------------------------------------------------------------------------
(***************************************************************************)
(* The shape of documents, handlers and runs                               *)
(***************************************************************************)
IsDoc(d) ==
  d \in [script : Refs \cup {None}, cut : Refs \cup {None}, documents : SUBSET Refs,
         phase : Phases, cases : {d.cases}, found : {d.found}]

\* The same files are named.
SameFiles(d, e) ==
  d.script = e.script /\ d.cut = e.cut /\ d.documents = e.documents

\* The cases of a document are those its scans call for.
CasesFine(d) ==
  /\ EachCandidateOnce(d.found.script, d.found.cut, d.cases)
  /\ SpansFit(d.cases, Duration)
  /\ \A c \in ToSet(d.cases) : c.kind \in Relationships

IsSession(r) ==
  \/ r \in [pc : {"completing", "heading"}, session : Requests]
  \/ r \in [pc : {"closing"}, session : Requests, etag : Nat \ {0}]

IsPost(q, r) ==
  /\ r \in [pc : {"creating"}, id : {q}, mine : {TRUE}, op : {r.op},
            left : Seq(Sources), doc : {r.doc}]
  /\ \A i \in 1 .. Len(r.left) :
       r.op[r.left[i]] \in File /\ Accepted(r.op[r.left[i]])

IsAssets(r) ==
  r \in [pc : {"creating"}, id : {Cloud}, left : {<< >>}, mine : {FALSE}, doc : {r.doc}]

IsCreation(q, r) ==
  /\ IsPost(q, r) \/ IsAssets(r)
  /\ IsDoc(r.doc) /\ CasesFine(r.doc) /\ r.doc.documents = {} /\ r.doc.phase = "created"

IsAttach(r) ==
  r \in [pc : {"attaching"}, id : Productions, mem : {r.mem}]

IsRemoval(r) ==
  /\ r \in [pc : {"deleting"}, id : Productions, left : SUBSET r.gone,
            gone : SUBSET Owned(r.mem), mem : {r.mem}, all : BOOLEAN]
  /\ IF r.all THEN r.gone = Owned(r.mem) ELSE \A key \in r.gone : key[2] = "document"

IsReq(q, r) ==
  \/ r \in {[pc |-> "new"], Idle}
  \/ IsSession(r) \/ IsCreation(q, r) \/ IsAttach(r) \/ IsRemoval(r)

IsRun(r) ==
  \/ r = NoRun
  \/ r \in [pc : {"queued"}, id : Productions]
  \/ r \in [pc : {"announcing", "reading"}, id : Productions, mem : {r.mem}]
  \/ /\ r \in [pc : {"comparing"}, id : Productions, mem : {r.mem}, new : {r.new}]
     /\ SameFiles(r.new, r.mem) /\ r.new.phase = "researching"

Histories == [overlaid : BOOLEAN, unsure : BOOLEAN, unclean : BOOLEAN,
              overlapped : SUBSET Requests]

Typed ==
  /\ objects \in [Keys -> Versions \cup {None}]
  /\ sessions \in [Requests -> Sessions \cup {None}]
  /\ docs = [id \in Productions |-> docs[id]]
  /\ req = [q \in Requests |-> req[q]]
  /\ run = [q \in Requests |-> run[q]]
  /\ \A q \in Requests : IsReq(q, req[q]) /\ IsRun(run[q])
  /\ answers \subseteq Requests \X (Nat \ {0})
  /\ troubles \in 0 .. MaxTroubles
  /\ history \in Histories

---------------------------------------------------------------------------
(***************************************************************************)
(* The copies of a production's document                                   *)
(***************************************************************************)
Loads(q) == req[q].pc \in {"attaching", "deleting"}
Works(q) == run[q].pc \in {"announcing", "reading", "comparing"}

Copies(id) ==
  {d \in {docs[id]} : Present(d)}
  \cup {req[q].mem : q \in {p \in Requests : Loads(p) /\ req[p].id = id}}
  \cup {run[q].mem : q \in {p \in Requests : Works(p) /\ run[p].id = id}}
  \cup {run[q].new : q \in {p \in Requests : run[p].pc = "comparing" /\ run[p].id = id}}

\* The key belongs to an upload session.
Signed(key) == sessions[key[1]] # None /\ sessions[key[1]].slot = key[2]

\* What is stored under a key is what its production recorded.
Faithful(f) ==
  Has(f.key) => objects[f.key].file.suffix = f.suffix /\ Accepted(objects[f.key].file)

\* Where the screenplay and the cut of a production lie.
Home(id, f, slot) ==
  /\ f.key[2] = slot /\ req[f.key[1]].pc = "done"
  /\ IF id = Cloud THEN Signed(f.key)
     ELSE f.key[1] = id /\ sessions[id] = None /\ Faithful(f)

Well(id, d) ==
  /\ IsDoc(d) /\ CasesFine(d)
  /\ d.script # None => Home(id, d.script, "script")
  /\ d.cut # None => Home(id, d.cut, "cut")
  /\ \A f \in d.documents : f.key[2] = "document" /\ req[f.key[1]].pc = "done"

CopiesWell == \A id \in Productions : \A d \in Copies(id) : Well(id, d)

\* A document's file is attached to one production.
Apart ==
  \A i, j \in Productions : \A d \in Copies(i), e \in Copies(j) :
    \A f \in d.documents, g \in e.documents : f.key = g.key => i = j

---------------------------------------------------------------------------
(***************************************************************************)
(* Handlers on their way                                                   *)
(***************************************************************************)
\* A handler's files are its own, and nobody else's yet.
Posting(q) ==
  \A slot \in Sources : req[q].doc[slot] # None =>
    LET f == req[q].doc[slot]
    IN  /\ f.key = <<q, slot>> /\ f.etag = 1
        /\ Has(f.key) /\ objects[f.key].etag = 1 /\ Faithful(f)

Begun(q) ==
  /\ req[q].pc # "done" => sessions[q] = None
  /\ req[q].pc \in {"completing", "heading", "closing"} => sessions[req[q].session] # None
  /\ req[q].pc = "new" => \A slot \in Slots : ~Has(<<q, slot>>)
  /\ req[q].pc = "attaching" => \A slot \in Sources : ~Has(<<q, slot>>)
  /\ req[q].pc = "creating" =>
       /\ \A slot \in Slots : Has(<<q, slot>>) =>
            slot \in Sources /\ req[q].mine /\ req[q].doc[slot] # None
       /\ IF req[q].mine THEN Posting(q)
          ELSE \A slot \in Sources :
                 req[q].doc[slot] # None => Home(Cloud, req[q].doc[slot], slot)

\* What a removal has deleted is gone, unless its session's URL put it again.
Deleted(q) ==
  req[q].pc = "deleting" /\ ~history.unclean =>
    \A key \in req[q].gone \ req[q].left : ~Has(key) \/ Signed(key)

\* A finalization that meets no other is the only one to close its session.
Sole(s) ==
  s \notin history.overlapped =>
    /\ \A p \in Requests : Finalizing(p, s) =>
         sessions[s].etag = None /\ \A q \in Requests : Finalizing(q, s) => p = q
    /\ \A a \in answers : a[1] = s => sessions[s] # None /\ sessions[s].etag = a[2]

---------------------------------------------------------------------------
(***************************************************************************)
(* Files, as long as nothing is lost between the two stores                *)
(***************************************************************************)
Calm == ~history.overlaid /\ ~history.unsure /\ ~history.unclean

Good(f) ==
  \/ Has(f.key) /\ objects[f.key].etag >= f.etag
  \/ \E q \in Requests : TakingAway(q, f.key)

FilesGood ==
  /\ \A id \in Productions : Present(docs[id]) => \A f \in FilesOf(docs[id]) : Good(f)
  /\ \A q \in Requests : req[q].pc = "creating" => \A f \in FilesOf(req[q].doc) : Good(f)

FailedFor(d) ==
  \/ d.script # None /\ d.script.suffix = "video"
  \/ \E q \in Requests, f \in {d.script, d.cut} \ {None} : TakingAway(q, f.key)

FailuresExplained ==
  \A id \in Requests : docs[id].phase = "failed" => FailedFor(docs[id])

IInv ==
  /\ Typed /\ CopiesWell /\ Apart
  /\ \A q \in Requests : Begun(q) /\ Deleted(q) /\ Sole(q)
  /\ Calm => FilesGood /\ FailuresExplained
  /\ NoOrphans

---------------------------------------------------------------------------
(***************************************************************************)
(* Shapes                                                                  *)
(***************************************************************************)
\* What a request asks, by its kind.
LEMMA Asked ==
  ASSUME NEW op \in Ops
  PROVE  /\ op.kind = "session" =>
              op.slot \in Sources /\ op.file \in File /\ op.multipart \in BOOLEAN
         /\ op.kind = "finalize" => op.session \in Requests
         /\ op.kind = "assets" =>
              op.script \in Requests \cup {None} /\ op.cut \in Requests \cup {None}
         /\ op.kind = "create" =>
              /\ op = [kind |-> "create", script |-> op.script, cut |-> op.cut]
              /\ op.script \in File \cup {None} /\ op.cut \in File \cup {None}
         /\ op.kind \in {"attach", "remove"} => op.id \in Productions
         /\ op.kind = "detach" => op.id \in Productions /\ op.key \in Keys
<1>1. op \in Op
  BY RequestsAssumption
<1> QED
  BY <1>1 DEF Op, Sources

\* A step moves one handler and one run.
LEMMA Moved ==
  ASSUME Typed, NEW q \in Requests, NEW r, Moves(q, r)
  PROVE  /\ req' = [p \in Requests |-> req'[p]] /\ req'[q] = r
         /\ \A p \in Requests : p # q => req'[p] = req[p]
  BY DEF Typed, Moves

\* A request that moves to a state of its own leaves the others as they are.
LEMMA MovedTyped ==
  ASSUME Typed, NEW q \in Requests, NEW r, IsReq(q, r), Moves(q, r)
  PROVE  /\ req' = [p \in Requests |-> req'[p]]
         /\ \A p \in Requests : IsReq(p, req'[p])
<1>1. \A p \in Requests : IsReq(p, req[p])
  BY DEF Typed
<1>2. /\ req' = [p \in Requests |-> req'[p]] /\ req'[q] = r
      /\ \A p \in Requests : p # q => req'[p] = req[p]
  BY Moved
<1> QED
  BY <1>1, <1>2

\* An answered request is idle again, and the others are as they were.
LEMMA AnsweredTyped ==
  ASSUME Typed, NEW q \in Requests, Answer(q)
  PROVE  /\ req' = [p \in Requests |-> req'[p]]
         /\ \A p \in Requests : IsReq(p, req'[p])
         /\ req'[q] = Idle /\ \A p \in Requests : p # q => req'[p] = req[p]
<1>1. Moves(q, Idle)
  BY DEF Answer, Moves
<1>2. IsReq(q, Idle)
  BY DEF IsReq
<1> QED
  BY <1>1, <1>2, Moved, MovedTyped

\* A run that moves leaves the other runs as they are.
LEMMA RunTyped ==
  ASSUME Typed, NEW q \in Requests, NEW r, IsRun(r), run' = [run EXCEPT ![q] = r]
  PROVE  /\ run' = [p \in Requests |-> run'[p]]
         /\ \A p \in Requests : IsRun(run'[p])
         /\ run'[q] = r /\ \A p \in Requests : p # q => run'[p] = run[p]
<1>1. \A p \in Requests : IsRun(run[p])
  BY DEF Typed
<1>2. /\ run' = [p \in Requests |-> run'[p]] /\ run'[q] = r
      /\ \A p \in Requests : p # q => run'[p] = run[p]
  BY DEF Typed
<1> QED
  BY <1>1, <1>2

\* What one save changes: one document, and the history of saves.
LEMMA SavedTyped ==
  ASSUME Typed, NEW id \in Productions, NEW mem, NEW new, Saves(id, mem, new)
  PROVE  /\ docs' = [i \in Productions |-> docs'[i]] /\ docs'[id] = new
         /\ \A i \in Productions : i # id => docs'[i] = docs[i]
         /\ history' \in Histories /\ history'.overlapped = history.overlapped
         /\ history'.unsure = history.unsure /\ history'.unclean = history.unclean
         /\ history'.overlaid = (history.overlaid \/ Overlays(id, mem, new))
<1>1. /\ docs' = [i \in Productions |-> docs'[i]] /\ docs'[id] = new
      /\ \A i \in Productions : i # id => docs'[i] = docs[i]
  BY DEF Typed, Saves
<1>2. Overlays(id, mem, new) \in BOOLEAN
  BY DEF Overlays
<1>3. /\ history \in Histories
      /\ history' = [history EXCEPT !.overlaid = @ \/ Overlays(id, mem, new)]
  BY DEF Typed, Saves
<1> QED
  BY <1>1, <1>2, <1>3 DEF Histories

\* Etags count up from one.
LEMMA EtagFits ==
  ASSUME Typed, NEW k \in Keys
  PROVE  /\ Etag(k) \in Nat \ {0}
         /\ Has(k) => objects[k] \in Versions /\ Etag(k) > objects[k].etag
<1>1. objects[k] \in Versions \cup {None}
  BY DEF Typed
<1>2. Has(k) => objects[k] \in Versions /\ objects[k].etag \in Nat \ {0}
  BY <1>1 DEF Has, Versions
<1> QED
  BY <1>2 DEF Etag

\* The analysis' steps.
LEMMA AnalyseTyped ==
  ASSUME Typed, CopiesWell, NEW q \in Requests, Analyse(q)
  PROVE  Typed'
<1> DEFINE RunFine == /\ run' = [p \in Requests |-> run'[p]]
                      /\ \A p \in Requests : IsRun(run'[p])
           DocsFine == /\ docs' = [i \in Productions |-> docs'[i]]
                       /\ history' \in Histories
<1>0. IsRun(run[q]) /\ (run[q].pc # "none" => run[q] # NoRun /\ run[q].id \in Productions)
  BY DEF Typed, IsRun, NoRun
<1>1. UNCHANGED <<objects, sessions, req, answers, troubles>>
  BY DEF Analyse, LoadRun, Announce, ReadSources, SaveCases
<1>2. RunFine
  <2>1. PICK r : run' = [run EXCEPT ![q] = r] /\ IsRun(r)
    <3>1. CASE LoadRun(q)
      <4> DEFINE r == IF ~Present(docs[run[q].id]) THEN NoRun
                      ELSE [pc |-> "announcing", id |-> run[q].id, mem |-> docs[run[q].id]]
      <4>1. IsRun(r)
        BY <1>0, <3>1 DEF LoadRun, IsRun, NoRun
      <4>2. run' = [run EXCEPT ![q] = r]
        BY <3>1 DEF LoadRun
      <4> QED
        BY <4>1, <4>2
    <3>2. CASE Announce(q)
      <4> DEFINE r == [pc |-> "reading", id |-> run[q].id,
                       mem |-> [run[q].mem EXCEPT !.phase = "scanning"]]
      <4>1. IsRun(r)
        BY <1>0, <3>2 DEF Announce, IsRun
      <4>2. run' = [run EXCEPT ![q] = r]
        BY <3>2 DEF Announce
      <4> HIDE DEF r
      <4> QED
        BY <4>1, <4>2
    <3>3. CASE ReadSources(q)
      <4>0. run[q].id \in Productions
        BY <1>0, <3>3 DEF ReadSources
      <4>1. CASE Readable(run[q].mem)
        <5>1. PICK found, cases :
                run' = [run EXCEPT ![q] = [pc |-> "comparing", id |-> run[q].id, mem |-> run[q].mem,
                          new |-> [run[q].mem EXCEPT !.phase = "researching", !.found = found,
                                                     !.cases = cases]]]
          BY <3>3, <4>1 DEF ReadSources
        <5> DEFINE new == [run[q].mem EXCEPT !.phase = "researching", !.found = found,
                                             !.cases = cases]
        <5>2. IsDoc(run[q].mem)
          BY <3>3, <4>0 DEF ReadSources, CopiesWell, Copies, Works, Well
        <5>3. SameFiles(new, run[q].mem) /\ new.phase = "researching"
          BY <5>2 DEF IsDoc, SameFiles
        <5>4. run' = [run EXCEPT ![q] = [pc |-> "comparing", id |-> run[q].id,
                                       mem |-> run[q].mem, new |-> new]]
          BY <5>1
        <5> HIDE DEF new
        <5>5. \E id \in Productions : \E m :
                /\ run' = [run EXCEPT
                     ![q] = [pc |-> "comparing", id |-> id, mem |-> m, new |-> new]]
                /\ SameFiles(new, m) /\ new.phase = "researching"
          BY <4>0, <5>3, <5>4
        <5>6. \A id \in Productions : \A m :
                SameFiles(new, m) /\ new.phase = "researching" =>
                IsRun([pc |-> "comparing", id |-> id, mem |-> m, new |-> new])
          BY DEF IsRun
        <5> QED
          BY <5>5, <5>6
      <4>2. CASE ~Readable(run[q].mem)
        BY <3>3, <4>2 DEF ReadSources, IsRun
      <4> QED
        BY <4>1, <4>2
    <3>4. CASE SaveCases(q)
      BY <3>4 DEF SaveCases, IsRun
    <3> QED
      BY <3>1, <3>2, <3>3, <3>4 DEF Analyse
  <2> QED
    BY <2>1, RunTyped
<1>3. DocsFine
  <2>1. CASE UNCHANGED <<docs, history>>
    BY <2>1 DEF Typed
  <2>2. CASE \E mem, new : run[q].pc # "none" /\ Saves(run[q].id, mem, new)
    BY <1>0, <2>2, SavedTyped
  <2>3. CASE Announce(q)
    BY <2>2, <2>3 DEF Announce
  <2>4. CASE ReadSources(q)
    BY <2>1, <2>2, <2>4 DEF ReadSources
  <2>5. CASE SaveCases(q)
    BY <2>2, <2>5 DEF SaveCases
  <2>6. CASE LoadRun(q)
    BY <2>1, <2>6 DEF LoadRun
  <2> QED
    BY <2>3, <2>4, <2>5, <2>6 DEF Analyse
<1> HIDE DEF RunFine, DocsFine
<1> QED
  BY <1>1, <1>2, <1>3 DEF Typed, RunFine, DocsFine

\* A new production.
LEMMA NewProductionFine ==
  ASSUME NEW script \in Refs \cup {None}, NEW cut \in Refs \cup {None}
  PROVE  LET d == NewProduction(script, cut)
         IN  /\ IsDoc(d) /\ CasesFine(d) /\ d.documents = {} /\ Present(d)
             /\ d.script = script /\ d.cut = cut /\ d.phase = "created"
<1> DEFINE d == NewProduction(script, cut)
<1>1. /\ d = [script |-> script, cut |-> cut, documents |-> {}, phase |-> "created",
             cases |-> << >>, found |-> [script |-> << >>, cut |-> << >>]]
      /\ d.documents = {} /\ d.script = script /\ d.cut = cut /\ d.phase = "created"
      /\ d.cases = << >> /\ d.found.script = << >> /\ d.found.cut = << >>
  BY DEF NewProduction
<1>2. IsDoc(d) /\ Present(d)
  BY <1>1 DEF IsDoc, Phases, Present
<1>3. EachCandidateOnce(<< >>, << >>, << >>) /\ SpansFit(<< >>, Duration)
  BY DEF EachCandidateOnce, SpansFit
<1>4. ToSet(<< >>) = {}
  BY DEF ToSet
<1>5. CasesFine(d)
  BY <1>1, <1>3, <1>4 DEF CasesFine
<1> QED
  BY <1>1, <1>2, <1>5

\* The sources of a create are those its body gives, all of an accepted kind.
LEMMA Granted ==
  ASSUME NEW op, op.script \in File \cup {None}, op.cut \in File \cup {None},
         op = [kind |-> "create", script |-> op.script, cut |-> op.cut],
         \A slot \in Sources : op[slot] # None => Accepted(op[slot])
  PROVE  /\ Given(op) \in Seq(Sources)
         /\ \A i \in 1 .. Len(Given(op)) :
              op[Given(op)[i]] \in File /\ Accepted(op[Given(op)[i]])
<1> DEFINE a == IF op.script # None THEN <<"script">> ELSE << >>
           b == IF op.cut # None THEN <<"cut">> ELSE << >>
<1>1. /\ a \in Seq(Sources) /\ b \in Seq(Sources)
      /\ Len(a) \in {0, 1} /\ Len(b) \in {0, 1}
      /\ Len(a) = 1 => a[1] = "script" /\ op.script # None
      /\ Len(b) = 1 => b[1] = "cut" /\ op.cut # None
  <2>1. CASE op.script # None /\ op.cut # None
    <3>1. a = <<"script">> /\ b = <<"cut">>
      BY <2>1
    <3> HIDE DEF a, b
    <3> QED
      BY <2>1, <3>1 DEF Sources
  <2>2. CASE op.script # None /\ op.cut = None
    <3>1. a = <<"script">> /\ b = << >>
      BY <2>2
    <3> HIDE DEF a, b
    <3> QED
      BY <2>2, <3>1 DEF Sources
  <2>3. CASE op.script = None /\ op.cut # None
    <3>1. a = << >> /\ b = <<"cut">>
      BY <2>3
    <3> HIDE DEF a, b
    <3> QED
      BY <2>3, <3>1 DEF Sources
  <2>4. CASE op.script = None /\ op.cut = None
    <3>1. a = << >> /\ b = << >>
      BY <2>4
    <3> HIDE DEF a, b
    <3> QED
      BY <3>1
  <2> HIDE DEF a, b
  <2> QED
    BY <2>1, <2>2, <2>3, <2>4
<1>2. Given(op) = a \o b
  BY DEF Given
<1> HIDE DEF a, b
<1>3. /\ a \o b \in Seq(Sources) /\ Len(a \o b) = Len(a) + Len(b)
      /\ \A i \in 1 .. Len(a) + Len(b) :
           (a \o b)[i] = IF i <= Len(a) THEN a[i] ELSE b[i - Len(a)]
  BY <1>1
<1>4. ASSUME NEW i \in 1 .. Len(a) + Len(b)
      PROVE  \/ (a \o b)[i] = "script" /\ op.script # None
             \/ (a \o b)[i] = "cut" /\ op.cut # None
  BY <1>1, <1>3
<1>5. op["script"] = op.script /\ op["cut"] = op.cut
  OBVIOUS
<1> QED
  BY <1>2, <1>3, <1>4, <1>5 DEF Sources

\* A request that is received.
LEMMA ReceiveTyped ==
  ASSUME Typed, CopiesWell, NEW q \in Requests, NEW op \in Ops, Receive(q, op)
  PROVE  Typed'
<1> USE DEF Productions
<1>1. UNCHANGED <<objects, docs, run, troubles>>
  BY DEF Receive, Open, ReadSession, Verify, Preflight, Attach, Detach, RemoveProject
<1>2. sessions' \in [Requests -> Sessions \cup {None}]
  <2>1. CASE Open(q, op)
    <3> DEFINE s == [file |-> op.file, slot |-> op.slot, live |-> TRUE, etag |-> None,
                     parts |-> IF op.multipart THEN "open" ELSE "single"]
    <3>1. s \in Sessions
      BY <2>1, Asked DEF Open, Sessions, Sources
    <3>2. sessions' = [sessions EXCEPT ![q] = s]
      BY <2>1 DEF Open
    <3> HIDE DEF s
    <3> QED
      BY <3>1, <3>2 DEF Typed
  <2>2. CASE UNCHANGED sessions
    BY <2>2 DEF Typed
  <2> QED
    BY <2>1, <2>2 DEF Receive, ReadSession, Verify, Preflight, Attach, Detach, RemoveProject
<1>3. /\ answers' \subseteq Requests \X (Nat \ {0})
      /\ history' \in Histories
  <2>1. CASE ReadSession(q, op)
    <3> DEFINE s == op.session
    <3>1. s \in Requests /\ sessions[s] \in Sessions \cup {None}
      BY <2>1, Asked DEF ReadSession, Typed
    <3>2. sessions[s] # None /\ AnswersAtOnce(s) => sessions[s].etag \in Nat \ {0}
      BY <3>1 DEF AnswersAtOnce, Sessions
    <3>3. answers' = answers
          \/ (sessions[s].etag \in Nat \ {0} /\ answers' = answers \cup {<<s, sessions[s].etag>>})
      BY <2>1, <3>2 DEF ReadSession
    <3>4. /\ history \in Histories
          /\ \/ history' = [history EXCEPT !.overlapped = @ \cup {s}]
             \/ history' = [history EXCEPT !.overlapped = @]
      BY <2>1 DEF ReadSession, Typed
    <3>5. history' \in Histories
      BY <3>1, <3>4 DEF Histories
    <3> QED
      BY <3>1, <3>3, <3>5 DEF Typed
  <2>2. CASE UNCHANGED <<answers, history>>
    BY <2>2 DEF Typed
  <2> QED
    BY <2>1, <2>2 DEF Receive, Open, Verify, Preflight, Attach, Detach, RemoveProject
<1>4. /\ req' = [p \in Requests |-> req'[p]]
      /\ \A p \in Requests : IsReq(p, req'[p])
  <2>1. CASE Answer(q)
    BY <2>1, AnsweredTyped
  <2>2. SUFFICES ASSUME ~Answer(q)
                 PROVE  \E r : Moves(q, r) /\ IsReq(q, r)
    BY <2>1, MovedTyped
  <2>3. CASE ReadSession(q, op)
    <3> DEFINE r == [session |-> op.session,
                     pc |-> IF sessions[op.session].parts = "single"
                            THEN "heading" ELSE "completing"]
    <3>1. op.session \in Requests
      BY <2>3, Asked DEF ReadSession
    <3>2. IsReq(q, r)
      BY <3>1 DEF IsReq, IsSession
    <3>3. Moves(q, r)
      BY <2>2, <2>3 DEF ReadSession
    <3> QED
      BY <3>2, <3>3
  <2>4. CASE Attach(q, op)
    <3> DEFINE r == [pc |-> "attaching", id |-> op.id, mem |-> docs[op.id]]
    <3>1. IsReq(q, r)
      BY <2>4, Asked DEF Attach, IsReq, IsAttach
    <3>2. Moves(q, r)
      BY <2>2, <2>4 DEF Attach
    <3> QED
      BY <3>1, <3>2
  <2>5. CASE Verify(q, op)
    <3> DEFINE script == Uploaded(op.script, "script")
               cut == Uploaded(op.cut, "cut")
               r == [pc |-> "creating", id |-> Cloud, left |-> << >>, mine |-> FALSE,
                     doc |-> NewProduction(script, cut)]
    <3>1. /\ op.script \in Requests \cup {None} /\ op.cut \in Requests \cup {None}
          /\ op.script # None => Has(<<op.script, "script">>)
          /\ op.cut # None => Has(<<op.cut, "cut">>)
      BY <2>2, <2>5, Asked DEF Verify
    <3>2. script \in Refs \cup {None} /\ cut \in Refs \cup {None}
      <4>1. \A k \in Keys : Has(k) => objects[k].etag \in Nat \ {0}
        BY DEF Typed, Has, Versions
      <4>2. \A k \in Keys, etag \in Nat \ {0} : Ref(k, "", etag) \in Refs
        BY DEF Ref, Refs
      <4> QED
        BY <3>1, <4>1, <4>2 DEF Uploaded, Keys, Slots
    <3> HIDE DEF script, cut
    <3>3. IsDoc(r.doc) /\ CasesFine(r.doc) /\ r.doc.documents = {} /\ r.doc.phase = "created"
      BY <3>2, NewProductionFine
    <3>4. IsReq(q, r)
      BY <3>3 DEF IsReq, IsCreation, IsAssets
    <3>5. Moves(q, r)
      BY <2>2, <2>5 DEF Verify, script, cut
    <3> QED
      BY <3>4, <3>5
  <2>6. CASE Preflight(q, op)
    <3> DEFINE r == [pc |-> "creating", id |-> q, mine |-> TRUE, op |-> op,
                     left |-> Given(op), doc |-> NewProduction(None, None)]
    <3>1. /\ Given(op) \in Seq(Sources)
          /\ \A i \in 1 .. Len(Given(op)) :
               op[Given(op)[i]] \in File /\ Accepted(op[Given(op)[i]])
      BY <2>2, <2>6, Asked, Granted DEF Preflight, Sources
    <3>2. IsDoc(r.doc) /\ CasesFine(r.doc) /\ r.doc.documents = {} /\ r.doc.phase = "created"
      BY NewProductionFine
    <3>3. IsPost(q, r)
      BY <3>1 DEF IsPost
    <3>4. IsReq(q, r)
      BY <3>2, <3>3 DEF IsReq, IsCreation
    <3>5. Moves(q, r)
      BY <2>2, <2>6 DEF Preflight
    <3> QED
      BY <3>4, <3>5
  <2>7. CASE Detach(q, op)
    <3> DEFINE r == [pc |-> "deleting", id |-> op.id, left |-> {op.key},
                    gone |-> {op.key}, mem |-> docs[op.id], all |-> FALSE]
    <3>1. /\ op.id \in Productions /\ op.key \in Keys /\ Moves(q, r)
          /\ Present(docs[op.id])
          /\ \E f \in docs[op.id].documents : f.key = op.key
      BY <2>2, <2>7, Asked DEF Detach
    <3>2. op.key[2] = "document" /\ op.key \in Owned(docs[op.id])
      <4>1. Well(op.id, docs[op.id])
        BY <3>1 DEF CopiesWell, Copies
      <4> QED
        BY <3>1, <4>1 DEF Well, Owned, FilesOf
    <3>3. IsReq(q, r)
      BY <3>1, <3>2 DEF IsReq, IsRemoval
    <3> QED
      BY <3>1, <3>3
  <2>8. CASE RemoveProject(q, op)
    <3> DEFINE r == [pc |-> "deleting", id |-> op.id, left |-> Owned(docs[op.id]),
                    gone |-> Owned(docs[op.id]), mem |-> docs[op.id], all |-> TRUE]
    <3>1. IsReq(q, r)
      BY <2>8, Asked DEF RemoveProject, IsReq, IsRemoval
    <3>2. Moves(q, r)
      BY <2>2, <2>8 DEF RemoveProject
    <3> QED
      BY <3>1, <3>2
  <2> QED
    BY <2>2, <2>3, <2>4, <2>5, <2>6, <2>7, <2>8 DEF Receive, Open
<1> QED
  BY <1>1, <1>2, <1>3, <1>4 DEF Typed

\* The client's steps.
LEMMA ClientTyped ==
  ASSUME Typed, NEW q \in Requests, PutObject(q) \/ Expire(q)
  PROVE  Typed'
<1>0. sessions[q] # None /\ sessions[q] \in Sessions
  BY DEF Typed, PutObject, Expire
<1>1. CASE PutObject(q)
  <2> DEFINE k == SessionKey(q)
  <2>1. k \in Keys
    BY <1>0 DEF SessionKey, Keys, Slots, Sessions
  <2>2. PICK whole \in BOOLEAN :
          objects' = [objects EXCEPT ![k] = Version(sessions[q].file, whole, Etag(k))]
    BY <1>1 DEF PutObject
  <2>3. Version(sessions[q].file, whole, Etag(k)) \in Versions
    BY <1>0, <2>1, EtagFits DEF Version, Versions, Sessions
  <2> HIDE DEF k
  <2>4. objects' \in [Keys -> Versions \cup {None}]
    BY <2>2, <2>3 DEF Typed
  <2> QED
    BY <1>1, <2>4 DEF PutObject, Typed
<1>2. CASE Expire(q)
  <2>1. [sessions[q] EXCEPT !.live = FALSE] \in Sessions
    BY <1>0 DEF Sessions
  <2>2. sessions' = [sessions EXCEPT ![q] = [sessions[q] EXCEPT !.live = FALSE]]
    BY <1>2 DEF Expire
  <2>3. sessions' \in [Requests -> Sessions \cup {None}]
    BY <2>1, <2>2 DEF Typed
  <2> QED
    BY <1>2, <2>3 DEF Expire, Typed
<1> QED
  BY <1>1, <1>2

\* What a handler on its way is.
LEMMA OnItsWay ==
  ASSUME Typed, NEW q \in Requests
  PROVE  /\ req[q].pc \in {"completing", "heading", "closing"} =>
              /\ IsSession(req[q]) /\ req[q].session \in Requests
              /\ sessions[req[q].session] \in Sessions \cup {None}
         /\ req[q].pc = "creating" => IsCreation(q, req[q]) /\ req[q].id \in Productions
         /\ req[q].pc = "attaching" => IsAttach(req[q])
         /\ req[q].pc = "deleting" => IsRemoval(req[q])
<1>1. IsReq(q, req[q])
  BY DEF Typed
<1>2. \A r : IsSession(r) => r.pc \in {"completing", "heading", "closing"} /\ r.session \in Requests
  BY DEF IsSession
<1>3. \A s \in Requests : sessions[s] \in Sessions \cup {None}
  BY DEF Typed
<1>4. \A r : IsCreation(q, r) => r.pc = "creating" /\ r.id \in Productions
  BY DEF IsCreation, IsPost, IsAssets, Productions
<1>5. \A r : IsAttach(r) => r.pc = "attaching"
  BY DEF IsAttach
<1>6. \A r : IsRemoval(r) => r.pc = "deleting"
  BY DEF IsRemoval
<1> QED
  BY <1>1, <1>2, <1>3, <1>4, <1>5, <1>6 DEF IsReq, Idle

\* The finalizations.
LEMMA FinalizeTyped ==
  ASSUME Typed, NEW q \in Requests, Begun(q),
         Complete(q) \/ CompleteFails(q) \/ HeadObject(q) \/ CloseSession(q)
  PROVE  Typed'
<1> DEFINE s == req[q].session
           k == SessionKey(s)
<1>1. /\ req[q].pc \in {"completing", "heading", "closing"}
      /\ IsSession(req[q]) /\ s \in Requests /\ sessions[s] # None /\ sessions[s] \in Sessions
  BY OnItsWay DEF Begun, Complete, CompleteFails, HeadObject, CloseSession
<1>2. k \in Keys
  BY <1>1 DEF SessionKey, Keys, Slots, Sessions
<1>3. UNCHANGED <<docs, run, troubles, history>>
  BY DEF Complete, CompleteFails, HeadObject, CloseSession
<1>4. CASE Complete(q)
  <2>1. PICK whole \in BOOLEAN :
          objects' = [objects EXCEPT ![k] = Version(sessions[s].file, whole, Etag(k))]
    BY <1>4 DEF Complete
  <2>2. Version(sessions[s].file, whole, Etag(k)) \in Versions
    BY <1>1, <1>2, EtagFits DEF Version, Versions, Sessions
  <2> HIDE DEF k
  <2>3. objects' \in [Keys -> Versions \cup {None}]
    BY <2>1, <2>2 DEF Typed
  <2>4. [sessions[s] EXCEPT !.parts = "joined"] \in Sessions
    BY <1>1 DEF Sessions
  <2>5. sessions' \in [Requests -> Sessions \cup {None}]
    BY <1>4, <2>4 DEF Typed, Complete
  <2>6. IsReq(q, [req[q] EXCEPT !.pc = "heading"])
    <3>1. req[q] \in [pc : {"completing", "heading"}, session : Requests]
      BY <1>1, <1>4 DEF Complete, IsSession
    <3> QED
      BY <3>1 DEF IsReq, IsSession
  <2>7. /\ req' = [p \in Requests |-> req'[p]]
        /\ \A p \in Requests : IsReq(p, req'[p])
    BY <1>4, <2>6, MovedTyped DEF Complete
  <2> QED
    BY <1>3, <1>4, <2>3, <2>5, <2>7 DEF Complete, Typed
<1>5. CASE Answer(q) /\ UNCHANGED <<objects, sessions, answers>>
  BY <1>3, <1>5, AnsweredTyped DEF Typed
<1>6. CASE HeadObject(q) /\ ~Answer(q)
  <2> DEFINE r == [pc |-> "closing", session |-> s, etag |-> objects[k].etag]
  <2>1. Has(k) /\ Moves(q, r)
    BY <1>6 DEF HeadObject
  <2>2. objects[k].etag \in Nat \ {0}
    BY <1>2, <2>1 DEF Typed, Has, Versions
  <2>3. IsReq(q, r)
    BY <1>1, <2>2 DEF IsReq, IsSession
  <2>4. /\ req' = [p \in Requests |-> req'[p]]
        /\ \A p \in Requests : IsReq(p, req'[p])
    BY <2>1, <2>3, MovedTyped
  <2> QED
    BY <1>3, <1>6, <2>4 DEF HeadObject, Typed
<1>7. CASE CloseSession(q)
  <2>1. req[q].etag \in Nat \ {0}
    BY <1>1, <1>7 DEF CloseSession, IsSession
  <2>2. [sessions[s] EXCEPT !.etag = req[q].etag] \in Sessions
    BY <1>1, <2>1 DEF Sessions
  <2>3. sessions' \in [Requests -> Sessions \cup {None}]
    BY <1>7, <2>2 DEF Typed, CloseSession
  <2>4. answers' \subseteq Requests \X (Nat \ {0})
    BY <1>1, <1>7, <2>1 DEF Typed, CloseSession
  <2> QED
    BY <1>3, <1>7, <2>3, <2>4, AnsweredTyped DEF CloseSession, Typed
<1> QED
  BY <1>4, <1>5, <1>6, <1>7 DEF CompleteFails, HeadObject

\* The version a first put writes.
LEMMA OneIsPositive == 1 \in Nat \ {0}
  OBVIOUS

\* A file as a put records it is a reference.
LEMMA RefFits ==
  ASSUME NEW key \in Keys, NEW suffix \in {"pdf", "text", "video", "other", ""}
  PROVE  Ref(key, suffix, 1) \in Refs
<1>1. \A n \in Nat \ {0} : Ref(key, suffix, n) \in Refs
  BY DEF Ref, Refs
<1> QED
  BY <1>1, OneIsPositive, Zenon

\* The rest of a list of work.
LEMMA Tails ==
  ASSUME NEW S, NEW s \in Seq(S), s # << >>
  PROVE  /\ Head(s) \in S /\ Tail(s) \in Seq(S)
         /\ Head(s) = s[1] /\ 1 \in 1 .. Len(s)
         /\ \A i \in 1 .. Len(Tail(s)) :
              Tail(s)[i] = s[i + 1] /\ i + 1 \in 1 .. Len(s)
  OBVIOUS

\* The put of a creation: the file stored, and the request that goes on.
Puts(q, slot, file, r) ==
  /\ slot \in Sources /\ file \in File
  /\ Accepted(file) /\ <<q, slot>> \in Keys
  /\ Ref(<<q, slot>>, file.suffix, 1) \in Refs
  /\ Version(file, TRUE, 1) \in Versions
  /\ objects' = [objects EXCEPT ![<<q, slot>>] = Version(file, TRUE, 1)]
  /\ req[q].mine /\ req[q].id = q /\ r.mine /\ r.pc = "creating" /\ r.id = q
  /\ r.doc = [req[q].doc EXCEPT ![slot] = Ref(<<q, slot>>, file.suffix, 1)]
  /\ IsReq(q, r) /\ Moves(q, r)

\* What a put of a creation does.
LEMMA StoreFileShape ==
  ASSUME Typed, NEW q \in Requests, StoreFile(q)
  PROVE  \E slot, file, r : Puts(q, slot, file, r)
<1> DEFINE slot == Head(req[q].left)
           file == req[q].op[slot]
           ref == Ref(<<q, slot>>, file.suffix, 1)
           r == [req[q] EXCEPT !.left = Tail(@), !.doc = [@ EXCEPT ![slot] = ref]]
<1>0. IsCreation(q, req[q])
  BY OnItsWay DEF StoreFile
<1>1. IsPost(q, req[q])
  BY <1>0 DEF StoreFile, IsCreation, IsAssets
<1>2. /\ slot \in Sources /\ file \in File /\ Accepted(file)
      /\ Tail(req[q].left) \in Seq(Sources)
      /\ \A i \in 1 .. Len(Tail(req[q].left)) :
           LET left == Tail(req[q].left)
           IN  req[q].op[left[i]] \in File /\ Accepted(req[q].op[left[i]])
  <2>1. /\ req[q].left \in Seq(Sources) /\ req[q].left # << >>
        /\ \A i \in 1 .. Len(req[q].left) :
             req[q].op[req[q].left[i]] \in File /\ Accepted(req[q].op[req[q].left[i]])
    BY <1>1 DEF StoreFile, IsPost
  <2>2. /\ Head(req[q].left) \in Sources /\ Tail(req[q].left) \in Seq(Sources)
        /\ Head(req[q].left) = req[q].left[1] /\ 1 \in 1 .. Len(req[q].left)
        /\ \A i \in 1 .. Len(Tail(req[q].left)) :
             Tail(req[q].left)[i] = req[q].left[i + 1] /\ i + 1 \in 1 .. Len(req[q].left)
    BY <2>1, Tails
  <2> QED
    BY <2>1, <2>2
<1>3. ref \in Refs /\ Version(file, TRUE, 1) \in Versions /\ <<q, slot>> \in Keys
  <2>1. file.suffix \in {"pdf", "text", "video", "other", ""} /\ <<q, slot>> \in Keys
    BY <1>2 DEF File, Keys, Slots, Sources
  <2> HIDE DEF file, slot
  <2>2. ref \in Refs
    BY <2>1, RefFits
  <2>3. \A b \in BOOLEAN : Version(file, b, 1) \in Versions
    BY <1>2 DEF Version, Versions
  <2> QED
    BY <2>1, <2>2, <2>3
<1>4. /\ objects' = [objects EXCEPT ![<<q, slot>>] = Version(file, TRUE, 1)]
      /\ Moves(q, r)
  BY DEF StoreFile
<1>5. /\ r \in [pc : {"creating"}, id : {q}, mine : {TRUE}, op : {r.op},
                left : {r.left}, doc : {r.doc}]
      /\ r.op = req[q].op /\ r.left = Tail(req[q].left)
      /\ r.doc = [req[q].doc EXCEPT ![slot] = ref]
      /\ req[q].mine /\ req[q].id = q
  <2>1. r = [req[q] EXCEPT !.left = Tail(@), !.doc = [@ EXCEPT ![slot] = ref]]
    OBVIOUS
  <2>2. req[q] \in [pc : {"creating"}, id : {q}, mine : {TRUE}, op : {req[q].op},
                   left : {req[q].left}, doc : {req[q].doc}]
    BY <1>1 DEF IsPost
  <2> HIDE DEF r, slot, ref
  <2> QED
    BY <2>1, <2>2
<1> HIDE DEF r
<1>6. IsPost(q, r)
  BY <1>2, <1>5 DEF IsPost
<1>7. IsDoc(r.doc) /\ CasesFine(r.doc) /\ r.doc.documents = {} /\ r.doc.phase = "created"
  BY <1>0, <1>2, <1>3, <1>5 DEF IsCreation, IsDoc, CasesFine, Sources
<1>8. IsReq(q, r) /\ r.mine /\ r.pc = "creating" /\ r.id = q
  BY <1>5, <1>6, <1>7 DEF IsReq, IsCreation
<1>9. Puts(q, slot, file, r)
  <2> HIDE DEF slot, file
  <2> QED
    BY <1>2, <1>3, <1>4, <1>5, <1>8 DEF Puts
<1> QED
  BY <1>9

\* A put leaves its creation on the way.
LEMMA StoreFileMoves ==
  ASSUME Typed, NEW q \in Requests, StoreFile(q)
  PROVE  \E r : Moves(q, r) /\ r.pc = "creating" /\ r.mine
<1>0. PICK slot, file, r : Puts(q, slot, file, r)
  BY StoreFileShape
<1>1. /\ slot \in Sources /\ file \in File
      /\ Accepted(file) /\ <<q, slot>> \in Keys
      /\ Version(file, TRUE, 1) \in Versions
      /\ objects' = [objects EXCEPT ![<<q, slot>>] = Version(file, TRUE, 1)]
      /\ req[q].mine /\ r.mine /\ r.pc = "creating" /\ Moves(q, r)
  BY <1>0 DEF Puts
<1> QED
  BY <1>1

\* The creations.
LEMMA CreationTyped ==
  ASSUME Typed, NEW q \in Requests,
         StoreFile(q) \/ SaveProduction(q) \/ CreationFails(q)
  PROVE  Typed'
<1>1. req[q].pc = "creating" /\ IsCreation(q, req[q]) /\ req[q].id \in Productions
  BY OnItsWay DEF StoreFile, SaveProduction, CreationFails
<1>2. CASE StoreFile(q)
  <2>0. PICK slot, file, r : Puts(q, slot, file, r)
    BY <1>2, StoreFileShape
  <2>1. /\ <<q, slot>> \in Keys /\ Version(file, TRUE, 1) \in Versions
        /\ objects' = [objects EXCEPT ![<<q, slot>>] = Version(file, TRUE, 1)]
        /\ IsReq(q, r) /\ Moves(q, r)
    BY <2>0 DEF Puts
  <2>2. objects' \in [Keys -> Versions \cup {None}]
    BY <2>1 DEF Typed
  <2>3. /\ req' = [p \in Requests |-> req'[p]]
        /\ \A p \in Requests : IsReq(p, req'[p])
    BY <2>1, MovedTyped
  <2> QED
    BY <1>2, <2>2, <2>3 DEF StoreFile, Typed
<1>3. CASE SaveProduction(q)
  <2>1. IsRun([pc |-> "queued", id |-> req[q].id])
    BY <1>1 DEF IsRun
  <2>2. /\ run' = [p \in Requests |-> run'[p]]
        /\ \A p \in Requests : IsRun(run'[p])
    BY <1>3, <2>1, RunTyped DEF SaveProduction
  <2> QED
    BY <1>1, <1>3, <2>2, SavedTyped, AnsweredTyped DEF SaveProduction, Typed
<1>4. CASE CreationFails(q)
  <2>1. objects' \in [Keys -> Versions \cup {None}]
    BY <1>4 DEF CreationFails, Without, Typed
  <2>2. docs' = [i \in Productions |-> docs'[i]] /\ history' \in Histories
    <3>1. CASE UNCHANGED <<docs, history>>
      BY <3>1 DEF Typed
    <3>2. CASE ~UNCHANGED <<docs, history>>
      <4> DEFINE b == history.overlaid \/ Overlays(req[q].id, NoProduction, req[q].doc)
      <4>1. b \in BOOLEAN
        BY DEF Overlays
      <4>2. /\ docs' = [docs EXCEPT ![req[q].id] = req[q].doc]
            /\ history' = [history EXCEPT !.unsure = TRUE, !.overlaid = b]
        BY <1>4, <3>2 DEF CreationFails
      <4> HIDE DEF b
      <4> QED
        BY <4>1, <4>2 DEF Typed, Histories
    <3> QED
      BY <3>1, <3>2
  <2>3. troubles' \in 0 .. MaxTroubles
    BY <1>4, IntakeAssumption DEF CreationFails, Trouble, Typed
  <2> QED
    BY <1>4, <2>1, <2>2, <2>3, AnsweredTyped DEF CreationFails, Typed
<1> QED
  BY <1>2, <1>3, <1>4

\* What a put of a document does.
LEMMA StoreDocumentShape ==
  ASSUME Typed, NEW q \in Requests, StoreDocument(q)
  PROVE  \E v \in Versions :
           objects' = [objects EXCEPT ![<<q, "document">>] = v] /\ v.etag = 1
<1> DEFINE file == [suffix |-> "pdf", holds |-> "pdf", large |-> FALSE]
           v == Version(file, TRUE, 1)
<1>1. file \in File /\ TRUE \in BOOLEAN
  BY DEF File
<1> HIDE DEF file
<1>2. \A whole \in BOOLEAN, n \in Nat \ {0} :
        Version(file, whole, n) \in Versions /\ Version(file, whole, n).etag = n
  BY <1>1 DEF Version, Versions
<1>3. v \in Versions /\ v.etag = 1
  BY <1>1, <1>2, OneIsPositive, Zenon
<1>4. objects' = [objects EXCEPT ![<<q, "document">>] = v]
  BY DEF StoreDocument, file
<1> QED
  BY <1>3, <1>4

\* The documents and the deletions.
LEMMA DocumentTyped ==
  ASSUME Typed, NEW q \in Requests,
         \/ StoreDocument(q) \/ SaveDocument(q)
         \/ DeleteFile(q) \/ DeleteSwallowed(q) \/ SaveRemoval(q)
  PROVE  Typed'
<1>1. /\ req[q].pc = "attaching" => IsAttach(req[q]) /\ req[q].id \in Productions
      /\ req[q].pc = "deleting" => IsRemoval(req[q]) /\ req[q].id \in Productions
  BY OnItsWay DEF IsAttach, IsRemoval
<1>2. CASE StoreDocument(q)
  <2>1. objects' \in [Keys -> Versions \cup {None}]
    BY <1>2, StoreDocumentShape DEF Typed
  <2> QED
    BY <1>2, <2>1 DEF StoreDocument, Typed
<1>3. CASE SaveDocument(q)
  <2>1. PICK new : Saves(req[q].id, req[q].mem, new)
    BY <1>3 DEF SaveDocument
  <2>2. docs' = [i \in Productions |-> docs'[i]] /\ history' \in Histories
    BY <1>1, <1>3, <2>1, SavedTyped DEF SaveDocument
  <2> QED
    BY <1>3, <2>2, AnsweredTyped DEF SaveDocument, Typed
<1>4. CASE DeleteFile(q) \/ DeleteSwallowed(q)
  <2>1. PICK key \in req[q].left : Moves(q, [req[q] EXCEPT !.left = @ \ {key}])
    BY <1>4 DEF DeleteFile, DeleteSwallowed
  <2> DEFINE r == [req[q] EXCEPT !.left = @ \ {key}]
  <2>2. /\ req[q] \in [pc : {"deleting"}, id : Productions, left : SUBSET req[q].gone,
                       gone : SUBSET Owned(req[q].mem), mem : {req[q].mem}, all : BOOLEAN]
        /\ IF req[q].all THEN req[q].gone = Owned(req[q].mem)
           ELSE \A k \in req[q].gone : k[2] = "document"
    BY <1>1, <1>4 DEF DeleteFile, DeleteSwallowed, IsRemoval
  <2>3. /\ r \in [pc : {"deleting"}, id : Productions, left : SUBSET req[q].gone,
                  gone : SUBSET Owned(req[q].mem), mem : {req[q].mem}, all : BOOLEAN]
        /\ r.gone = req[q].gone /\ r.mem = req[q].mem /\ r.all = req[q].all
    BY <2>2
  <2> HIDE DEF r
  <2>4. IsReq(q, r)
    BY <2>2, <2>3 DEF IsReq, IsRemoval
  <2>5. /\ req' = [p \in Requests |-> req'[p]]
        /\ \A p \in Requests : IsReq(p, req'[p])
    BY <2>1, <2>4, MovedTyped DEF r
  <2>6. objects' \in [Keys -> Versions \cup {None}]
    <3>1. objects' = objects \/ \E k : objects' = [objects EXCEPT ![k] = None]
      BY <1>4 DEF DeleteFile, DeleteSwallowed
    <3> QED
      BY <3>1 DEF Typed
  <2>7. history' \in Histories /\ troubles' \in 0 .. MaxTroubles
    <3>1. /\ \/ history' = history
             \/ history' = [history EXCEPT !.unclean = TRUE]
          /\ troubles' \in 0 .. MaxTroubles
      BY <1>4, IntakeAssumption DEF DeleteFile, DeleteSwallowed, Trouble, Typed
    <3>2. history \in Histories
      BY DEF Typed
    <3>3. \A b \in BOOLEAN : [history EXCEPT !.unclean = b] \in Histories
      BY <3>2 DEF Histories
    <3> QED
      BY <3>1, <3>2, <3>3
  <2> QED
    BY <1>4, <2>5, <2>6, <2>7 DEF DeleteFile, DeleteSwallowed, Typed
<1>5. CASE SaveRemoval(q)
  <2>1. PICK new : Saves(req[q].id, req[q].mem, new)
    BY <1>5 DEF SaveRemoval
  <2>2. docs' = [i \in Productions |-> docs'[i]] /\ history' \in Histories
    BY <1>1, <1>5, <2>1, SavedTyped DEF SaveRemoval
  <2> QED
    BY <1>5, <2>2, AnsweredTyped DEF SaveRemoval, Typed
<1> QED
  BY <1>2, <1>3, <1>4, <1>5

\* A production that vanishes leaves a typed store.
LEMMA VanishTyped ==
  ASSUME Typed, NEW q \in Requests, Vanish(q)
  PROVE  Typed'
<1>1. history' \in Histories /\ troubles' \in 0 .. MaxTroubles
  <2> DEFINE b == history.unclean \/ req[q].pc \in {"creating", "attaching", "deleting"}
  <2>1. b \in BOOLEAN /\ history' = [history EXCEPT !.unclean = b]
    BY DEF Vanish
  <2> HIDE DEF b
  <2>2. history' \in Histories
    BY <2>1 DEF Typed, Histories
  <2> QED
    BY <2>2, IntakeAssumption DEF Vanish, Trouble, Typed
<1> QED
  BY <1>1, AnsweredTyped DEF Vanish, Typed

\* Every step keeps the shapes.
Step(q) ==
  \/ \E op \in Ops : Receive(q, op)
  \/ Continue(q) \/ Analyse(q)
  \/ PutObject(q) \/ Expire(q)

\* Every step of a request keeps the types.
LEMMA StepTyped ==
  ASSUME Typed, CopiesWell, NEW q \in Requests, Begun(q), Step(q)
  PROVE  Typed'
<1>1. CASE \E op \in Ops : Receive(q, op)
  BY <1>1, ReceiveTyped
<1>2. CASE Continue(q)
  BY <1>2, FinalizeTyped, CreationTyped, DocumentTyped, VanishTyped DEF Continue
<1>3. CASE Analyse(q)
  BY <1>3, AnalyseTyped
<1>4. CASE PutObject(q) \/ Expire(q)
  BY <1>4, ClientTyped
<1> QED
  BY <1>1, <1>2, <1>3, <1>4 DEF Step

---------------------------------------------------------------------------
(***************************************************************************)
(* What a step may change                                                  *)
(***************************************************************************)
\* A step moves at most one handler and one run, and no handler that has ended.
LEMMA Steps ==
  ASSUME Typed, NEW q \in Requests, Step(q)
  PROVE  /\ \A p \in Requests : p # q => req'[p] = req[p] /\ run'[p] = run[p]
         /\ req'[q] # req[q] => req[q].pc # "done"
<1>1. /\ \/ UNCHANGED req
         \/ req[q].pc # "done" /\ \E r : Moves(q, r)
      /\ \/ UNCHANGED run
         \/ \E r : run' = [run EXCEPT ![q] = r]
  <2>1. CASE \E op \in Ops : Receive(q, op)
    BY <2>1 DEF Receive, Open, ReadSession, Verify, Preflight, Attach, Detach,
                RemoveProject, Answer, Moves
  <2>2. CASE Complete(q) \/ CompleteFails(q) \/ HeadObject(q) \/ CloseSession(q)
    BY <2>2 DEF Complete, CompleteFails, HeadObject, CloseSession, Answer, Moves
  <2>3. CASE StoreFile(q) \/ SaveProduction(q) \/ CreationFails(q)
    BY <2>3 DEF StoreFile, SaveProduction, CreationFails, Answer, Moves
  <2>4. CASE StoreDocument(q) \/ SaveDocument(q) \/ SaveRemoval(q) \/ Vanish(q)
    BY <2>4 DEF StoreDocument, SaveDocument, SaveRemoval, Vanish, Answer, Moves
  <2>5. CASE DeleteFile(q) \/ DeleteSwallowed(q)
    BY <2>5 DEF DeleteFile, DeleteSwallowed, Moves
  <2>6. CASE Analyse(q)
    BY <2>6 DEF Analyse, LoadRun, Announce, ReadSources, SaveCases
  <2>7. CASE PutObject(q) \/ Expire(q)
    BY <2>7 DEF PutObject, Expire
  <2> QED
    BY <2>1, <2>2, <2>3, <2>4, <2>5, <2>6, <2>7 DEF Step, Continue
<1>2. (\E r : Moves(q, r)) => \A p \in Requests : p # q => req'[p] = req[p]
  BY Moved
<1>3. (\E r : run' = [run EXCEPT ![q] = r]) => \A p \in Requests : p # q => run'[p] = run[p]
  BY DEF Typed
<1> QED
  BY <1>1, <1>2, <1>3

\* Requests end for good; sessions stay as they were opened; what a request
\* stored is written by nobody once it has ended; and a key's etags grow.
SessionsStay ==
  /\ \A s \in Requests : sessions[s] # None =>
       sessions'[s] # None /\ sessions'[s].slot = sessions[s].slot
  /\ \A s \in Requests : sessions[s] = None /\ req[s].pc # "new" => sessions'[s] = None

ObjectsStay ==
  /\ \A k \in Keys : ~Signed(k) /\ req[k[1]].pc = "done" =>
       objects'[k] \in {objects[k], None}
  /\ \A k \in Keys : objects[k] # None /\ objects'[k] # None =>
       objects'[k].etag >= objects[k].etag

\* A step opens or closes upload sessions; none is lost or changes its slot.
LEMMA SessionsEvolve ==
  ASSUME Typed, NEW q \in Requests, Begun(q), Step(q)
  PROVE  SessionsStay
<1> DEFINE Kept(s) == \E r \in Sessions :
             /\ sessions[s] # None /\ r.slot = sessions[s].slot
             /\ sessions' = [sessions EXCEPT ![s] = r]
<1>1. \/ UNCHANGED sessions
      \/ req[q].pc = "new" /\ sessions[q] = None
         /\ \E r : sessions' = [sessions EXCEPT ![q] = r]
      \/ \E s \in Requests : Kept(s)
  <2>1. CASE \E op \in Ops : Receive(q, op)
    <3> SUFFICES ASSUME NEW op \in Ops, Open(q, op)
                 PROVE  /\ req[q].pc = "new" /\ sessions[q] = None
                        /\ \E r : sessions' = [sessions EXCEPT ![q] = r]
      BY <2>1 DEF Receive, ReadSession, Verify, Preflight, Attach, Detach, RemoveProject
    <3> QED
      BY DEF Open, Begun
  <2>2. CASE Complete(q)
    <3>1. /\ req[q].session \in Requests /\ sessions[req[q].session] \in Sessions
          /\ sessions[req[q].session] # None
      BY <2>2, OnItsWay DEF Complete, Begun
    <3>2. [sessions[req[q].session] EXCEPT !.parts = "joined"] \in Sessions
      BY <3>1 DEF Sessions
    <3> QED
      BY <2>2, <3>1, <3>2 DEF Complete, Sessions
  <2>3. CASE CloseSession(q)
    <3>1. /\ req[q].session \in Requests /\ sessions[req[q].session] \in Sessions
          /\ sessions[req[q].session] # None /\ req[q].etag \in Nat \ {0}
      BY <2>3, OnItsWay DEF CloseSession, Begun, IsSession
    <3>2. [sessions[req[q].session] EXCEPT !.etag = req[q].etag] \in Sessions
      BY <3>1 DEF Sessions
    <3> QED
      BY <2>3, <3>1, <3>2 DEF CloseSession, Sessions
  <2>4. CASE Expire(q)
    <3>1. sessions[q] \in Sessions /\ sessions[q] # None
      BY <2>4 DEF Expire, Typed
    <3>2. [sessions[q] EXCEPT !.live = FALSE] \in Sessions
      BY <3>1 DEF Sessions
    <3> QED
      BY <2>4, <3>1, <3>2 DEF Expire, Sessions
  <2>5. CASE Analyse(q) \/ PutObject(q)
    BY <2>5 DEF Analyse, LoadRun, Announce, ReadSources, SaveCases, PutObject
  <2>6. CASE CompleteFails(q) \/ HeadObject(q)
    BY <2>6 DEF CompleteFails, HeadObject
  <2>7. CASE \/ StoreFile(q) \/ SaveProduction(q) \/ CreationFails(q)
             \/ StoreDocument(q) \/ SaveDocument(q)
             \/ DeleteFile(q) \/ DeleteSwallowed(q) \/ SaveRemoval(q) \/ Vanish(q)
    BY <2>7 DEF StoreFile, SaveProduction, CreationFails, StoreDocument, SaveDocument,
                DeleteFile, DeleteSwallowed, SaveRemoval, Vanish
  <2> QED
    BY <2>1, <2>2, <2>3, <2>4, <2>5, <2>6, <2>7 DEF Step, Continue
<1>2. sessions \in [Requests -> Sessions \cup {None}] /\ None \notin Sessions
  BY NoneAssumption DEF Typed
<1>3. CASE UNCHANGED sessions
  BY <1>3 DEF SessionsStay
<1>4. ASSUME req[q].pc = "new", sessions[q] = None,
             NEW r, sessions' = [sessions EXCEPT ![q] = r]
      PROVE  SessionsStay
  BY <1>2, <1>4 DEF SessionsStay
<1>5. ASSUME NEW s \in Requests, Kept(s)
      PROVE  SessionsStay
  BY <1>2, <1>5 DEF SessionsStay
<1> QED
  BY <1>1, <1>3, <1>4, <1>5

\* A step writes one object, or only deletes.
Writes(k, v) ==
  /\ k \in Keys /\ v \in Versions /\ objects' = [objects EXCEPT ![k] = v]
  /\ Has(k) => v.etag >= objects[k].etag
  /\ Signed(k) \/ req[k[1]].pc # "done"

\* A step overwrites an object only by a later version, and leaves what an
\* ended request stored.
LEMMA ObjectsEvolve ==
  ASSUME Typed, Typed', NEW q \in Requests, Begun(q), Step(q)
  PROVE  ObjectsStay
<1>1. \/ \A k \in Keys : objects'[k] \in {objects[k], None}
      \/ \E k, v : Writes(k, v)
  <2>0. /\ objects \in [Keys -> Versions \cup {None}]
        /\ objects' \in [Keys -> Versions \cup {None}]
    BY DEF Typed
  <2>1. CASE \E op \in Ops : Receive(q, op)
    BY <2>1 DEF Receive, Open, ReadSession, Verify, Preflight, Attach, Detach, RemoveProject
  <2>2. CASE Complete(q) \/ PutObject(q)
    <3> DEFINE s == IF req[q].pc = "completing" /\ Complete(q) THEN req[q].session ELSE q
               k == SessionKey(s)
    <3>1. /\ s \in Requests /\ sessions[s] \in Sessions /\ sessions[s] # None
      BY <2>2, OnItsWay DEF Complete, PutObject, Begun, Typed
    <3>2. k \in Keys /\ Signed(k)
      BY <3>1 DEF SessionKey, Keys, Slots, Sessions, Signed
    <3>3. PICK whole \in BOOLEAN :
            objects' = [objects EXCEPT ![k] = Version(sessions[s].file, whole, Etag(k))]
      BY <2>2 DEF Complete, PutObject
    <3> DEFINE v == Version(sessions[s].file, whole, Etag(k))
    <3>4. v \in Versions /\ v.etag = Etag(k)
      BY <3>1, <3>2, EtagFits DEF Version, Versions, Sessions
    <3>5. Has(k) => v.etag >= objects[k].etag
      BY <3>2, <3>4, EtagFits DEF Versions
    <3> HIDE DEF k, v, s
    <3> QED
      BY <3>1, <3>2, <3>3, <3>4, <3>5 DEF Writes, v
  <2>3. CASE CompleteFails(q) \/ HeadObject(q) \/ CloseSession(q) \/ Analyse(q) \/ Expire(q)
    BY <2>3 DEF CompleteFails, HeadObject, CloseSession, Expire,
                Analyse, LoadRun, Announce, ReadSources, SaveCases
  <2>4. CASE StoreFile(q)
    <3>0. PICK slot, file, r : Puts(q, slot, file, r)
      BY <2>4, StoreFileShape
    <3>1. /\ <<q, slot>> \in Keys /\ Version(file, TRUE, 1) \in Versions
          /\ slot \in Sources /\ file \in File
          /\ objects' = [objects EXCEPT ![<<q, slot>>] = Version(file, TRUE, 1)]
          /\ req[q].mine
      BY <3>0 DEF Puts
    <3>2. Version(file, TRUE, 1).etag = 1
      BY DEF Version
    <3>3. Has(<<q, slot>>) => objects[<<q, slot>>].etag = 1
      BY <2>4, <3>1 DEF StoreFile, Begun, Posting, Slots, Sources
    <3> DEFINE k == <<q, slot>>
               v == Version(file, TRUE, 1)
    <3>4. k[1] = q /\ req[q].pc # "done"
      BY <2>4 DEF StoreFile
    <3>5. /\ k \in Keys /\ v \in Versions /\ objects' = [objects EXCEPT ![k] = v]
          /\ v.etag = 1 /\ (Has(k) => objects[k].etag = 1)
      BY <3>1, <3>2, <3>3
    <3> HIDE DEF k, v
    <3>6. Has(k) => v.etag >= objects[k].etag
      BY <3>5
    <3>7. Writes(k, v)
      BY <3>4, <3>5, <3>6 DEF Writes
    <3> QED
      BY <3>7
  <2>5. CASE StoreDocument(q)
    <3> DEFINE k == <<q, "document">>
    <3>1. PICK v \in Versions : objects' = [objects EXCEPT ![k] = v]
      BY <2>5, StoreDocumentShape
    <3>2. k \in Keys /\ k[1] = q /\ ~Has(k) /\ req[q].pc # "done"
      BY <2>5 DEF StoreDocument, Keys, Slots
    <3> HIDE DEF k
    <3> QED
      BY <3>1, <3>2 DEF Writes
  <2>6. CASE CreationFails(q)
    BY <2>0, <2>6 DEF CreationFails, Without
  <2>7. CASE DeleteFile(q)
    BY <2>0, <2>7 DEF DeleteFile
  <2>8. CASE SaveProduction(q) \/ SaveDocument(q) \/ SaveRemoval(q)
             \/ DeleteSwallowed(q) \/ Vanish(q)
    BY <2>8 DEF SaveProduction, SaveDocument, SaveRemoval, DeleteSwallowed, Vanish
  <2> QED
    BY <2>1, <2>2, <2>3, <2>4, <2>5, <2>6, <2>7, <2>8 DEF Step, Continue
<1>2. /\ objects \in [Keys -> Versions \cup {None}]
      /\ \A v \in Versions : v.etag \in Nat
  BY DEF Typed, Versions
<1>3. CASE \A k \in Keys : objects'[k] \in {objects[k], None}
  BY <1>2, <1>3 DEF ObjectsStay
<1>4. ASSUME NEW k, NEW v, Writes(k, v)
      PROVE  ObjectsStay
  BY <1>2, <1>4 DEF ObjectsStay, Writes, Has
<1> QED
  BY <1>1, <1>3, <1>4

---------------------------------------------------------------------------
(***************************************************************************)
(* Where copies come from                                                  *)
(***************************************************************************)
LEMMA CasesOfFine ==
  ASSUME NEW s \in ScriptScans \cup {<< >>}, NEW c \in CutScans \cup {<< >>}, NEW m \in Matchings
  PROVE  /\ EachCandidateOnce(s, c, ReconcileStage(s, c, m, Duration))
         /\ SpansFit(ReconcileStage(s, c, m, Duration), Duration)
         /\ \A item \in ToSet(ReconcileStage(s, c, m, Duration)) : item.kind \in Relationships
<1> DEFINE items == ReconcileStage(s, c, m, Duration)
<1>1. PICK S : s \in Seq(S)
  <2>1. s \in Seq(ToSet(s)) \/ s = << >>
    BY IntakeAssumption
  <2>2. << >> \in Seq({})
    OBVIOUS
  <2> QED
    BY <2>1, <2>2
<1>2. PICK C : c \in Seq(C)
  <2>1. c \in Seq(ToSet(c)) \/ c = << >>
    BY IntakeAssumption
  <2>2. << >> \in Seq({})
    OBVIOUS
  <2> QED
    BY <2>1, <2>2
<1>3. \A j \in DOMAIN c : IsTimed(c[j])
  <2>1. CASE c \in CutScans
    <3>1. \A x \in ToSet(c) : IsTimed(x)
      BY <2>1, IntakeAssumption DEF IsTimed
    <3> QED
      BY <3>1 DEF ToSet
  <2>2. CASE c = << >>
    BY <2>2
  <2> QED
    BY <2>1, <2>2
<1>4. PICK M : m \in Seq(M) /\ \A x \in M : x.relationship \in Relationships
  BY IntakeAssumption
<1>5. Duration \in Nat
  BY IntakeAssumption
<1>6. /\ AllFine(s, c, Duration, items)
      /\ \A i \in DOMAIN s : \E k \in DOMAIN items : items[k].script = i
      /\ \A j \in DOMAIN c : \E k \in DOMAIN items : items[k].cut = j
  <2>1. AllCases(s, c, Duration, items)
    BY <1>1, <1>2, <1>3, <1>4, <1>5, ReconcileFine
  <2> HIDE DEF items
  <2> QED
    BY <2>1 DEF AllCases
<1>7. 0 \notin DOMAIN s /\ 0 \notin DOMAIN c
  BY <1>1, <1>2
<1> HIDE DEF items
<1>8. ASSUME NEW i \in DOMAIN s
      PROVE  Cardinality({k \in DOMAIN items : items[k].script = i}) = 1
  <2>1. PICK k \in DOMAIN items : items[k].script = i
    BY <1>6
  <2>2. {l \in DOMAIN items : items[l].script = i} = {k}
    BY <1>6, <1>7, <2>1 DEF AllFine
  <2> QED
    BY <2>2, FS_Singleton
<1>9. ASSUME NEW j \in DOMAIN c
      PROVE  Cardinality({k \in DOMAIN items : items[k].cut = j}) = 1
  <2>1. PICK k \in DOMAIN items : items[k].cut = j
    BY <1>6
  <2>2. {l \in DOMAIN items : items[l].cut = j} = {k}
    BY <1>6, <1>7, <2>1 DEF AllFine
  <2> QED
    BY <2>2, FS_Singleton
<1>10. EachCandidateOnce(s, c, items)
  BY <1>6, <1>8, <1>9 DEF EachCandidateOnce, AllFine, CaseFine
<1>11. SpansFit(items, Duration)
  BY <1>6 DEF SpansFit, AllFine, CaseFine, Fits
<1>12. \A item \in ToSet(items) : item.kind \in Relationships
  BY <1>6 DEF ToSet, AllFine, CaseFine
<1> QED
  BY <1>10, <1>11, <1>12 DEF items

\* What a handler or a run has read is a copy it may save later.
LEMMA MemIsCopy ==
  ASSUME Typed, NEW q \in Requests
  PROVE  /\ Loads(q) => req[q].id \in Productions /\ req[q].mem \in Copies(req[q].id)
         /\ Works(q) => run[q].id \in Productions /\ run[q].mem \in Copies(run[q].id)
         /\ run[q].pc = "comparing" => run[q].new \in Copies(run[q].id)
<1>1. Loads(q) => req[q].id \in Productions
  BY OnItsWay DEF Loads, IsAttach, IsRemoval
<1>2. Works(q) => run[q].id \in Productions
  BY DEF Works, Typed, IsRun, NoRun
<1> QED
  BY <1>1, <1>2 DEF Copies

\* The copies after a step: those before it, and what the step made.
LEMMA CopiesAfter ==
  ASSUME NEW q \in Requests, NEW id \in Productions, NEW d,
         \A p \in Requests : p # q => req'[p] = req[p] /\ run'[p] = run[p],
         d \in Copies(id)'
  PROVE  \/ d \in Copies(id)
         \/ d = docs'[id] /\ docs'[id] # docs[id] /\ Present(d)
         \/ req'[q] # req[q] /\ Loads(q)' /\ req'[q].id = id /\ d = req'[q].mem
         \/ /\ run'[q] # run[q] /\ Works(q)' /\ run'[q].id = id
            /\ d = run'[q].mem \/ (run'[q].pc = "comparing" /\ d = run'[q].new)
<1>1. CASE d = docs'[id] /\ Present(d)
  BY <1>1 DEF Copies
<1>2. ASSUME NEW p \in Requests, Loads(p)', req'[p].id = id, d = req'[p].mem
      PROVE  d \in Copies(id) \/ (p = q /\ req'[q] # req[q])
  BY <1>2 DEF Copies, Loads
<1>3. ASSUME NEW p \in Requests, Works(p)', run'[p].id = id, d = run'[p].mem
      PROVE  d \in Copies(id) \/ (p = q /\ run'[q] # run[q])
  BY <1>3 DEF Copies, Works
<1>4. ASSUME NEW p \in Requests, run'[p].pc = "comparing", run'[p].id = id, d = run'[p].new
      PROVE  /\ d \in Copies(id) \/ (p = q /\ run'[q] # run[q])
             /\ Works(p)'
  BY <1>4 DEF Copies, Works
<1>5. \/ d = docs'[id] /\ Present(d)
      \/ \E p \in Requests : Loads(p)' /\ req'[p].id = id /\ d = req'[p].mem
      \/ \E p \in Requests : Works(p)' /\ run'[p].id = id /\ d = run'[p].mem
      \/ \E p \in Requests : run'[p].pc = "comparing" /\ run'[p].id = id /\ d = run'[p].new
  BY DEF Copies
<1> QED
  BY <1>1, <1>2, <1>3, <1>4, <1>5

Derived(d, e) ==
  d.script = e.script /\ d.cut = e.cut /\ d.documents \subseteq e.documents

\* Where a copy comes from: another one, or what a handler made.
Comes(q, id, d) ==
  \/ \E e \in Copies(id) : Derived(d, e)
  \/ /\ req[q].pc = "attaching" /\ req[q].id = id /\ req'[q].pc = "done"
     /\ d.script = req[q].mem.script /\ d.cut = req[q].mem.cut
     /\ d.documents \subseteq req[q].mem.documents \cup {Ref(<<q, "document">>, "pdf", 1)}
  \/ /\ req[q].pc = "creating" /\ req[q].id = id /\ req'[q].pc = "done"
     /\ d = req[q].doc

\* What handlers change of a document.
LEMMA DocPhase ==
  ASSUME NEW e, IsDoc(e), CasesFine(e), NEW phase \in Phases,
         NEW d, d = [e EXCEPT !.phase = phase]
  PROVE  IsDoc(d) /\ CasesFine(d) /\ SameFiles(d, e) /\ Derived(d, e) /\ d.phase = phase
<1>1. /\ d \in [script : Refs \cup {None}, cut : Refs \cup {None}, documents : SUBSET Refs,
                phase : Phases, cases : {d.cases}, found : {d.found}]
      /\ d.script = e.script /\ d.cut = e.cut /\ d.documents = e.documents
      /\ d.phase = phase /\ d.cases = e.cases /\ d.found = e.found
  BY DEF IsDoc
<1> QED
  BY <1>1 DEF IsDoc, CasesFine, SameFiles, Derived

\* A document whose attachments change is still well formed.
LEMMA DocDocuments ==
  ASSUME NEW e, IsDoc(e), CasesFine(e), NEW F \in SUBSET Refs,
         NEW d, d = [e EXCEPT !.documents = F]
  PROVE  /\ IsDoc(d) /\ CasesFine(d)
         /\ d.script = e.script /\ d.cut = e.cut /\ d.documents = F /\ d.phase = e.phase
<1>1. /\ d \in [script : Refs \cup {None}, cut : Refs \cup {None}, documents : SUBSET Refs,
                phase : Phases, cases : {d.cases}, found : {d.found}]
      /\ d.script = e.script /\ d.cut = e.cut /\ d.documents = F
      /\ d.phase = e.phase /\ d.cases = e.cases /\ d.found = e.found
  BY DEF IsDoc
<1> QED
  BY <1>1 DEF IsDoc, CasesFine

\* A document that gets its cases is still well formed.
LEMMA DocCases ==
  ASSUME NEW e, IsDoc(e), NEW found, NEW cases, NEW d,
         EachCandidateOnce(found.script, found.cut, cases), SpansFit(cases, Duration),
         \A c \in ToSet(cases) : c.kind \in Relationships,
         d = [e EXCEPT !.phase = "researching", !.found = found, !.cases = cases]
  PROVE  /\ IsDoc(d) /\ CasesFine(d) /\ SameFiles(d, e) /\ Derived(d, e)
         /\ d.phase = "researching"
<1>1. /\ d \in [script : Refs \cup {None}, cut : Refs \cup {None}, documents : SUBSET Refs,
                phase : Phases, cases : {d.cases}, found : {d.found}]
      /\ d.script = e.script /\ d.cut = e.cut /\ d.documents = e.documents
      /\ d.phase = "researching" /\ d.cases = cases /\ d.found = found
  BY DEF IsDoc, Phases
<1> QED
  BY <1>1 DEF IsDoc, CasesFine, SameFiles, Derived

\* What is saved for a production.
LEMMA SavedComes ==
  ASSUME Typed, CopiesWell, NEW q \in Requests, Step(q),
         NEW id \in Productions, docs'[id] # docs[id], Present(docs'[id])
  PROVE  IsDoc(docs'[id]) /\ CasesFine(docs'[id]) /\ Comes(q, id, docs'[id])
<1> DEFINE d == docs'[id]
<1>0. /\ Loads(q) => /\ req[q].id \in Productions /\ req[q].mem \in Copies(req[q].id)
                     /\ IsDoc(req[q].mem) /\ CasesFine(req[q].mem)
      /\ Works(q) => /\ run[q].id \in Productions /\ run[q].mem \in Copies(run[q].id)
                     /\ IsDoc(run[q].mem) /\ CasesFine(run[q].mem)
      /\ run[q].pc = "comparing" =>
           /\ run[q].new \in Copies(run[q].id) /\ IsDoc(run[q].new) /\ CasesFine(run[q].new)
  BY MemIsCopy DEF CopiesWell, Well, Works
<1>1. CASE SaveProduction(q) \/ CreationFails(q)
  <2>1. IsCreation(q, req[q]) /\ req[q].id \in Productions /\ req[q].pc = "creating"
    BY <1>1, OnItsWay DEF SaveProduction, CreationFails
  <2>2. docs' = [docs EXCEPT ![req[q].id] = req[q].doc] /\ req'[q].pc = "done"
    BY <1>1, AnsweredTyped DEF SaveProduction, CreationFails, Saves, Idle
  <2>3. id = req[q].id /\ d = req[q].doc
    BY <2>1, <2>2 DEF Typed
  <2> QED
    BY <2>1, <2>2, <2>3 DEF IsCreation, Comes
<1>2. CASE SaveDocument(q)
  <2> DEFINE ref == Ref(<<q, "document">>, "pdf", 1)
             F == req[q].mem.documents \cup {ref}
  <2>1. /\ req[q].pc = "attaching" /\ req'[q].pc = "done"
        /\ Saves(req[q].id, req[q].mem, [req[q].mem EXCEPT !.documents = F])
    BY <1>2, AnsweredTyped DEF SaveDocument, Idle
  <2>2. IsDoc(req[q].mem) /\ CasesFine(req[q].mem) /\ req[q].id \in Productions
    BY <1>0, <2>1 DEF Loads
  <2>3. ref \in Refs
    BY RefFits DEF Keys, Slots
  <2>4. F \in SUBSET Refs
    BY <2>2, <2>3 DEF IsDoc
  <2> HIDE DEF F
  <2>5. id = req[q].id /\ d = [req[q].mem EXCEPT !.documents = F]
    BY <2>1, <2>2, SavedTyped
  <2> HIDE DEF d
  <2>6. /\ IsDoc(d) /\ CasesFine(d)
        /\ d.script = req[q].mem.script /\ d.cut = req[q].mem.cut /\ d.documents = F
    BY <2>2, <2>4, <2>5, DocDocuments
  <2> QED
    BY <2>1, <2>5, <2>6 DEF Comes, F, d
<1>3. CASE SaveRemoval(q)
  <2> DEFINE F == {f \in req[q].mem.documents : f.key \notin req[q].gone}
  <2>1. req[q].pc = "deleting" /\ IsDoc(req[q].mem) /\ CasesFine(req[q].mem)
        /\ req[q].id \in Productions /\ req[q].mem \in Copies(req[q].id)
    BY <1>0, <1>3 DEF Loads, SaveRemoval
  <2>2. \/ Saves(req[q].id, req[q].mem, NoProduction)
        \/ Saves(req[q].id, req[q].mem, [req[q].mem EXCEPT !.documents = F])
    BY <1>3 DEF SaveRemoval
  <2> HIDE DEF F
  <2>3. id = req[q].id /\ (d = NoProduction \/ d = [req[q].mem EXCEPT !.documents = F])
    BY <2>1, <2>2, SavedTyped
  <2>4. d = [req[q].mem EXCEPT !.documents = F]
    BY <2>3 DEF Present, NoProduction
  <2>5. F \in SUBSET Refs /\ F \subseteq req[q].mem.documents
    BY <2>1 DEF F, IsDoc
  <2> HIDE DEF d
  <2>6. /\ IsDoc(d) /\ CasesFine(d)
        /\ d.script = req[q].mem.script /\ d.cut = req[q].mem.cut /\ d.documents = F
    BY <2>1, <2>4, <2>5, DocDocuments
  <2> QED
    BY <2>1, <2>3, <2>5, <2>6 DEF Comes, Derived, d
<1>4. CASE Announce(q) \/ (ReadSources(q) /\ ~UNCHANGED docs)
  <2>1. /\ Works(q) /\ \E phase \in Phases :
             Saves(run[q].id, run[q].mem, [run[q].mem EXCEPT !.phase = phase])
    BY <1>4 DEF Announce, ReadSources, Works, Phases
  <2>2. PICK phase \in Phases : id = run[q].id /\ d = [run[q].mem EXCEPT !.phase = phase]
    BY <1>0, <2>1, SavedTyped
  <2> HIDE DEF d
  <2>3. IsDoc(d) /\ CasesFine(d) /\ Derived(d, run[q].mem)
    BY <1>0, <2>1, <2>2, DocPhase
  <2> QED
    BY <1>0, <2>1, <2>2, <2>3 DEF Comes, d
<1>5. CASE SaveCases(q)
  <2>1. id = run[q].id /\ d = run[q].new
    BY <1>0, <1>5, SavedTyped DEF SaveCases, Works
  <2> QED
    BY <1>0, <1>5, <2>1 DEF Comes, SaveCases, Derived
<1>6. CASE UNCHANGED docs
  BY <1>6
<1>7. CASE \E op \in Ops : Receive(q, op)
  BY <1>6, <1>7 DEF Receive, Open, ReadSession, Verify, Preflight, Attach, Detach,
                    RemoveProject
<1>8. CASE \/ Complete(q) \/ CompleteFails(q) \/ HeadObject(q) \/ CloseSession(q)
           \/ StoreFile(q) \/ StoreDocument(q) \/ DeleteFile(q) \/ DeleteSwallowed(q)
           \/ Vanish(q)
  BY <1>6, <1>8 DEF Complete, CompleteFails, HeadObject, CloseSession, StoreFile,
                    StoreDocument, DeleteFile, DeleteSwallowed, Vanish
<1>9. CASE LoadRun(q) \/ PutObject(q) \/ Expire(q)
  BY <1>6, <1>9 DEF LoadRun, PutObject, Expire
<1> QED
  BY <1>1, <1>2, <1>3, <1>4, <1>5, <1>6, <1>7, <1>8, <1>9 DEF Step, Continue, Analyse

\* What a handler loads is stored.
LEMMA LoadedIsCopy ==
  ASSUME Typed, NEW q \in Requests, Step(q), req'[q] # req[q], Loads(q)'
  PROVE  req'[q].mem \in Copies(req'[q].id)
<1>1. CASE \E op \in Ops : Receive(q, op)
  <2>1. PICK op \in Ops : Receive(q, op)
    BY <1>1
  <2>2. CASE Attach(q, op) \/ Detach(q, op) \/ RemoveProject(q, op)
    <3>1. op.id \in Productions
      BY <2>2, Asked DEF Attach, Detach, RemoveProject
    <3>2. \/ Answer(q)
          \/ /\ Present(docs[op.id])
             /\ \E r : Moves(q, r) /\ r.id = op.id /\ r.mem = docs[op.id]
      BY <2>2 DEF Attach, Detach, RemoveProject
    <3>3. ~Answer(q)
      BY AnsweredTyped DEF Loads, Idle
    <3>4. Present(docs[op.id]) /\ req'[q].id = op.id /\ req'[q].mem = docs[op.id]
      BY <3>2, <3>3, Moved
    <3> QED
      BY <3>1, <3>4 DEF Copies
  <2>3. CASE \/ Open(q, op) \/ ReadSession(q, op) \/ Verify(q, op) \/ Preflight(q, op)
    <3>1. \/ Answer(q)
          \/ \E r : Moves(q, r) /\ r.pc \in {"heading", "completing", "creating"}
      BY <2>3 DEF Open, ReadSession, Verify, Preflight
    <3>2. ~Loads(q)'
      BY <3>1, AnsweredTyped, Moved DEF Loads, Idle
    <3> QED
      BY <3>2
  <2> QED
    BY <2>1, <2>2, <2>3 DEF Receive
<1>2. CASE DeleteFile(q) \/ DeleteSwallowed(q)
  <2>1. PICK key : Moves(q, [req[q] EXCEPT !.left = @ \ {key}])
    BY <1>2 DEF DeleteFile, DeleteSwallowed
  <2>2. req[q].pc = "deleting" /\ IsRemoval(req[q])
    BY <1>2, OnItsWay DEF DeleteFile, DeleteSwallowed
  <2>3. req'[q].id = req[q].id /\ req'[q].mem = req[q].mem
    BY <2>1, <2>2, Moved DEF IsRemoval
  <2> QED
    BY <2>2, <2>3, MemIsCopy DEF Loads
<1>3. CASE \/ CompleteFails(q) \/ CloseSession(q) \/ SaveProduction(q) \/ CreationFails(q)
           \/ SaveDocument(q) \/ SaveRemoval(q) \/ Vanish(q)
  BY <1>3, AnsweredTyped DEF Loads, Idle, CompleteFails, CloseSession, SaveProduction,
     CreationFails, SaveDocument, SaveRemoval, Vanish
<1>4. CASE Complete(q) \/ HeadObject(q) \/ StoreFile(q)
  <2>1. CASE Complete(q)
    <3>1. IsSession(req[q]) /\ req[q].pc = "completing"
      BY <2>1, OnItsWay DEF Complete
    <3>2. [req[q] EXCEPT !.pc = "heading"].pc = "heading"
      BY <3>1 DEF IsSession
    <3> QED
      BY <2>1, <3>2, Moved DEF Complete, Loads
  <2>2. CASE HeadObject(q)
    BY <2>2, Moved, AnsweredTyped DEF HeadObject, Loads, Idle
  <2>3. CASE StoreFile(q)
    <3>1. PICK r : Moves(q, r) /\ r.pc = "creating"
      BY <2>3, StoreFileMoves
    <3>2. req'[q].pc = "creating"
      BY <3>1, Moved
    <3> QED
      BY <3>2 DEF Loads
  <2> QED
    BY <1>4, <2>1, <2>2, <2>3
<1>5. CASE Analyse(q) \/ StoreDocument(q) \/ PutObject(q) \/ Expire(q)
  BY <1>5 DEF Analyse, LoadRun, Announce, ReadSources, SaveCases, StoreDocument,
              PutObject, Expire
<1> QED
  BY <1>1, <1>2, <1>3, <1>4, <1>5 DEF Step, Continue

\* What the analysis works on comes from what is stored.
LEMMA ReadComes ==
  ASSUME Typed, CopiesWell, NEW q \in Requests, Step(q), NEW id \in Productions, NEW d,
         run'[q] # run[q], Works(q)', run'[q].id = id,
         d = run'[q].mem \/ (run'[q].pc = "comparing" /\ d = run'[q].new)
  PROVE  IsDoc(d) /\ CasesFine(d) /\ Comes(q, id, d)
<1>0. \A e \in Copies(id) : IsDoc(e) /\ CasesFine(e) /\ Derived(e, e)
  BY DEF CopiesWell, Well, Derived
<1>1. Works(q) => run[q].id \in Productions /\ run[q].mem \in Copies(run[q].id)
  BY MemIsCopy
<1>2. CASE LoadRun(q)
  <2>1. run[q].id \in Productions
    BY <1>2 DEF LoadRun, Typed, IsRun, NoRun
  <2>2. Present(docs[run[q].id]) /\ run'[q] = [pc |-> "announcing", id |-> run[q].id,
                                             mem |-> docs[run[q].id]]
    BY <1>2 DEF LoadRun, Typed, Works, NoRun
  <2>3. d = docs[id] /\ d \in Copies(id)
    BY <2>1, <2>2 DEF Copies
  <2> QED
    BY <1>0, <2>3 DEF Comes
<1>3. CASE Announce(q)
  <2>1. /\ Works(q)
        /\ run'[q] = [pc |-> "reading", id |-> run[q].id,
                      mem |-> [run[q].mem EXCEPT !.phase = "scanning"]]
    BY <1>3 DEF Announce, Typed, Works
  <2>2. id = run[q].id /\ d = [run[q].mem EXCEPT !.phase = "scanning"]
    BY <2>1
  <2>3. run[q].mem \in Copies(id) /\ "scanning" \in Phases
    BY <1>1, <2>1, <2>2 DEF Phases
  <2>4. IsDoc(d) /\ CasesFine(d) /\ Derived(d, run[q].mem)
    BY <1>0, <2>2, <2>3, DocPhase
  <2> QED
    BY <2>3, <2>4 DEF Comes
<1>4. CASE ReadSources(q)
  <2>1. Works(q) /\ Readable(run[q].mem)
    <3>1. Works(q)
      BY <1>4 DEF ReadSources, Works
    <3>2. ASSUME ~Readable(run[q].mem)
          PROVE  FALSE
      <4>1. run' = [run EXCEPT ![q] = NoRun]
        BY <1>4, <3>2 DEF ReadSources
      <4> QED
        BY <4>1 DEF Typed, Works, NoRun
    <3> QED
      BY <3>1, <3>2
  <2>2. PICK s \in ScriptScans, c \in CutScans, m \in Matchings :
          LET found == [script |-> IF run[q].mem.script # None THEN s ELSE << >>,
                        cut    |-> IF run[q].mem.cut # None THEN c ELSE << >>]
          IN  run' = [run EXCEPT ![q] =
                [pc |-> "comparing", id |-> run[q].id, mem |-> run[q].mem,
                 new |-> [run[q].mem EXCEPT !.phase = "researching", !.found = found,
                            !.cases = CasesOf(found, m)]]]
    BY <1>4, <2>1 DEF ReadSources
  <2> DEFINE found == [script |-> IF run[q].mem.script # None THEN s ELSE << >>,
                       cut    |-> IF run[q].mem.cut # None THEN c ELSE << >>]
             cases == CasesOf(found, m)
             new == [run[q].mem EXCEPT !.phase = "researching", !.found = found,
                       !.cases = cases]
  <2>3. /\ found.script \in ScriptScans \cup {<< >>} /\ found.cut \in CutScans \cup {<< >>}
    OBVIOUS
  <2>4. run'[q] = [pc |-> "comparing", id |-> run[q].id, mem |-> run[q].mem, new |-> new]
    BY <2>2 DEF Typed
  <2>5. cases = ReconcileStage(found.script, found.cut, m, Duration)
    BY DEF CasesOf
  <2> HIDE DEF found, cases
  <2>6. /\ EachCandidateOnce(found.script, found.cut, cases) /\ SpansFit(cases, Duration)
        /\ \A item \in ToSet(cases) : item.kind \in Relationships
    BY <2>3, <2>5, CasesOfFine
  <2>7. new = [run[q].mem EXCEPT !.phase = "researching", !.found = found, !.cases = cases]
    OBVIOUS
  <2> HIDE DEF new
  <2>8. id = run[q].id /\ run[q].mem \in Copies(id) /\ (d = run[q].mem \/ d = new)
    BY <1>1, <2>1, <2>4
  <2>9. IsDoc(new) /\ CasesFine(new) /\ Derived(new, run[q].mem)
    BY <1>0, <2>6, <2>7, <2>8, DocCases
  <2> QED
    BY <1>0, <2>8, <2>9 DEF Comes
<1>5. CASE SaveCases(q)
  BY <1>5 DEF SaveCases, Typed, Works, NoRun
<1>6. CASE SaveProduction(q)
  BY <1>6 DEF SaveProduction, Typed, Works
<1>7. CASE UNCHANGED run
  BY <1>7
<1>8. CASE \E op \in Ops : Receive(q, op)
  BY <1>7, <1>8 DEF Receive, Open, ReadSession, Verify, Preflight, Attach, Detach,
                    RemoveProject
<1>9. CASE \/ Complete(q) \/ CompleteFails(q) \/ HeadObject(q) \/ CloseSession(q)
           \/ StoreFile(q) \/ StoreDocument(q) \/ DeleteFile(q) \/ DeleteSwallowed(q)
           \/ CreationFails(q) \/ SaveDocument(q) \/ SaveRemoval(q) \/ Vanish(q)
           \/ PutObject(q) \/ Expire(q)
  BY <1>7, <1>9 DEF Complete, CompleteFails, HeadObject, CloseSession, StoreFile,
     StoreDocument, DeleteFile, DeleteSwallowed, CreationFails, SaveDocument, SaveRemoval,
     Vanish, PutObject, Expire
<1> QED
  BY <1>2, <1>3, <1>4, <1>5, <1>6, <1>7, <1>8, <1>9 DEF Step, Continue, Analyse

\* Every copy after a step comes from a copy before it.
LEMMA StepComes ==
  ASSUME Typed, CopiesWell, NEW q \in Requests, Step(q),
         NEW id \in Productions, NEW d \in Copies(id)'
  PROVE  IsDoc(d) /\ CasesFine(d) /\ Comes(q, id, d)
<1>0. \A e \in Copies(id) : IsDoc(e) /\ CasesFine(e)
  BY DEF CopiesWell, Well
<1>1. \A e \in Copies(id) : Derived(e, e)
  BY DEF Derived
<1>2. CASE d \in Copies(id)
  BY <1>0, <1>1, <1>2 DEF Comes
<1>3. CASE d = docs'[id] /\ docs'[id] # docs[id] /\ Present(d)
  BY <1>3, SavedComes
<1>4. CASE req'[q] # req[q] /\ Loads(q)' /\ req'[q].id = id /\ d = req'[q].mem
  <2>1. d \in Copies(id)
    BY <1>4, LoadedIsCopy
  <2> QED
    BY <1>0, <1>1, <2>1 DEF Comes
<1>5. CASE /\ run'[q] # run[q] /\ Works(q)' /\ run'[q].id = id
           /\ d = run'[q].mem \/ (run'[q].pc = "comparing" /\ d = run'[q].new)
  BY <1>5, ReadComes
<1> QED
  BY <1>2, <1>3, <1>4, <1>5, Steps, CopiesAfter

---------------------------------------------------------------------------
(***************************************************************************)
(* Copies stay as they should be                                           *)
(***************************************************************************)
LEMMA KeyOfRef ==
  ASSUME NEW f \in Refs
  PROVE  f.key \in Keys /\ f.key[1] \in Requests /\ f.etag \in Nat \ {0}
  BY DEF Refs, Keys

\* A file named at its home key stays there across a step.
LEMMA HomeStays ==
  ASSUME Typed, NEW q \in Requests, Step(q), SessionsStay, ObjectsStay,
         NEW id \in Productions, NEW f \in Refs, NEW slot, Home(id, f, slot)
  PROVE  Home(id, f, slot)'
<1>1. f.key \in Keys /\ f.key[1] \in Requests
  BY KeyOfRef
<1>2. req'[f.key[1]].pc = "done" /\ f.key[2] = slot
  BY <1>1, Steps DEF Home
<1>3. CASE id = Cloud
  BY <1>1, <1>2, <1>3 DEF Home, Signed, SessionsStay
<1>4. CASE id # Cloud
  <2>1. f.key[1] = id /\ sessions[id] = None /\ Faithful(f) /\ id \in Requests
    BY <1>1, <1>4 DEF Home
  <2>2. sessions'[id] = None
    BY <1>2, <2>1 DEF SessionsStay, Home
  <2>3. objects'[f.key] \in {objects[f.key], None}
    BY <1>1, <2>1 DEF ObjectsStay, Home, Signed
  <2>4. Faithful(f)'
    BY <2>1, <2>3 DEF Faithful, Has
  <2> QED
    BY <1>2, <1>4, <2>1, <2>2, <2>4 DEF Home
<1> QED
  BY <1>3, <1>4

\* A creation ends by saving, failing or vanishing: it writes no object then.
LEMMA CreationEnds ==
  ASSUME Typed, NEW q \in Requests, Step(q), req[q].pc = "creating", req'[q].pc = "done"
  PROVE  \A k \in Keys : objects'[k] \in {objects[k], None}
<1>1. CASE SaveProduction(q) \/ CreationFails(q) \/ Vanish(q)
  BY <1>1 DEF SaveProduction, CreationFails, Vanish, Without
<1>2. ~StoreFile(q)
  <2>1. ASSUME StoreFile(q) PROVE FALSE
    <3>1. PICK r : Moves(q, r) /\ r.pc = "creating"
      BY <2>1, StoreFileMoves
    <3> QED
      BY <3>1, Moved
  <2> QED
    BY <2>1
<1>3. CASE Analyse(q) \/ PutObject(q) \/ Expire(q)
  BY <1>3 DEF Analyse, LoadRun, Announce, ReadSources, SaveCases, PutObject, Expire
<1>4. CASE \/ Complete(q) \/ CompleteFails(q) \/ HeadObject(q) \/ CloseSession(q)
           \/ StoreDocument(q) \/ SaveDocument(q)
           \/ DeleteFile(q) \/ DeleteSwallowed(q) \/ SaveRemoval(q)
  BY <1>4 DEF Complete, CompleteFails, HeadObject, CloseSession, StoreDocument,
              SaveDocument, DeleteFile, DeleteSwallowed, SaveRemoval
<1>5. CASE \E op \in Ops : Receive(q, op)
  BY <1>5 DEF Receive, Open, ReadSession, Verify, Preflight, Attach, Detach, RemoveProject
<1> QED
  BY <1>1, <1>2, <1>3, <1>4, <1>5 DEF Step, Continue

\* The files a creation names are at their home once it is saved.
LEMMA CreatedWell ==
  ASSUME Typed, NEW q \in Requests, Begun(q), Step(q), SessionsStay, ObjectsStay,
         req[q].pc = "creating", req'[q].pc = "done",
         NEW id, NEW f, NEW slot \in Sources,
         req[q].id = id, req[q].doc[slot] = f, f # None
  PROVE  Home(id, f, slot)'
<1>1. IsCreation(q, req[q])
  BY OnItsWay
<1>2. f \in Refs
  BY <1>1 DEF IsCreation, IsDoc, Sources
<1>3. CASE req[q].mine
  <2>1. id = q /\ q # Cloud
    BY <1>1, <1>3, IntakeAssumption DEF IsCreation, IsPost, IsAssets
  <2>2. f.key = <<q, slot>> /\ Faithful(f) /\ sessions[q] = None
    BY <1>3 DEF Begun, Posting
  <2>3. sessions'[q] = None
    BY <2>2 DEF SessionsStay
  <2>4. objects'[f.key] \in {objects[f.key], None}
    BY <1>2, CreationEnds, KeyOfRef
  <2>5. Faithful(f)'
    BY <2>2, <2>4 DEF Faithful, Has
  <2> QED
    BY <2>1, <2>2, <2>3, <2>5 DEF Home
<1>4. CASE ~req[q].mine
  <2>1. id = Cloud
    BY <1>1, <1>4 DEF IsCreation, IsPost, IsAssets
  <2>2. Home(Cloud, f, slot)
    BY <1>4 DEF Begun
  <2> QED
    BY <1>2, <2>1, <2>2, HomeStays DEF Productions
<1> QED
  BY <1>3, <1>4

\* A step keeps every copy well formed.
LEMMA StepWell ==
  ASSUME Typed, CopiesWell, NEW q \in Requests, Begun(q), Step(q), SessionsStay, ObjectsStay
  PROVE  CopiesWell'
<1> SUFFICES ASSUME NEW id \in Productions, NEW d \in Copies(id)'
             PROVE  Well(id, d)'
  BY DEF CopiesWell
<1> USE DEF Productions
<1>0. IsDoc(d) /\ CasesFine(d) /\ Comes(q, id, d)
  BY StepComes
<1>1. \A e \in Copies(id) : Well(id, e)
  BY DEF CopiesWell
<1>2. ASSUME NEW e \in Copies(id), d.script = e.script, d.cut = e.cut
      PROVE  /\ d.script # None => Home(id, d.script, "script")'
             /\ d.cut # None => Home(id, d.cut, "cut")'
             /\ \A f \in e.documents : f.key[2] = "document" /\ req'[f.key[1]].pc = "done"
  <2>1. Well(id, e) /\ IsDoc(e)
    BY <1>1, <1>2 DEF Well
  <2>2. \A f \in e.documents : f.key[2] = "document" /\ req'[f.key[1]].pc = "done"
    <3> SUFFICES ASSUME NEW f \in e.documents
                 PROVE  f.key[2] = "document" /\ req'[f.key[1]].pc = "done"
      OBVIOUS
    <3>1. f \in Refs /\ f.key[2] = "document" /\ req[f.key[1]].pc = "done"
      BY <2>1 DEF Well, IsDoc
    <3> QED
      BY <3>1, KeyOfRef, Steps
  <2>3. d.script # None => Home(id, d.script, "script")'
    BY <1>2, <2>1, HomeStays DEF Well, IsDoc
  <2>4. d.cut # None => Home(id, d.cut, "cut")'
    BY <1>2, <2>1, HomeStays DEF Well, IsDoc
  <2> QED
    BY <2>2, <2>3, <2>4
<1>3. ASSUME NEW e \in Copies(id), Derived(d, e)
      PROVE  Well(id, d)'
  BY <1>0, <1>2, <1>3 DEF Derived, Well
<1>4. CASE /\ req[q].pc = "attaching" /\ req[q].id = id /\ req'[q].pc = "done"
           /\ d.script = req[q].mem.script /\ d.cut = req[q].mem.cut
           /\ d.documents \subseteq req[q].mem.documents \cup {Ref(<<q, "document">>, "pdf", 1)}
  <2>1. req[q].mem \in Copies(id)
    BY <1>4, MemIsCopy DEF Loads
  <2>2. LET f == Ref(<<q, "document">>, "pdf", 1)
        IN  f.key[2] = "document" /\ f.key[1] = q
    BY DEF Ref
  <2> QED
    BY <1>0, <1>2, <1>4, <2>1, <2>2 DEF Well
<1>5. CASE /\ req[q].pc = "creating" /\ req[q].id = id /\ req'[q].pc = "done"
           /\ d = req[q].doc
  <2>1. d.documents = {}
    BY <1>5, OnItsWay DEF IsCreation
  <2>2. d["script"] = d.script /\ d["cut"] = d.cut
    OBVIOUS
  <2>3. /\ d.script # None => Home(id, d.script, "script")'
        /\ d.cut # None => Home(id, d.cut, "cut")'
    BY <1>5, <2>2, CreatedWell DEF Sources
  <2> QED
    BY <1>0, <2>1, <2>3 DEF Well
<1> QED
  BY <1>0, <1>3, <1>4, <1>5 DEF Comes

\* Where a document's file comes from.
LEMMA DocumentComes ==
  ASSUME Typed, CopiesWell, NEW q \in Requests, Step(q),
         NEW id \in Productions, NEW d \in Copies(id)', NEW f \in d.documents
  PROVE  \/ \E e \in Copies(id) : f \in e.documents
         \/ req[q].pc = "attaching" /\ req[q].id = id /\ f.key = <<q, "document">>
<1>1. Comes(q, id, d)
  BY StepComes
<1>2. req[q].pc = "attaching" => req[q].mem \in Copies(req[q].id)
  BY MemIsCopy DEF Loads
<1>3. req[q].pc = "creating" => req[q].doc.documents = {}
  BY OnItsWay DEF IsCreation
<1>4. Ref(<<q, "document">>, "pdf", 1).key = <<q, "document">>
  BY DEF Ref
<1> QED
  BY <1>1, <1>2, <1>3, <1>4 DEF Comes, Derived

\* A step keeps two productions from naming one key.
LEMMA StepApart ==
  ASSUME Typed, CopiesWell, Apart, NEW q \in Requests, Step(q)
  PROVE  Apart'
<1> SUFFICES ASSUME NEW i \in Productions, NEW j \in Productions,
                    NEW d \in Copies(i)', NEW e \in Copies(j)',
                    NEW f \in d.documents, NEW g \in e.documents, f.key = g.key
             PROVE  i = j
  BY DEF Apart
<1>1. \A id \in Productions : \A c \in Copies(id) : \A h \in c.documents :
        req[h.key[1]].pc = "done"
  BY DEF CopiesWell, Well
<1>2. <<q, "document">>[1] = q
  OBVIOUS
<1> QED
  BY <1>1, <1>2, DocumentComes DEF Apart

---------------------------------------------------------------------------
(***************************************************************************)
(* Handlers on their way stay as they should be                            *)
(***************************************************************************)
\* A production's files are those of requests that have ended.
LEMMA OwnedDone ==
  ASSUME NEW id, NEW d, Well(id, d), NEW key \in Owned(d)
  PROVE  key \in Keys /\ req[key[1]].pc = "done"
<1>1. PICK f \in FilesOf(d) : key = f.key
  BY DEF Owned
<1>2. f \in Refs /\ req[f.key[1]].pc = "done"
  BY <1>1 DEF Well, IsDoc, Home, FilesOf
<1> QED
  BY <1>1, <1>2, KeyOfRef

\* A removal deletes only keys of requests that have answered.
LEMMA RemovalDone ==
  ASSUME Typed, CopiesWell, NEW q \in Requests, req[q].pc = "deleting", NEW key \in req[q].gone
  PROVE  key \in Keys /\ req[key[1]].pc = "done"
<1>1. IsRemoval(req[q]) /\ req[q].mem \in Copies(req[q].id) /\ req[q].id \in Productions
  BY OnItsWay, MemIsCopy DEF Loads
<1>2. Well(req[q].id, req[q].mem) /\ key \in Owned(req[q].mem)
  BY <1>1 DEF CopiesWell, IsRemoval
<1> QED
  BY <1>2, OwnedDone

\* Nobody touches the files of another's handler.
LEMMA OthersFiles ==
  ASSUME Typed, CopiesWell, NEW q \in Requests, Begun(q), Step(q),
         NEW k \in Keys, k[1] # q, sessions[k[1]] = None, req[k[1]].pc # "done"
  PROVE  objects'[k] = objects[k]
<1>0. objects \in [Keys -> Versions \cup {None}]
  BY DEF Typed
<1>1. CASE \E s \in Requests : \E v : /\ sessions[s] # None /\ SessionKey(s) \in Keys
                                  /\ objects' = [objects EXCEPT ![SessionKey(s)] = v]
  <2>1. PICK s, v : /\ s \in Requests /\ sessions[s] # None /\ SessionKey(s) \in Keys
                                 /\ objects' = [objects EXCEPT ![SessionKey(s)] = v]
    BY <1>1
  <2>2. SessionKey(s) # k
    BY <2>1 DEF SessionKey
  <2> QED
    BY <1>0, <2>1, <2>2
<1>2. CASE Complete(q) \/ PutObject(q)
  <2> DEFINE s == IF req[q].pc = "completing" /\ Complete(q) THEN req[q].session ELSE q
  <2>1. /\ s \in Requests /\ sessions[s] \in Sessions /\ sessions[s] # None
    BY <1>2, OnItsWay DEF Complete, PutObject, Begun, Typed
  <2>2. SessionKey(s) \in Keys
    BY <2>1 DEF SessionKey, Keys, Slots, Sessions
  <2>3. \E v : objects' = [objects EXCEPT ![SessionKey(s)] = v]
    BY <1>2 DEF Complete, PutObject
  <2> HIDE DEF s
  <2> QED
    BY <1>1, <2>1, <2>2, <2>3
<1>3. CASE StoreFile(q) \/ StoreDocument(q)
  <2>1. \E slot, v : objects' = [objects EXCEPT ![<<q, slot>>] = v]
    BY <1>3 DEF StoreFile, StoreDocument
  <2>2. \A slot : <<q, slot>> # k
    BY <1>3
  <2> QED
    BY <1>0, <2>1, <2>2
<1>4. CASE CreationFails(q)
  <2>1. k \notin Stored(q)
    <3>1. IsCreation(q, req[q]) /\ req[q].pc = "creating"
      BY <1>4, OnItsWay DEF CreationFails
    <3>2. \A f \in FilesOf(req[q].doc) : req[q].mine => f.key[1] = q
      BY <3>1 DEF IsCreation, Begun, Posting, FilesOf, Sources
    <3> QED
      BY <3>2 DEF Stored
  <2> QED
    BY <1>4, <2>1 DEF CreationFails, Without
<1>5. CASE DeleteFile(q)
  <2>1. PICK key \in req[q].left : objects' = [objects EXCEPT ![key] = None]
    BY <1>5 DEF DeleteFile
  <2>2. key \in req[q].gone /\ req[q].pc = "deleting"
    BY <1>5, <2>1, OnItsWay DEF DeleteFile, IsRemoval
  <2>3. key # k
    BY <2>2, RemovalDone
  <2> QED
    BY <1>0, <2>1, <2>3
<1>6. CASE UNCHANGED objects
  BY <1>6
<1>7. CASE \/ CompleteFails(q) \/ HeadObject(q) \/ CloseSession(q) \/ SaveProduction(q)
           \/ SaveDocument(q) \/ DeleteSwallowed(q) \/ SaveRemoval(q) \/ Vanish(q)
           \/ Analyse(q) \/ Expire(q)
  BY <1>6, <1>7 DEF CompleteFails, HeadObject, CloseSession, SaveProduction, SaveDocument,
     DeleteSwallowed, SaveRemoval, Vanish, Expire,
     Analyse, LoadRun, Announce, ReadSources, SaveCases
<1>8. CASE \E op \in Ops : Receive(q, op)
  BY <1>6, <1>8 DEF Receive, Open, ReadSession, Verify, Preflight, Attach, Detach,
                    RemoveProject
<1> QED
  BY <1>2, <1>3, <1>4, <1>5, <1>6, <1>7, <1>8 DEF Step, Continue

\* Only its own request opens a session.
LEMMA OthersSessions ==
  ASSUME Typed, NEW q \in Requests, Begun(q), Step(q), SessionsStay,
         NEW p \in Requests, p # q, sessions[p] = None
  PROVE  sessions'[p] = None
<1>1. CASE \E op \in Ops : Receive(q, op)
  <2>1. \/ UNCHANGED sessions
        \/ \E r : sessions' = [sessions EXCEPT ![q] = r]
    BY <1>1 DEF Receive, Open, ReadSession, Verify, Preflight, Attach, Detach, RemoveProject
  <2> QED
    BY <2>1 DEF Typed
<1>2. CASE Complete(q) \/ CloseSession(q)
  <2>1. /\ req[q].session # p
        /\ \E r : sessions' = [sessions EXCEPT ![req[q].session] = r]
    BY <1>2 DEF Complete, CloseSession, Begun
  <2> QED
    BY <2>1 DEF Typed
<1>3. CASE Expire(q)
  BY <1>3 DEF Expire, Typed
<1>4. CASE Analyse(q) \/ PutObject(q)
  BY <1>4 DEF Analyse, LoadRun, Announce, ReadSources, SaveCases, PutObject
<1>5. CASE \/ CompleteFails(q) \/ HeadObject(q)
           \/ StoreFile(q) \/ SaveProduction(q) \/ CreationFails(q)
           \/ StoreDocument(q) \/ SaveDocument(q)
           \/ DeleteFile(q) \/ DeleteSwallowed(q) \/ SaveRemoval(q) \/ Vanish(q)
  BY <1>5 DEF CompleteFails, HeadObject, StoreFile, SaveProduction, CreationFails,
     StoreDocument, SaveDocument, DeleteFile, DeleteSwallowed, SaveRemoval, Vanish
<1> QED
  BY <1>1, <1>2, <1>3, <1>4, <1>5 DEF Step, Continue

\* A step of one request keeps what another has begun.
LEMMA OthersBegun ==
  ASSUME Typed, CopiesWell, NEW q \in Requests, Begun(q), Step(q),
         SessionsStay, ObjectsStay, NEW p \in Requests, p # q, Begun(p)
  PROVE  Begun(p)'
<1>1. req'[p] = req[p]
  BY Steps
<1>2. req'[p].pc # "done" => sessions'[p] = None
  BY <1>1, OthersSessions DEF Begun
<1>3. req'[p].pc \in {"completing", "heading", "closing"} => sessions'[req'[p].session] # None
  BY <1>1, OnItsWay DEF Begun, SessionsStay
<1>4. ASSUME req[p].pc # "done", NEW slot \in Slots
      PROVE  objects'[<<p, slot>>] = objects[<<p, slot>>]
  <2> DEFINE k == <<p, slot>>
  <2>1. k \in Keys /\ k[1] = p
    BY DEF Keys
  <2>2. sessions[k[1]] = None
    BY <1>4, <2>1 DEF Begun
  <2> HIDE DEF k
  <2>3. objects'[k] = objects[k]
    BY <1>4, <2>1, <2>2, OthersFiles
  <2> QED
    BY <2>3 DEF k
<1>5. req'[p].pc = "creating" /\ req'[p].mine => Posting(p)'
  <2> SUFFICES ASSUME req[p].pc = "creating", req[p].mine, NEW slot \in Sources,
                      req[p].doc[slot] # None
               PROVE  LET f == req[p].doc[slot]
                      IN  /\ f.key = <<p, slot>> /\ f.etag = 1
                          /\ objects'[f.key] # None /\ objects'[f.key].etag = 1
                          /\ objects'[f.key].file.suffix = f.suffix
                          /\ Accepted(objects'[f.key].file)
    BY <1>1 DEF Posting, Has, Faithful
  <2>1. objects'[<<p, slot>>] = objects[<<p, slot>>]
    BY <1>4 DEF Sources, Slots
  <2> QED
    BY <2>1 DEF Begun, Posting, Has, Faithful
<1>6. ASSUME req'[p].pc = "creating", ~req'[p].mine, NEW slot \in Sources,
             req'[p].doc[slot] # None
      PROVE  Home(Cloud, req[p].doc[slot], slot)'
  <2> DEFINE f == req[p].doc[slot]
  <2>1. req'[p].doc[slot] = f /\ Home(Cloud, f, slot)
    BY <1>1, <1>6 DEF Begun
  <2>2. IsCreation(p, req[p])
    BY <1>1, <1>6, OnItsWay
  <2>3. f \in Refs
    BY <1>1, <1>6, <2>2 DEF IsCreation, IsDoc, Sources
  <2>4. PICK g : g = f
    OBVIOUS
  <2>5. Home(Cloud, g, slot)'
    BY <2>1, <2>3, <2>4, HomeStays DEF Productions
  <2>6. g = f'
    BY <2>1, <2>4
  <2> QED
    BY <2>5, <2>6
<1>7. req'[p].pc = "creating" /\ ~req'[p].mine =>
        (\A slot \in Sources : req[p].doc[slot] # None => Home(Cloud, req[p].doc[slot], slot))'
  BY <1>6
<1>8. /\ req'[p].pc = "new" => \A slot \in Slots : ~Has(<<p, slot>>)'
      /\ req'[p].pc = "attaching" => \A slot \in Sources : ~Has(<<p, slot>>)'
      /\ req'[p].pc = "creating" => \A slot \in Slots : Has(<<p, slot>>)' =>
            slot \in Sources /\ req'[p].mine /\ req'[p].doc[slot] # None
  BY <1>1, <1>4 DEF Begun, Has, Sources, Slots
<1> QED
  BY <1>2, <1>3, <1>5, <1>7, <1>8 DEF Begun

\* A step of a request keeps what it has begun itself.
LEMMA OwnBegun ==
  ASSUME Typed, Typed', CopiesWell, NEW q \in Requests, Step(q), SessionsStay, ObjectsStay,
         \A p \in Requests : Begun(p)
  PROVE  Begun(q)'
<1>0. Begun(q)
  OBVIOUS
<1>1. CASE req'[q].pc \in {"done", "deleting"} /\ (req'[q].pc = "deleting" => UNCHANGED sessions)
  <2>1. req'[q].pc = "deleting" => sessions'[q] = None
    BY <1>0, <1>1, Steps DEF Begun
  <2> QED
    BY <1>1, <2>1 DEF Begun
<1>2. CASE \E op \in Ops : Receive(q, op)
  <2>1. PICK op \in Ops : Receive(q, op)
    BY <1>2
  <2>2. CASE Answer(q)
    BY <1>1, <2>2, AnsweredTyped DEF Idle
  <2>3. CASE ReadSession(q, op) /\ ~Answer(q)
    <3>1. PICK r : /\ Moves(q, r) /\ r.session = op.session /\ r.pc \in {"heading", "completing"}
                   /\ sessions[op.session] # None
      BY <2>3 DEF ReadSession
    <3>2. req'[q] = r /\ UNCHANGED sessions /\ req[q].pc = "new"
      BY <2>3, <3>1, Moved DEF ReadSession
    <3> QED
      BY <1>0, <3>1, <3>2 DEF Begun
  <2>4. CASE Verify(q, op) /\ ~Answer(q)
    <3> DEFINE doc == NewProduction(Uploaded(op.script, "script"), Uploaded(op.cut, "cut"))
    <3>1. PICK r : Moves(q, r) /\ r.pc = "creating" /\ ~r.mine /\ r.doc = doc
      BY <2>4 DEF Verify
    <3>2. /\ req'[q] = r /\ UNCHANGED <<sessions, objects>> /\ req[q].pc = "new"
      BY <2>4, <3>1, Moved DEF Verify
    <3>3. /\ doc["script"] = Uploaded(op.script, "script")
          /\ doc["cut"] = Uploaded(op.cut, "cut")
      BY DEF NewProduction
    <3>4. /\ op.script \in Requests \cup {None} /\ op.cut \in Requests \cup {None}
          /\ op.script # None => Verified(op.script, "script")
          /\ op.cut # None => Verified(op.cut, "cut")
      BY <2>4, Asked DEF Verify
    <3>5. ASSUME NEW s \in Requests \cup {None}, NEW slot \in Sources,
                 s # None => Verified(s, slot), Uploaded(s, slot) # None,
                 NEW f, f = Uploaded(s, slot)
          PROVE  Home(Cloud, f, slot)'
      <4>1. s \in Requests /\ sessions[s] # None /\ sessions[s].slot = slot
        BY <3>5 DEF Uploaded, Verified
      <4>2. f.key = <<s, slot>>
        BY <3>5, <4>1 DEF Uploaded, Ref
      <4>3. s # q /\ req[s].pc = "done"
        BY <1>0, <3>2, <4>1 DEF Begun
      <4> QED
        BY <3>2, <4>1, <4>2, <4>3, Steps DEF Home, Signed
    <3>6. ASSUME NEW slot \in Sources, NEW f, f = doc[slot], f # None
          PROVE  Home(Cloud, f, slot)'
      BY <3>3, <3>4, <3>5, <3>6 DEF Sources
    <3>7. \A slot \in Sources : (req[q].doc[slot] # None => Home(Cloud, req[q].doc[slot], slot))'
      <4> SUFFICES ASSUME NEW slot \in Sources, (req[q].doc[slot] # None)'
                   PROVE  Home(Cloud, req[q].doc[slot], slot)'
        OBVIOUS
      <4>1. PICK f : f = doc[slot]
        OBVIOUS
      <4>2. req'[q].doc[slot] = f
        BY <3>1, <3>2, <4>1
      <4> HIDE DEF doc
      <4>3. Home(Cloud, f, slot)'
        BY <3>6, <4>1, <4>2
      <4> QED
        BY <4>2, <4>3
    <3> QED
      BY <1>0, <3>1, <3>2, <3>7 DEF Begun, Has
  <2>5. CASE Preflight(q, op) /\ ~Answer(q)
    <3>1. PICK r : Moves(q, r) /\ r.pc = "creating" /\ r.mine /\ r.doc = NewProduction(None, None)
      BY <2>5 DEF Preflight
    <3>2. /\ req'[q] = r /\ UNCHANGED <<sessions, objects>> /\ req[q].pc = "new"
      BY <2>5, <3>1, Moved DEF Preflight
    <3>3. \A slot \in Sources : r.doc[slot] = None
      BY <3>1 DEF NewProduction, Sources
    <3> QED
      BY <1>0, <3>1, <3>2, <3>3 DEF Begun, Posting, Has
  <2>6. CASE Attach(q, op) /\ ~Answer(q)
    <3>1. PICK r : Moves(q, r) /\ r.pc = "attaching"
      BY <2>6 DEF Attach
    <3>2. /\ req'[q] = r /\ UNCHANGED <<sessions, objects>> /\ req[q].pc = "new"
      BY <2>6, <3>1, Moved DEF Attach
    <3> QED
      BY <1>0, <3>1, <3>2 DEF Begun, Has, Sources, Slots
  <2>7. CASE (Detach(q, op) \/ RemoveProject(q, op)) /\ ~Answer(q)
    <3>1. (\E r : Moves(q, r) /\ r.pc = "deleting") /\ UNCHANGED sessions
      BY <2>7 DEF Detach, RemoveProject
    <3> QED
      BY <1>1, <3>1, Moved
  <2> QED
    BY <2>1, <2>2, <2>3, <2>4, <2>5, <2>6, <2>7 DEF Receive, Open
<1>3. CASE Complete(q) \/ (HeadObject(q) /\ ~Answer(q))
  <2>1. IsSession(req[q]) /\ sessions[req[q].session] # None /\ req[q].session \in Requests
    BY <1>0, <1>3, OnItsWay DEF Complete, HeadObject, Begun
  <2>2. PICK r : Moves(q, r) /\ r.session = req[q].session /\ r.pc \in {"heading", "closing"}
    <3>1. [req[q] EXCEPT !.pc = "heading"].pc = "heading"
          /\ [req[q] EXCEPT !.pc = "heading"].session = req[q].session
      BY <2>1 DEF IsSession
    <3>2. CASE Complete(q)
      BY <3>1, <3>2 DEF Complete
    <3>3. CASE HeadObject(q) /\ ~Answer(q)
      BY <3>3 DEF HeadObject
    <3> QED
      BY <1>3, <3>2, <3>3
  <2>3. req'[q] = r
    BY <2>2, Moved
  <2>4. sessions[q] = None /\ req[q].pc # "new"
    BY <1>0, <1>3 DEF Begun, Complete, HeadObject
  <2>5. sessions'[q] = None /\ sessions'[r.session] # None
    BY <2>1, <2>2, <2>4 DEF SessionsStay
  <2> QED
    BY <2>2, <2>3, <2>5 DEF Begun
<1>4. CASE StoreFile(q)
  <2>0. PICK slot, file, r : Puts(q, slot, file, r)
    BY <1>4, StoreFileShape
  <2>1. /\ slot \in Sources /\ file \in File
        /\ Accepted(file) /\ <<q, slot>> \in Keys
        /\ Version(file, TRUE, 1) \in Versions
        /\ objects' = [objects EXCEPT ![<<q, slot>>] = Version(file, TRUE, 1)]
        /\ req[q].mine /\ r.mine /\ r.pc = "creating"
        /\ r.doc = [req[q].doc EXCEPT ![slot] = Ref(<<q, slot>>, file.suffix, 1)]
        /\ Moves(q, r)
    BY <2>0 DEF Puts
  <2>2. req'[q] = r /\ UNCHANGED sessions /\ req[q].pc = "creating" /\ IsDoc(req[q].doc)
    BY <1>4, <2>1, Moved, OnItsWay DEF StoreFile, IsCreation
  <2>3. /\ objects'[<<q, slot>>] = Version(file, TRUE, 1)
        /\ \A x \in Slots : x # slot => objects'[<<q, x>>] = objects[<<q, x>>]
    <3>1. \A x \in Slots : <<q, x>> \in Keys /\ (x # slot => <<q, x>> # <<q, slot>>)
      BY DEF Keys
    <3> QED
      BY <2>1, <3>1 DEF Typed
  <2>4. /\ r.doc[slot] = Ref(<<q, slot>>, file.suffix, 1)
        /\ \A x \in Sources : x # slot => r.doc[x] = req[q].doc[x]
    BY <2>1, <2>2 DEF IsDoc, Sources
  <2>5. r.doc[slot] # None
    <3>1. Ref(<<q, slot>>, file.suffix, 1) \in Refs
      BY <1>4, <2>1, RefFits DEF File
    <3> QED
      BY <2>4, <3>1, NoneAssumption
  <2>6. Version(file, TRUE, 1) # None
    BY <2>1, NoneAssumption
  <2>7. Posting(q)'
    <3> SUFFICES ASSUME NEW x \in Sources, r.doc[x] # None
                 PROVE  LET f == r.doc[x]
                        IN  /\ f.key = <<q, x>> /\ f.etag = 1
                            /\ objects'[f.key] # None /\ objects'[f.key].etag = 1
                            /\ objects'[f.key].file.suffix = f.suffix
                            /\ Accepted(objects'[f.key].file)
      BY <2>2 DEF Posting, Has, Faithful
    <3>1. CASE x = slot
      BY <2>1, <2>3, <2>4, <2>6, <3>1 DEF Ref, Version
    <3>2. CASE x # slot
      <4>1. r.doc[x] = req[q].doc[x] /\ objects'[<<q, x>>] = objects[<<q, x>>]
        BY <2>3, <2>4, <3>2 DEF Sources, Slots
      <4>2. Posting(q)
        BY <1>0, <2>1, <2>2 DEF Begun
      <4>3. LET f == req[q].doc[x]
            IN  /\ f.key = <<q, x>> /\ f.etag = 1
                /\ objects[f.key] # None /\ objects[f.key].etag = 1
                /\ objects[f.key].file.suffix = f.suffix
                /\ Accepted(objects[f.key].file)
        BY <4>1, <4>2 DEF Posting, Has, Faithful
      <4> QED
        BY <4>1, <4>3
    <3> QED
      BY <3>1, <3>2
  <2>8. \A x \in Slots : Has(<<q, x>>)' => x \in Sources /\ r.mine /\ r.doc[x] # None
    BY <1>0, <2>1, <2>2, <2>3, <2>4, <2>5 DEF Begun, Has
  <2> QED
    BY <1>0, <2>1, <2>2, <2>7, <2>8 DEF Begun
<1>5. CASE StoreDocument(q)
  <2>1. /\ req'[q].pc = "attaching" /\ req[q].pc = "attaching" /\ UNCHANGED sessions
    BY <1>5 DEF StoreDocument
  <2>2. \E v : objects' = [objects EXCEPT ![<<q, "document">>] = v]
    BY <1>5 DEF StoreDocument
  <2>3. \A slot \in Sources : objects'[<<q, slot>>] = objects[<<q, slot>>]
    <3>1. \A slot \in Sources : <<q, slot>> \in Keys /\ <<q, slot>> # <<q, "document">>
      BY DEF Sources, Slots, Keys
    <3> QED
      BY <2>2, <3>1 DEF Typed
  <2> QED
    BY <1>0, <2>1, <2>3 DEF Begun, Has
<1>6. CASE Analyse(q)
  <2>1. UNCHANGED <<req, objects, sessions>>
    BY <1>6 DEF Analyse, LoadRun, Announce, ReadSources, SaveCases
  <2>2. Posting(q) => Posting(q)'
    BY <2>1 DEF Posting, Has, Faithful
  <2>3. \A f, slot : Home(Cloud, f, slot) => Home(Cloud, f, slot)'
    BY <2>1 DEF Home, Signed, Faithful, Has
  <2>4. \A slot \in Sources : (req[q].doc[slot] # None => Home(Cloud, req[q].doc[slot], slot))
          => (req[q].doc[slot] # None => Home(Cloud, req[q].doc[slot], slot))'
    BY <2>1, <2>3
  <2> QED
    BY <1>0, <2>1, <2>2, <2>4 DEF Begun, Has
<1>7. CASE PutObject(q) \/ Expire(q)
  <2>1. UNCHANGED req /\ sessions[q] # None
    BY <1>7 DEF PutObject, Expire
  <2>2. req'[q].pc = "done"
    BY <1>0, <2>1 DEF Begun
  <2> QED
    BY <1>1, <2>2
<1>8. CASE \/ CompleteFails(q) \/ CloseSession(q) \/ SaveProduction(q) \/ CreationFails(q)
           \/ SaveDocument(q) \/ SaveRemoval(q) \/ Vanish(q) \/ (HeadObject(q) /\ Answer(q))
  <2>1. Answer(q)
    BY <1>8 DEF CompleteFails, CloseSession, SaveProduction, CreationFails, SaveDocument,
                SaveRemoval, Vanish
  <2> QED
    BY <1>1, <2>1, AnsweredTyped DEF Idle
<1>9. CASE DeleteFile(q) \/ DeleteSwallowed(q)
  <2>1. /\ IsRemoval(req[q]) /\ UNCHANGED sessions
        /\ \E key : Moves(q, [req[q] EXCEPT !.left = @ \ {key}])
    BY <1>9, OnItsWay DEF DeleteFile, DeleteSwallowed
  <2>2. req'[q].pc = "deleting"
    BY <2>1, Moved DEF IsRemoval
  <2> QED
    BY <1>1, <2>1, <2>2
<1> QED
  BY <1>2, <1>3, <1>4, <1>5, <1>6, <1>7, <1>8, <1>9 DEF Step, Continue

\* What is known of the past stays known.
LEMMA HistoryGrows ==
  ASSUME Typed, NEW q \in Requests, Step(q)
  PROVE  /\ history.overlaid => history'.overlaid
         /\ history.unsure => history'.unsure
         /\ history.unclean => history'.unclean
         /\ history.overlapped \subseteq history'.overlapped
<1>0. history \in Histories
  BY DEF Typed
<1>1. CASE UNCHANGED history
  BY <1>1
<1>2. CASE \E id, mem, new : Saves(id, mem, new)
  BY <1>0, <1>2 DEF Saves, Histories
<1>3. CASE \E op \in Ops : Receive(q, op)
  BY <1>0, <1>1, <1>3 DEF Histories, Receive, Open, ReadSession, Verify, Preflight, Attach,
                          Detach, RemoveProject
<1>4. CASE CreationFails(q)
  BY <1>0, <1>4 DEF CreationFails, Histories
<1>5. CASE DeleteSwallowed(q) \/ Vanish(q)
  BY <1>0, <1>5 DEF DeleteSwallowed, Vanish, Histories
<1>6. CASE SaveProduction(q) \/ SaveDocument(q) \/ SaveRemoval(q) \/ Announce(q) \/ SaveCases(q)
  BY <1>2, <1>6 DEF SaveProduction, SaveDocument, SaveRemoval, Announce, SaveCases
<1>7. CASE ReadSources(q)
  BY <1>1, <1>2, <1>7 DEF ReadSources
<1>8. CASE \/ Complete(q) \/ CompleteFails(q) \/ HeadObject(q) \/ CloseSession(q)
           \/ StoreFile(q) \/ StoreDocument(q) \/ DeleteFile(q) \/ LoadRun(q)
           \/ PutObject(q) \/ Expire(q)
  BY <1>1, <1>8 DEF Complete, CompleteFails, HeadObject, CloseSession, StoreFile,
     StoreDocument, DeleteFile, LoadRun, PutObject, Expire
<1> QED
  BY <1>3, <1>4, <1>5, <1>6, <1>7, <1>8 DEF Step, Continue, Analyse

\* How a removal begins and goes on.
LEMMA RemovalMoves ==
  ASSUME Typed, NEW q \in Requests, Begun(q), Step(q), req'[q].pc = "deleting"
  PROVE  \/ req[q].pc = "new" /\ req'[q].left = req'[q].gone /\ UNCHANGED <<objects, docs>>
         \/ /\ req[q].pc = "deleting" /\ req'[q].gone = req[q].gone
            /\ req'[q].mem = req[q].mem /\ req'[q].id = req[q].id /\ req'[q].all = req[q].all
            /\ UNCHANGED sessions
            /\ \/ history'.unclean
               \/ UNCHANGED <<objects, req>>
               \/ \E key \in req[q].left : /\ req'[q].left = req[q].left \ {key}
                                           /\ objects' = [objects EXCEPT ![key] = None]
<1>1. CASE \E op \in Ops : Receive(q, op)
  <2>1. PICK op \in Ops : Receive(q, op)
    BY <1>1
  <2>2. ~Answer(q)
    BY AnsweredTyped DEF Idle
  <2>3. req[q].pc = "new" /\ UNCHANGED <<objects, docs>>
    BY <2>1, <2>2 DEF Receive, Open, ReadSession, Verify, Preflight, Attach, Detach, RemoveProject
  <2>4. CASE Detach(q, op) \/ RemoveProject(q, op)
    <3>1. PICK r : Moves(q, r) /\ r.left = r.gone
      BY <2>2, <2>4 DEF Detach, RemoveProject
    <3> QED
      BY <2>3, <3>1, Moved
  <2>5. CASE \/ Open(q, op) \/ ReadSession(q, op) \/ Verify(q, op) \/ Preflight(q, op)
             \/ Attach(q, op)
    <3>1. \E r : Moves(q, r) /\ r.pc # "deleting"
      BY <2>2, <2>5 DEF Open, ReadSession, Verify, Preflight, Attach
    <3> QED
      BY <3>1, Moved
  <2> QED
    BY <2>1, <2>4, <2>5 DEF Receive
<1>2. CASE DeleteFile(q) \/ DeleteSwallowed(q)
  <2>1. PICK key \in req[q].left : Moves(q, [req[q] EXCEPT !.left = @ \ {key}])
            /\ (history'.unclean \/ objects' = [objects EXCEPT ![key] = None])
    <3>1. history \in Histories
      BY DEF Typed
    <3> QED
      BY <1>2, <3>1 DEF DeleteFile, DeleteSwallowed, Histories
  <2>2. IsRemoval(req[q]) /\ req[q].pc = "deleting" /\ UNCHANGED <<sessions, docs>>
    BY <1>2, OnItsWay DEF DeleteFile, DeleteSwallowed
  <2>3. /\ req'[q].gone = req[q].gone /\ req'[q].mem = req[q].mem /\ req'[q].id = req[q].id
        /\ req'[q].all = req[q].all /\ req'[q].left = req[q].left \ {key}
    BY <2>1, <2>2, Moved DEF IsRemoval
  <2> QED
    BY <2>1, <2>2, <2>3
<1>3. CASE UNCHANGED <<objects, req, sessions>>
  BY <1>3
<1>4. CASE \/ CompleteFails(q) \/ CloseSession(q) \/ SaveProduction(q) \/ CreationFails(q)
           \/ SaveDocument(q) \/ SaveRemoval(q) \/ Vanish(q)
  BY <1>4, AnsweredTyped DEF Idle, CompleteFails, CloseSession, SaveProduction,
     CreationFails, SaveDocument, SaveRemoval, Vanish
<1>5. CASE Complete(q)
  <2>1. IsSession(req[q]) /\ req[q].pc = "completing"
    BY <1>5, OnItsWay DEF Complete
  <2>2. [req[q] EXCEPT !.pc = "heading"].pc = "heading"
    BY <2>1 DEF IsSession
  <2> QED
    BY <1>5, <2>2, Moved DEF Complete
<1>6. CASE HeadObject(q)
  BY <1>6, Moved, AnsweredTyped DEF HeadObject, Idle
<1>7. CASE StoreFile(q)
  <2>1. PICK r : Moves(q, r) /\ r.pc = "creating"
    BY <1>7, StoreFileMoves
  <2> QED
    BY <2>1, Moved
<1>8. CASE StoreDocument(q)
  BY <1>8 DEF StoreDocument
<1>9. CASE PutObject(q) \/ Expire(q) \/ Analyse(q)
  <2>1. ~PutObject(q) /\ ~Expire(q)
    BY Steps DEF PutObject, Expire, Begun
  <2> QED
    BY <1>3, <1>9, <2>1 DEF Analyse, LoadRun, Announce, ReadSources, SaveCases
<1> QED
  BY <1>1, <1>2, <1>4, <1>5, <1>6, <1>7, <1>8, <1>9 DEF Step, Continue

\* A step keeps what a finished removal has deleted.
LEMMA StepDeleted ==
  ASSUME Typed, CopiesWell, NEW q \in Requests, Begun(q), Step(q), SessionsStay, ObjectsStay,
         NEW p \in Requests, Deleted(p)
  PROVE  Deleted(p)'
<1> SUFFICES ASSUME req'[p].pc = "deleting", ~history'.unclean,
                    NEW key \in req'[p].gone \ req'[p].left
             PROVE  ~Has(key)' \/ Signed(key)'
  BY DEF Deleted
<1>0. ~history.unclean
  BY HistoryGrows
<1>1. ASSUME req[p].pc = "deleting", key \in req[p].gone \ req[p].left
      PROVE  ~Has(key)' \/ Signed(key)'
  <2>1. key \in Keys /\ req[key[1]].pc = "done"
    BY <1>1, RemovalDone
  <2>2. ~Has(key) \/ Signed(key)
    BY <1>0, <1>1 DEF Deleted
  <2>3. Signed(key) => Signed(key)'
    BY <2>1 DEF Signed, SessionsStay, Keys
  <2>4. ~Signed(key) => objects'[key] \in {objects[key], None}
    BY <2>1 DEF ObjectsStay
  <2> QED
    BY <2>2, <2>3, <2>4 DEF Has
<1>2. CASE p # q
  BY <1>1, <1>2, Steps
<1>3. CASE p = q
  <2>1. /\ req[q].pc = "deleting" /\ req'[q].gone = req[q].gone
        /\ \/ UNCHANGED <<objects, req>>
           \/ \E k \in req[q].left : /\ req'[q].left = req[q].left \ {k}
                                     /\ objects' = [objects EXCEPT ![k] = None]
    BY <1>3, RemovalMoves
  <2>2. CASE key \in req[q].gone \ req[q].left
    BY <1>1, <1>3, <2>1, <2>2
  <2>3. CASE key \notin req[q].gone \ req[q].left
    <3>1. objects' = [objects EXCEPT ![key] = None]
      BY <1>3, <2>1, <2>3
    <3>2. key \in Keys
      BY <1>3, <2>1, RemovalDone
    <3> QED
      BY <3>1, <3>2 DEF Typed, Has
  <2> QED
    BY <2>2, <2>3
<1> QED
  BY <1>2, <1>3

---------------------------------------------------------------------------
(***************************************************************************)
(* Finalizations                                                           *)
(***************************************************************************)
\* A finalization goes on with its session, or has just read it.
LEMMA FinalizingAfter ==
  ASSUME Typed, NEW q \in Requests, Step(q), NEW p \in Requests, NEW s, Finalizing(p, s)'
  PROVE  \/ Finalizing(p, s)
         \/ /\ p = q /\ req[q].pc = "new" /\ sessions[s] # None /\ sessions[s].etag = None
            /\ UNCHANGED <<sessions, answers>>
            /\ s \in history'.overlapped \/ ~\E r \in Requests : Finalizing(r, s)
<1>0. history \in Histories
  BY DEF Typed
<1>1. CASE p # q \/ UNCHANGED req
  BY <1>1, Steps DEF Finalizing
<1>2. CASE p = q /\ \E op \in Ops : Receive(q, op)
  <2>1. PICK op \in Ops : Receive(q, op)
    BY <1>2
  <2>2. ~Answer(q)
    BY <1>2, AnsweredTyped DEF Idle, Finalizing
  <2>3. CASE ReadSession(q, op)
    <3>1. /\ op.session = s /\ req[q].pc = "new" /\ sessions[s] # None /\ sessions[s].etag = None
      <4>1. \E r : Moves(q, r) /\ r.session = op.session
        BY <2>2, <2>3 DEF ReadSession
      <4>2. op.session = s
        BY <1>2, <4>1, Moved DEF Finalizing
      <4> QED
        BY <2>2, <2>3, <4>2 DEF ReadSession, AnswersAtOnce
    <3>2. UNCHANGED <<sessions, answers>>
      BY <2>3, <3>1 DEF ReadSession, AnswersAtOnce
    <3>3. (\E r \in Requests : Finalizing(r, s)) => s \in history'.overlapped
      <4>1. ASSUME \E r \in Requests : Finalizing(r, s)
            PROVE  history' = [history EXCEPT !.overlapped = @ \cup {s}]
        BY <2>2, <2>3, <3>1, <4>1 DEF ReadSession
      <4> QED
        BY <1>0, <4>1 DEF Histories
    <3> QED
      BY <1>2, <3>1, <3>2, <3>3
  <2>4. CASE \/ Open(q, op) \/ Verify(q, op) \/ Preflight(q, op)
             \/ Attach(q, op) \/ Detach(q, op) \/ RemoveProject(q, op)
    <3>1. \E r : Moves(q, r) /\ r.pc \in {"creating", "attaching", "deleting"}
      BY <2>2, <2>4 DEF Open, Verify, Preflight, Attach, Detach, RemoveProject
    <3> QED
      BY <1>2, <3>1, Moved DEF Finalizing
  <2> QED
    BY <2>1, <2>3, <2>4 DEF Receive
<1>3. CASE p = q /\ (Complete(q) \/ HeadObject(q))
  <2>1. /\ IsSession(req[q]) /\ req[q].pc \in {"completing", "heading"}
    BY <1>3, OnItsWay DEF Complete, HeadObject
  <2>2. req'[q].session = req[q].session
    <3>1. CASE Complete(q)
      <4>1. [req[q] EXCEPT !.pc = "heading"].session = req[q].session
        BY <2>1 DEF IsSession
      <4> QED
        BY <3>1, <4>1, Moved DEF Complete
    <3>2. CASE HeadObject(q)
      <4>1. ~Answer(q)
        BY <1>3, AnsweredTyped DEF Idle, Finalizing
      <4> QED
        BY <3>2, <4>1, Moved DEF HeadObject
    <3> QED
      BY <1>3, <3>1, <3>2
  <2> QED
    BY <1>3, <2>1, <2>2 DEF Finalizing
<1>4. CASE p = q /\ \/ CompleteFails(q) \/ CloseSession(q) \/ SaveProduction(q)
                    \/ CreationFails(q) \/ SaveDocument(q) \/ SaveRemoval(q) \/ Vanish(q)
  BY <1>4, AnsweredTyped DEF Idle, Finalizing, CompleteFails, CloseSession, SaveProduction,
     CreationFails, SaveDocument, SaveRemoval, Vanish
<1>5. CASE p = q /\ StoreFile(q)
  <2>1. PICK r : Moves(q, r) /\ r.pc = "creating"
    BY <1>5, StoreFileMoves
  <2> QED
    BY <1>5, <2>1, Moved DEF Finalizing
<1>6. CASE p = q /\ (DeleteFile(q) \/ DeleteSwallowed(q))
  <2>1. /\ IsRemoval(req[q])
        /\ \E key : Moves(q, [req[q] EXCEPT !.left = @ \ {key}])
    BY <1>6, OnItsWay DEF DeleteFile, DeleteSwallowed
  <2>2. req'[q].pc = "deleting"
    BY <2>1, Moved DEF IsRemoval
  <2> QED
    BY <1>6, <2>2 DEF Finalizing
<1>7. CASE StoreDocument(q) \/ PutObject(q) \/ Expire(q) \/ Analyse(q)
  BY <1>1, <1>7 DEF StoreDocument, PutObject, Expire, Analyse, LoadRun, Announce,
                    ReadSources, SaveCases
<1> QED
  BY <1>1, <1>2, <1>3, <1>4, <1>5, <1>6, <1>7 DEF Step, Continue

\* What a step does to the etag of a session and to the answers about it.
LEMMA ClosingAfter ==
  ASSUME Typed, NEW q \in Requests, Begun(q), Step(q), NEW s \in Requests
  PROVE  \/ /\ \A a \in answers' : a[1] = s =>
                 a \in answers \/ (sessions[s] # None /\ sessions[s].etag = a[2])
            /\ sessions[s] # None => sessions'[s] # None /\ sessions'[s].etag = sessions[s].etag
         \/ /\ Finalizing(q, s) /\ req'[q].pc = "done" /\ UNCHANGED history
            /\ sessions'[s] # None /\ sessions'[s].etag = req[q].etag
            /\ answers' = answers \cup {<<s, req[q].etag>>}
<1>0. sessions \in [Requests -> Sessions \cup {None}] /\ None \notin Sessions
  BY NoneAssumption DEF Typed
<1>1. CASE UNCHANGED <<sessions, answers>>
  BY <1>1
<1>2. CASE \E op \in Ops : Receive(q, op)
  <2>1. PICK op \in Ops : Receive(q, op)
    BY <1>2
  <2>2. CASE Open(q, op)
    <3>1. /\ sessions[q] = None /\ UNCHANGED answers
          /\ \E r : sessions' = [sessions EXCEPT ![q] = r]
      BY <2>2 DEF Open, Begun
    <3> QED
      BY <1>0, <3>1
  <2>3. CASE ReadSession(q, op)
    <3>1. /\ UNCHANGED sessions
          /\ \/ UNCHANGED answers
             \/ /\ sessions[op.session] # None
                /\ answers' = answers \cup {<<op.session, sessions[op.session].etag>>}
      BY <2>3 DEF ReadSession
    <3> QED
      BY <3>1
  <2>4. CASE \/ Verify(q, op) \/ Preflight(q, op)
             \/ Attach(q, op) \/ Detach(q, op) \/ RemoveProject(q, op)
    BY <1>1, <2>4 DEF Verify, Preflight, Attach, Detach, RemoveProject
  <2> QED
    BY <2>1, <2>2, <2>3, <2>4 DEF Receive
<1>3. CASE Complete(q) \/ CloseSession(q)
  <2>1. /\ req[q].session \in Requests /\ sessions[req[q].session] \in Sessions
        /\ sessions[req[q].session] # None /\ req[q].pc \in {"completing", "closing"}
    BY <1>3, OnItsWay DEF Complete, CloseSession, Begun
  <2>2. CASE Complete(q)
    <3>1. /\ UNCHANGED answers
          /\ sessions' = [sessions EXCEPT ![req[q].session] =
                            [sessions[req[q].session] EXCEPT !.parts = "joined"]]
      BY <2>2 DEF Complete
    <3>2. [sessions[req[q].session] EXCEPT !.parts = "joined"].etag
             = sessions[req[q].session].etag
      BY <2>1 DEF Sessions
    <3>3. [sessions[req[q].session] EXCEPT !.parts = "joined"] \in Sessions
      BY <2>1 DEF Sessions
    <3> QED
      BY <1>0, <2>1, <3>1, <3>2, <3>3
  <2>3. CASE CloseSession(q)
    <3> DEFINE r == [sessions[req[q].session] EXCEPT !.etag = req[q].etag]
    <3>1. /\ answers' = answers \cup {<<req[q].session, req[q].etag>>}
          /\ sessions' = [sessions EXCEPT ![req[q].session] = r]
          /\ req'[q].pc = "done" /\ UNCHANGED history
      BY <2>3, AnsweredTyped DEF CloseSession, Idle
    <3>2. r \in Sessions /\ r.etag = req[q].etag
      <4>1. req[q].etag \in Nat \ {0}
        BY <2>1, <2>3, OnItsWay DEF CloseSession, IsSession
      <4> QED
        BY <2>1, <4>1 DEF Sessions
    <3> HIDE DEF r
    <3>3. CASE s = req[q].session
      BY <1>0, <2>1, <3>1, <3>2, <3>3 DEF Finalizing
    <3>4. CASE s # req[q].session
      BY <1>0, <2>1, <3>1, <3>4
    <3> QED
      BY <3>3, <3>4
  <2> QED
    BY <1>3, <2>2, <2>3
<1>4. CASE Expire(q)
  <2>1. /\ sessions[q] \in Sessions /\ UNCHANGED answers
        /\ sessions' = [sessions EXCEPT ![q] = [sessions[q] EXCEPT !.live = FALSE]]
    BY <1>0, <1>4 DEF Expire
  <2>2. /\ [sessions[q] EXCEPT !.live = FALSE].etag = sessions[q].etag
        /\ [sessions[q] EXCEPT !.live = FALSE] \in Sessions
    BY <2>1 DEF Sessions
  <2> QED
    BY <1>0, <2>1, <2>2
<1>5. CASE \/ CompleteFails(q) \/ HeadObject(q)
           \/ StoreFile(q) \/ SaveProduction(q) \/ CreationFails(q)
           \/ StoreDocument(q) \/ SaveDocument(q)
           \/ DeleteFile(q) \/ DeleteSwallowed(q) \/ SaveRemoval(q) \/ Vanish(q)
  BY <1>1, <1>5 DEF CompleteFails, HeadObject, StoreFile, SaveProduction, CreationFails,
     StoreDocument, SaveDocument, DeleteFile, DeleteSwallowed, SaveRemoval, Vanish
<1>6. CASE PutObject(q) \/ Analyse(q)
  BY <1>1, <1>6 DEF PutObject, Analyse, LoadRun, Announce, ReadSources, SaveCases
<1> QED
  BY <1>2, <1>3, <1>4, <1>5, <1>6 DEF Step, Continue

\* A step keeps the one answer a finalisation has.
LEMMA StepSole ==
  ASSUME Typed, NEW q \in Requests, Step(q), SessionsStay,
         \A p \in Requests : Begun(p), NEW s \in Requests, Sole(s)
  PROVE  Sole(s)'
<1> SUFFICES ASSUME s \notin history'.overlapped
             PROVE  /\ \A p \in Requests : Finalizing(p, s)' =>
                         /\ sessions'[s].etag = None
                         /\ \A r \in Requests : Finalizing(r, s)' => p = r
                    /\ \A a \in answers' :
                         a[1] = s => sessions'[s] # None /\ sessions'[s].etag = a[2]
  BY DEF Sole
<1>0. s \notin history.overlapped
  BY HistoryGrows
<1>1. /\ \A p \in Requests : Finalizing(p, s) =>
           /\ sessions[s].etag = None /\ sessions[s] # None
           /\ \A r \in Requests : Finalizing(r, s) => p = r
      /\ \A a \in answers : a[1] = s => sessions[s] # None /\ sessions[s].etag = a[2]
      /\ \A a \in answers : a[2] # None
  BY <1>0, NoneAssumption DEF Sole, Begun, Finalizing, Typed
<1>2. CASE /\ \A a \in answers' : a[1] = s =>
                a \in answers \/ (sessions[s] # None /\ sessions[s].etag = a[2])
           /\ sessions[s] # None => sessions'[s] # None /\ sessions'[s].etag = sessions[s].etag
  <2>1. \A a \in answers' : a[1] = s => sessions'[s] # None /\ sessions'[s].etag = a[2]
    BY <1>1, <1>2
  <2>2. \A p \in Requests : Finalizing(p, s)' => sessions'[s].etag = None
    BY <1>1, <1>2, FinalizingAfter
  <2>3. \A p, r \in Requests : Finalizing(p, s)' /\ Finalizing(r, s)' => p = r
    BY <1>1, FinalizingAfter
  <2> QED
    BY <2>1, <2>2, <2>3
<1>3. CASE /\ Finalizing(q, s) /\ req'[q].pc = "done" /\ UNCHANGED history
           /\ sessions'[s] # None /\ sessions'[s].etag = req[q].etag
           /\ answers' = answers \cup {<<s, req[q].etag>>}
  <2>1. \A p \in Requests : ~Finalizing(p, s)'
    <3>1. ~Finalizing(q, s)'
      BY <1>3 DEF Finalizing
    <3> QED
      BY <1>1, <1>3, <3>1, FinalizingAfter
  <2>2. \A a \in answers : a[1] # s
    BY <1>1, <1>3
  <2> QED
    BY <1>3, <2>1, <2>2
<1> QED
  BY <1>2, <1>3, ClosingAfter

---------------------------------------------------------------------------
(***************************************************************************)
(* Saves, deletions and removals                                           *)
(***************************************************************************)
LEMMA NotOverlaid ==
  ASSUME Typed, NEW id \in Productions, NEW mem, NEW new, Saves(id, mem, new), ~history'.overlaid
  PROVE  docs[id] = mem /\ (Present(new) \/ ~Creating(id))
  BY SavedTyped DEF Overlays

\* What saved a document, if it replaced what it had read.
LEMMA SavedAfter ==
  ASSUME Typed, CopiesWell, NEW q \in Requests, Step(q), ~history'.overlaid,
         NEW id \in Productions, docs'[id] # docs[id]
  PROVE  \/ /\ SaveProduction(q) \/ (CreationFails(q) /\ history'.unsure)
            /\ req[q].pc = "creating" /\ req[q].id = id
            /\ docs[id] = NoProduction /\ docs'[id] = req[q].doc
         \/ /\ SaveDocument(q) /\ req[q].pc = "attaching" /\ req[q].id = id
            /\ docs[id] = req[q].mem /\ IsDoc(docs[id]) /\ IsDoc(docs'[id])
            /\ docs'[id].script = docs[id].script /\ docs'[id].cut = docs[id].cut
            /\ docs'[id].phase = docs[id].phase
            /\ docs'[id].documents = docs[id].documents \cup {Ref(<<q, "document">>, "pdf", 1)}
         \/ /\ SaveRemoval(q) /\ req[q].pc = "deleting" /\ req[q].all /\ req[q].id = id
            /\ docs[id] = req[q].mem /\ docs'[id] = NoProduction /\ ~Creating(id)
         \/ /\ SaveRemoval(q) /\ req[q].pc = "deleting" /\ ~req[q].all /\ req[q].id = id
            /\ docs[id] = req[q].mem /\ IsDoc(docs[id]) /\ IsDoc(docs'[id])
            /\ docs'[id].script = docs[id].script /\ docs'[id].cut = docs[id].cut
            /\ docs'[id].phase = docs[id].phase
            /\ docs'[id].documents = {f \in docs[id].documents : f.key \notin req[q].gone}
         \/ /\ Analyse(q) /\ UNCHANGED <<req, objects, sessions>>
            /\ IsDoc(docs[id]) /\ IsDoc(docs'[id]) /\ SameFiles(docs'[id], docs[id])
            /\ \/ docs'[id].phase \in {"scanning", "researching"}
               \/ docs'[id].phase = "failed" /\ ~Readable(docs[id])
<1>0. /\ Loads(q) => /\ req[q].id \in Productions /\ req[q].mem \in Copies(req[q].id)
                     /\ IsDoc(req[q].mem) /\ CasesFine(req[q].mem)
      /\ Works(q) => /\ run[q].id \in Productions /\ run[q].mem \in Copies(run[q].id)
                     /\ IsDoc(run[q].mem) /\ CasesFine(run[q].mem)
      /\ run[q].pc = "comparing" =>
           /\ run[q].new \in Copies(run[q].id) /\ IsDoc(run[q].new) /\ CasesFine(run[q].new)
  BY MemIsCopy DEF CopiesWell, Well, Works
<1>1. CASE SaveProduction(q)
  <2>1. req[q].id \in Productions /\ req[q].pc = "creating"
    BY <1>1, OnItsWay DEF SaveProduction
  <2>2. Saves(req[q].id, NoProduction, req[q].doc)
    BY <1>1 DEF SaveProduction
  <2>3. id = req[q].id /\ docs'[id] = req[q].doc
    BY <2>1, <2>2, SavedTyped
  <2> QED
    BY <1>1, <2>1, <2>2, <2>3, NotOverlaid
<1>2. CASE CreationFails(q)
  <2>1. req[q].id \in Productions /\ req[q].pc = "creating"
    BY <1>2, OnItsWay DEF CreationFails
  <2>2. /\ docs' = [docs EXCEPT ![req[q].id] = req[q].doc]
        /\ history' = [history EXCEPT !.unsure = TRUE,
             !.overlaid = @ \/ Overlays(req[q].id, NoProduction, req[q].doc)]
    BY <1>2 DEF CreationFails
  <2>3. id = req[q].id /\ docs'[id] = req[q].doc
    BY <2>1, <2>2 DEF Typed
  <2>4. /\ history'.unsure
        /\ history'.overlaid = (history.overlaid \/ Overlays(req[q].id, NoProduction, req[q].doc))
    BY <2>2 DEF Typed, Histories
  <2> QED
    BY <1>2, <2>1, <2>3, <2>4 DEF Overlays
<1>3. CASE SaveDocument(q)
  <2> DEFINE ref == Ref(<<q, "document">>, "pdf", 1)
             F == req[q].mem.documents \cup {ref}
  <2>1. /\ req[q].pc = "attaching"
        /\ Saves(req[q].id, req[q].mem, [req[q].mem EXCEPT !.documents = F])
    BY <1>3 DEF SaveDocument
  <2>2. IsDoc(req[q].mem) /\ CasesFine(req[q].mem) /\ req[q].id \in Productions
    BY <1>0, <2>1 DEF Loads
  <2>3. ref \in Refs
    BY RefFits DEF Keys, Slots
  <2>4. F \in SUBSET Refs
    BY <2>2, <2>3 DEF IsDoc
  <2> HIDE DEF F
  <2>5. id = req[q].id /\ docs'[id] = [req[q].mem EXCEPT !.documents = F]
    BY <2>1, <2>2, SavedTyped
  <2>6. docs[id] = req[q].mem
    BY <2>1, <2>2, <2>5, NotOverlaid
  <2>7. /\ IsDoc(docs'[id]) /\ docs'[id].phase = req[q].mem.phase /\ docs'[id].documents = F
        /\ docs'[id].script = req[q].mem.script /\ docs'[id].cut = req[q].mem.cut
    BY <2>2, <2>4, <2>5, DocDocuments
  <2> QED
    BY <1>3, <2>1, <2>2, <2>5, <2>6, <2>7 DEF F
<1>4. CASE SaveRemoval(q)
  <2> DEFINE F == {f \in req[q].mem.documents : f.key \notin req[q].gone}
  <2>1. /\ req[q].pc = "deleting" /\ IsDoc(req[q].mem) /\ CasesFine(req[q].mem)
        /\ req[q].id \in Productions
    BY <1>0, <1>4 DEF Loads, SaveRemoval
  <2>2. CASE req[q].all
    <3>1. Saves(req[q].id, req[q].mem, NoProduction)
      BY <1>4, <2>2 DEF SaveRemoval
    <3>2. ~Present(NoProduction)
      BY DEF Present, NoProduction
    <3>3. id = req[q].id /\ docs'[id] = NoProduction
      BY <2>1, <3>1, SavedTyped
    <3> QED
      BY <1>4, <2>1, <2>2, <3>1, <3>2, <3>3, NotOverlaid
  <2>3. CASE ~req[q].all
    <3>1. Saves(req[q].id, req[q].mem, [req[q].mem EXCEPT !.documents = F])
      BY <1>4, <2>3 DEF SaveRemoval
    <3>2. F \in SUBSET Refs
      BY <2>1 DEF IsDoc
    <3> HIDE DEF F
    <3>3. id = req[q].id /\ docs'[id] = [req[q].mem EXCEPT !.documents = F]
      BY <2>1, <3>1, SavedTyped
    <3>4. docs[id] = req[q].mem
      BY <2>1, <3>1, <3>3, NotOverlaid
    <3>5. /\ IsDoc(docs'[id]) /\ docs'[id].phase = req[q].mem.phase /\ docs'[id].documents = F
          /\ docs'[id].script = req[q].mem.script /\ docs'[id].cut = req[q].mem.cut
      BY <2>1, <3>2, <3>3, DocDocuments
    <3> QED
      BY <1>4, <2>1, <2>3, <3>3, <3>4, <3>5 DEF F
  <2> QED
    BY <2>2, <2>3
<1>5. CASE Announce(q) \/ (ReadSources(q) /\ ~UNCHANGED docs)
  <2>1. /\ Works(q) /\ UNCHANGED <<req, objects, sessions>>
        /\ \E phase \in {"scanning", "failed"} :
             /\ Saves(run[q].id, run[q].mem, [run[q].mem EXCEPT !.phase = phase])
             /\ phase = "failed" => ~Readable(run[q].mem)
    BY <1>5 DEF Announce, ReadSources, Works
  <2>2. PICK phase \in {"scanning", "failed"} :
             /\ Saves(run[q].id, run[q].mem, [run[q].mem EXCEPT !.phase = phase])
             /\ phase = "failed" => ~Readable(run[q].mem)
    BY <2>1
  <2>3. id = run[q].id /\ docs'[id] = [run[q].mem EXCEPT !.phase = phase]
    BY <1>0, <2>1, <2>2, SavedTyped
  <2>4. docs[id] = run[q].mem
    BY <1>0, <2>1, <2>2, <2>3, NotOverlaid
  <2>5. IsDoc(docs'[id]) /\ SameFiles(docs'[id], run[q].mem) /\ docs'[id].phase = phase
    BY <1>0, <2>1, <2>3, DocPhase DEF Phases
  <2> QED
    BY <1>0, <1>5, <2>1, <2>2, <2>4, <2>5 DEF Analyse
<1>6. CASE SaveCases(q)
  <2>1. /\ run[q].pc = "comparing" /\ Works(q) /\ UNCHANGED <<req, objects, sessions>>
        /\ Saves(run[q].id, run[q].mem, run[q].new)
    BY <1>6 DEF SaveCases, Works
  <2>2. id = run[q].id /\ docs'[id] = run[q].new
    BY <1>0, <2>1, SavedTyped
  <2>3. docs[id] = run[q].mem
    BY <1>0, <2>1, <2>2, NotOverlaid
  <2>4. SameFiles(run[q].new, run[q].mem) /\ run[q].new.phase = "researching"
    BY <2>1 DEF Typed, IsRun, NoRun
  <2> QED
    BY <1>0, <1>6, <2>1, <2>2, <2>3, <2>4 DEF Analyse
<1>7. CASE UNCHANGED docs
  BY <1>7
<1>8. CASE \E op \in Ops : Receive(q, op)
  BY <1>7, <1>8 DEF Receive, Open, ReadSession, Verify, Preflight, Attach, Detach,
                    RemoveProject
<1>9. CASE \/ Complete(q) \/ CompleteFails(q) \/ HeadObject(q) \/ CloseSession(q)
           \/ StoreFile(q) \/ StoreDocument(q) \/ DeleteFile(q) \/ DeleteSwallowed(q)
           \/ Vanish(q) \/ LoadRun(q) \/ PutObject(q) \/ Expire(q)
  BY <1>7, <1>9 DEF Complete, CompleteFails, HeadObject, CloseSession, StoreFile,
     StoreDocument, DeleteFile, DeleteSwallowed, Vanish, LoadRun, PutObject, Expire
<1> QED
  BY <1>1, <1>2, <1>3, <1>4, <1>5, <1>6, <1>7, <1>8, <1>9 DEF Step, Continue, Analyse

\* What deleted an object.
LEMMA Vanished ==
  ASSUME Typed, NEW q \in Requests, Begun(q), Step(q),
         NEW k \in Keys, objects[k] # None, objects'[k] = None
  PROVE  \/ CreationFails(q) /\ k \in Stored(q)
         \/ DeleteFile(q) /\ k \in req[q].left
<1>0. objects \in [Keys -> Versions \cup {None}] /\ None \notin Versions
  BY NoneAssumption DEF Typed
<1>1. CASE CreationFails(q)
  BY <1>1 DEF CreationFails, Without
<1>2. CASE DeleteFile(q)
  <2>1. PICK key \in req[q].left : objects' = [objects EXCEPT ![key] = None]
    BY <1>2 DEF DeleteFile
  <2> QED
    BY <1>0, <1>2, <2>1
<1>3. CASE \E l \in Keys, v \in Versions : objects' = [objects EXCEPT ![l] = v]
  BY <1>0, <1>3
<1>4. CASE Complete(q) \/ PutObject(q)
  <2> DEFINE s == IF req[q].pc = "completing" /\ Complete(q) THEN req[q].session ELSE q
             l == SessionKey(s)
  <2>1. /\ s \in Requests /\ sessions[s] \in Sessions /\ sessions[s] # None
    BY <1>4, OnItsWay DEF Complete, PutObject, Begun, Typed
  <2>2. l \in Keys
    BY <2>1 DEF SessionKey, Keys, Slots, Sessions
  <2>3. PICK whole \in BOOLEAN :
          objects' = [objects EXCEPT ![l] = Version(sessions[s].file, whole, Etag(l))]
    BY <1>4 DEF Complete, PutObject
  <2>4. Version(sessions[s].file, whole, Etag(l)) \in Versions
    BY <2>1, <2>2, EtagFits DEF Version, Versions, Sessions
  <2> HIDE DEF l, s
  <2> QED
    BY <1>3, <2>2, <2>3, <2>4
<1>5. CASE StoreFile(q)
  <2>0. PICK slot, file, r : Puts(q, slot, file, r)
    BY <1>5, StoreFileShape
  <2>1. /\ <<q, slot>> \in Keys /\ Version(file, TRUE, 1) \in Versions
        /\ slot \in Sources /\ file \in File
        /\ objects' = [objects EXCEPT ![<<q, slot>>] = Version(file, TRUE, 1)]
        /\ req[q].mine
    BY <2>0 DEF Puts
  <2> QED
    BY <1>3, <2>1
<1>6. CASE StoreDocument(q)
  <2>1. <<q, "document">> \in Keys
    BY DEF Keys, Slots
  <2> QED
    BY <1>3, <1>6, <2>1, StoreDocumentShape
<1>7. CASE \/ CompleteFails(q) \/ HeadObject(q) \/ CloseSession(q) \/ SaveProduction(q)
           \/ SaveDocument(q) \/ DeleteSwallowed(q) \/ SaveRemoval(q) \/ Vanish(q)
           \/ Analyse(q) \/ Expire(q)
  BY <1>7 DEF CompleteFails, HeadObject, CloseSession, SaveProduction, SaveDocument,
     DeleteSwallowed, SaveRemoval, Vanish, Expire,
     Analyse, LoadRun, Announce, ReadSources, SaveCases
<1>8. CASE \E op \in Ops : Receive(q, op)
  BY <1>8 DEF Receive, Open, ReadSession, Verify, Preflight, Attach, Detach, RemoveProject
<1> QED
  BY <1>1, <1>2, <1>4, <1>5, <1>6, <1>7, <1>8 DEF Step, Continue

\* A removal goes on until it saves, unless it is cut short.
LEMMA TakingStays ==
  ASSUME Typed, NEW q \in Requests, Begun(q), Step(q), ~history'.unclean,
         NEW r \in Requests, NEW k, TakingAway(r, k)
  PROVE  TakingAway(r, k)' \/ (r = q /\ SaveRemoval(q))
<1>1. CASE r # q \/ UNCHANGED req
  BY <1>1, Steps DEF TakingAway
<1>2. CASE DeleteFile(q) \/ DeleteSwallowed(q)
  <2>1. /\ IsRemoval(req[q]) /\ req[q].pc = "deleting"
        /\ \E key : Moves(q, [req[q] EXCEPT !.left = @ \ {key}])
    BY <1>2, OnItsWay DEF DeleteFile, DeleteSwallowed
  <2>2. req'[q].pc = "deleting" /\ req'[q].gone = req[q].gone
    BY <2>1, Moved DEF IsRemoval
  <2> QED
    BY <1>1, <2>2 DEF TakingAway
<1>3. CASE Vanish(q) /\ r = q
  <2>1. history'.unclean
    BY <1>3 DEF Vanish, TakingAway, Typed, Histories
  <2> QED
    BY <2>1
<1>4. CASE r = q /\ ~UNCHANGED req
  <2>1. req[q].pc = "deleting"
    BY <1>4 DEF TakingAway
  <2>2. ~\E op \in Ops : Receive(q, op)
    BY <2>1 DEF Receive, Open, ReadSession, Verify, Preflight, Attach, Detach, RemoveProject
  <2>3. ~\/ Complete(q) \/ CompleteFails(q) \/ HeadObject(q) \/ CloseSession(q)
         \/ StoreFile(q) \/ SaveProduction(q) \/ CreationFails(q)
         \/ StoreDocument(q) \/ SaveDocument(q)
    BY <2>1 DEF Complete, CompleteFails, HeadObject, CloseSession, StoreFile,
                SaveProduction, CreationFails, StoreDocument, SaveDocument
  <2>4. ~(Analyse(q) \/ PutObject(q) \/ Expire(q))
    BY <1>4 DEF Analyse, LoadRun, Announce, ReadSources, SaveCases, PutObject, Expire
  <2> QED
    BY <1>2, <1>3, <1>4, <2>2, <2>3, <2>4 DEF Step, Continue
<1> QED
  BY <1>1, <1>4

---------------------------------------------------------------------------
(***************************************************************************)
(* Files stay where productions look for them                              *)
(***************************************************************************)
\* A document is there.
LEMMA DocPresent ==
  ASSUME NEW d, IsDoc(d)
  PROVE  Present(d) /\ FilesOf(d) \subseteq Refs
  BY DEF IsDoc, Present, Phases, FilesOf

\* Where a file of a copy lies.
LEMMA FilePlace ==
  ASSUME NEW id, NEW d, Well(id, d), NEW f \in FilesOf(d)
  PROVE  /\ f \in Refs /\ f.key \in Keys /\ req[f.key[1]].pc = "done"
         /\ \/ f \in d.documents /\ f.key[2] = "document"
            \/ f.key[2] \in Sources /\ Home(id, f, f.key[2])
<1>1. f \in Refs /\ f.key \in Keys
  BY KeyOfRef DEF Well, IsDoc, FilesOf
<1>2. CASE f \in d.documents
  BY <1>1, <1>2 DEF Well
<1>3. ASSUME NEW slot \in Sources, Home(id, f, slot)
      PROVE  f.key[2] \in Sources /\ Home(id, f, f.key[2]) /\ req[f.key[1]].pc = "done"
  BY <1>3 DEF Home
<1> QED
  BY <1>1, <1>2, <1>3 DEF Well, FilesOf, Sources

\* A file belongs to one production.
LEMMA SameOwner ==
  ASSUME CopiesWell, Apart,
         NEW i \in Productions, NEW d \in Copies(i), NEW f \in FilesOf(d),
         NEW j \in Productions, NEW e \in Copies(j), NEW g \in FilesOf(e), f.key = g.key
  PROVE  i = j
<1>1. Well(i, d) /\ Well(j, e)
  BY DEF CopiesWell
<1>2. CASE f \in d.documents /\ g \in e.documents
  BY <1>2 DEF Apart
<1>3. CASE ~(f \in d.documents /\ g \in e.documents)
  <2>1. Home(i, f, f.key[2]) /\ Home(j, g, g.key[2])
    BY <1>1, <1>3, FilePlace DEF Sources
  <2> QED
    BY <2>1 DEF Home, Signed
<1> QED
  BY <1>2, <1>3

\* What a failing creation deletes is its own.
LEMMA StoredOwn ==
  ASSUME Typed, NEW q \in Requests, Begun(q), req[q].pc = "creating", NEW k \in Stored(q)
  PROVE  req[q].mine /\ \E slot \in Sources : k = <<q, slot>>
<1>1. req[q].mine /\ IsCreation(q, req[q])
  BY OnItsWay DEF Stored
<1>2. \E slot \in Sources : req[q].doc[slot] # None /\ k = req[q].doc[slot].key
  BY <1>1 DEF Stored, FilesOf, IsCreation, IsDoc, Sources
<1> QED
  BY <1>1, <1>2 DEF Begun, Posting

\* A saved document names no file that its removal deleted.
LEMMA Kept ==
  ASSUME Typed, CopiesWell, CopiesWell', Apart, NEW q \in Requests, SaveRemoval(q),
         ~history'.overlaid, NEW id \in Productions, Present(docs'[id]),
         NEW f \in FilesOf(docs'[id])
  PROVE  f.key \notin req[q].gone
<1>1. /\ req[q].pc = "deleting" /\ IsRemoval(req[q]) /\ req[q].id \in Productions
      /\ req[q].mem \in Copies(req[q].id) /\ IsDoc(req[q].mem) /\ CasesFine(req[q].mem)
  BY OnItsWay, MemIsCopy DEF SaveRemoval, Loads, CopiesWell, Well
<1>2. \E new : Saves(req[q].id, req[q].mem, new)
  BY DEF SaveRemoval
<1>3. CASE id # req[q].id
  <2>1. docs'[id] = docs[id] /\ docs[id] \in Copies(id)
    BY <1>1, <1>2, <1>3, SavedTyped DEF Copies
  <2>2. SUFFICES ASSUME f.key \in req[q].gone PROVE FALSE
    OBVIOUS
  <2>3. PICK g \in FilesOf(req[q].mem) : g.key = f.key
    BY <1>1, <2>2 DEF IsRemoval, Owned
  <2> QED
    BY <1>1, <1>3, <2>1, <2>3, SameOwner
<1>4. CASE id = req[q].id
  <2>1. ~req[q].all
    <3>1. ASSUME req[q].all PROVE ~Present(docs'[id])
      <4>1. Saves(req[q].id, req[q].mem, NoProduction)
        BY <3>1 DEF SaveRemoval
      <4>2. docs'[id] = NoProduction
        BY <1>1, <1>4, <4>1, SavedTyped
      <4> QED
        BY <4>2 DEF Present, NoProduction
    <3> QED
      BY <3>1
  <2> DEFINE F == {g \in req[q].mem.documents : g.key \notin req[q].gone}
  <2>2. Saves(req[q].id, req[q].mem, [req[q].mem EXCEPT !.documents = F])
    BY <2>1 DEF SaveRemoval
  <2>3. F \in SUBSET Refs
    BY <1>1 DEF IsDoc
  <2>4. \A g \in F : g.key \notin req[q].gone
    OBVIOUS
  <2> HIDE DEF F
  <2>5. docs'[id] = [req[q].mem EXCEPT !.documents = F]
    BY <1>1, <1>4, <2>2, SavedTyped
  <2>6. docs'[id].documents = F
    BY <1>1, <2>3, <2>5, DocDocuments
  <2>7. docs'[id] \in Copies(id)'
    BY DEF Copies
  <2>8. \A g \in {docs'[id].script, docs'[id].cut} \ {None} : g.key[2] \in Sources
    BY <2>7 DEF CopiesWell, Well, Home, Sources
  <2>9. f \in docs'[id].documents \/ f.key[2] \in Sources
    BY <2>8 DEF FilesOf
  <2> QED
    BY <1>1, <2>1, <2>4, <2>6, <2>9 DEF IsRemoval, Sources
<1> QED
  BY <1>3, <1>4

\* A file stays, or is being taken away.
LEMMA GoodStays ==
  ASSUME Typed, Typed', CopiesWell, NEW q \in Requests, Begun(q), Step(q), ObjectsStay,
         ~history'.unclean, NEW f \in Refs, Good(f),
         f.key[1] # q \/ req[q].pc # "creating",
         ~(SaveRemoval(q) /\ f.key \in req[q].gone)
  PROVE  Good(f)'
<1>1. f.key \in Keys /\ f.etag \in Nat
  BY KeyOfRef
<1>2. ASSUME NEW r \in Requests, TakingAway(r, f.key)
      PROVE  Good(f)'
  <2>1. TakingAway(r, f.key)'
    BY <1>2, TakingStays DEF TakingAway
  <2> QED
    BY <2>1 DEF Good
<1>3. CASE Has(f.key) /\ objects[f.key].etag >= f.etag /\ objects'[f.key] # None
  <2>1. /\ objects[f.key] \in Versions /\ objects'[f.key] \in Versions
        /\ objects'[f.key].etag >= objects[f.key].etag
    BY <1>1, <1>3 DEF Typed, Has, ObjectsStay
  <2>2. objects[f.key].etag \in Nat /\ objects'[f.key].etag \in Nat
    BY <2>1 DEF Versions
  <2>3. objects'[f.key].etag >= f.etag
    BY <1>1, <1>3, <2>1, <2>2
  <2> QED
    BY <1>3, <2>3 DEF Good, Has
<1>4. CASE Has(f.key) /\ objects'[f.key] = None
  <2>1. \/ CreationFails(q) /\ f.key \in Stored(q)
        \/ DeleteFile(q) /\ f.key \in req[q].left
    BY <1>1, <1>4, Vanished DEF Has
  <2>2. ~(CreationFails(q) /\ f.key \in Stored(q))
    <3>1. ASSUME CreationFails(q), f.key \in Stored(q) PROVE FALSE
      <4>1. req[q].pc = "creating"
        BY <3>1 DEF CreationFails
      <4>2. f.key[1] = q
        BY <3>1, <4>1, StoredOwn
      <4> QED
        BY <4>1, <4>2
    <3> QED
      BY <3>1
  <2>3. TakingAway(q, f.key)
    BY <2>1, <2>2, OnItsWay DEF DeleteFile, IsRemoval, TakingAway
  <2> QED
    BY <1>2, <2>3
<1> QED
  BY <1>2, <1>3, <1>4 DEF Good

\* What the files of a saved document are: those it had, or its saver's.
LEMMA SavedFiles ==
  ASSUME Typed, CopiesWell, NEW q \in Requests, Step(q), ~history'.overlaid, ~history'.unsure,
         NEW id \in Productions, docs'[id] # docs[id], Present(docs'[id]),
         NEW f \in FilesOf(docs'[id])
  PROVE  \/ Present(docs[id]) /\ f \in FilesOf(docs[id])
         \/ req[q].pc = "creating" /\ f \in FilesOf(req[q].doc) /\ SaveProduction(q)
         \/ SaveDocument(q) /\ f = Ref(<<q, "document">>, "pdf", 1)
<1>1. \A d : IsDoc(d) => Present(d)
  BY DocPresent
<1>2. ~Present(NoProduction)
  BY DEF Present, NoProduction
<1>3. CASE SaveProduction(q) /\ req[q].pc = "creating" /\ docs'[id] = req[q].doc
  BY <1>3
<1>4. CASE /\ IsDoc(docs[id]) /\ docs'[id].script = docs[id].script
           /\ docs'[id].cut = docs[id].cut /\ docs'[id].documents \subseteq docs[id].documents
  BY <1>1, <1>4 DEF FilesOf
<1>5. CASE /\ SaveDocument(q) /\ IsDoc(docs[id]) /\ docs'[id].script = docs[id].script
           /\ docs'[id].cut = docs[id].cut
           /\ docs'[id].documents = docs[id].documents \cup {Ref(<<q, "document">>, "pdf", 1)}
  BY <1>1, <1>5 DEF FilesOf
<1> QED
  BY <1>2, <1>3, <1>4, <1>5, SavedAfter DEF SameFiles

\* The files of stored productions.
LEMMA StoredGood ==
  ASSUME Typed, Typed', CopiesWell, CopiesWell', Apart, NEW q \in Requests, Begun(q), Step(q),
         ObjectsStay, Calm', FilesGood,
         NEW id \in Productions, Present(docs'[id]), NEW f \in FilesOf(docs'[id])
  PROVE  Good(f)'
<1>0. ~history'.overlaid /\ ~history'.unsure /\ ~history'.unclean
  BY DEF Calm
<1>1. CASE Present(docs[id]) /\ f \in FilesOf(docs[id])
  <2>1. Good(f) /\ docs[id] \in Copies(id)
    BY <1>1 DEF FilesGood, Copies
  <2>2. f \in Refs /\ req[f.key[1]].pc = "done"
    BY <1>1, <2>1, FilePlace DEF CopiesWell
  <2>3. ~(SaveRemoval(q) /\ f.key \in req[q].gone)
    BY <1>0, Kept
  <2> QED
    BY <1>0, <2>1, <2>2, <2>3, GoodStays
<1>2. CASE req[q].pc = "creating" /\ f \in FilesOf(req[q].doc) /\ SaveProduction(q)
  <2>1. Good(f) /\ UNCHANGED objects
    BY <1>2 DEF FilesGood, SaveProduction
  <2>2. \A r \in Requests : TakingAway(r, f.key) => TakingAway(r, f.key)'
    BY <1>0, <1>2, TakingStays DEF SaveRemoval
  <2> QED
    BY <2>1, <2>2 DEF Good, Has
<1>3. CASE SaveDocument(q) /\ f = Ref(<<q, "document">>, "pdf", 1)
  <2>1. f.key = <<q, "document">> /\ f.etag = 1 /\ f.key \in Keys
    BY <1>3 DEF Ref, Keys, Slots
  <2>2. Has(f.key) /\ UNCHANGED objects
    BY <1>3, <2>1 DEF SaveDocument
  <2>3. objects[f.key].etag \in Nat \ {0}
    BY <2>1, <2>2 DEF Has, Typed, Versions
  <2>4. objects[f.key].etag >= 1
    BY <2>3
  <2> QED
    BY <2>1, <2>2, <2>4 DEF Good, Has
<1> QED
  BY <1>0, <1>1, <1>2, <1>3, SavedFiles

\* A creation from uploads begins with files that are there.
LEMMA VerifiedGood ==
  ASSUME Typed, Typed', NEW q \in Requests, Begun(q), Step(q), req'[q].pc = "creating",
         ~req'[q].mine, req'[q] # req[q], NEW f \in FilesOf(req'[q].doc)
  PROVE  Good(f)'
<1>1. PICK op \in Ops : Verify(q, op)
  <2>1. ~(\E op \in Ops : Verify(q, op)) => FALSE
    <3> SUFFICES ASSUME ~(\E op \in Ops : Verify(q, op)) PROVE FALSE
      OBVIOUS
    <3>1. Idle.pc = "done" /\ ~UNCHANGED req
      BY DEF Idle
    <3>2. ~Answer(q)
      BY <3>1, AnsweredTyped
    <3>3. ~\E op \in Ops : Receive(q, op)
      <4> SUFFICES ASSUME NEW op \in Ops, Receive(q, op) PROVE FALSE
        OBVIOUS
      <4>1. \A r : Moves(q, r) => r.pc = "creating" /\ ~r.mine
        BY Moved
      <4>2. ~(Open(q, op) \/ Verify(q, op))
        BY <3>2 DEF Open
      <4>3. ~ReadSession(q, op)
        BY <3>2, <4>1 DEF ReadSession
      <4>4. ~Preflight(q, op)
        BY <3>2, <4>1 DEF Preflight
      <4>5. ~(Attach(q, op) \/ Detach(q, op) \/ RemoveProject(q, op))
        BY <3>2, <4>1 DEF Attach, Detach, RemoveProject
      <4> QED
        BY <4>2, <4>3, <4>4, <4>5 DEF Receive
    <3>4. ~StoreFile(q)
      <4>1. ASSUME StoreFile(q) PROVE FALSE
        <5>1. PICK r : Moves(q, r) /\ r.mine
          BY <4>1, StoreFileMoves
        <5> QED
          BY <5>1, Moved
      <4> QED
        BY <4>1
    <3>5. ~(Complete(q) \/ HeadObject(q))
      <4>1. ASSUME Complete(q) \/ HeadObject(q) PROVE FALSE
        <5>1. IsSession(req[q])
          BY <4>1, OnItsWay DEF Complete, HeadObject
        <5>2. \A r : Moves(q, r) => r.pc = "creating"
          BY Moved
        <5>3. [req[q] EXCEPT !.pc = "heading"].pc = "heading"
          BY <5>1 DEF IsSession
        <5>4. ~Complete(q)
          BY <5>2, <5>3 DEF Complete
        <5>5. ~HeadObject(q)
          BY <3>2, <5>2 DEF HeadObject
        <5> QED
          BY <4>1, <5>4, <5>5
      <4> QED
        BY <4>1
    <3>6. ~(DeleteFile(q) \/ DeleteSwallowed(q))
      <4>1. ASSUME DeleteFile(q) \/ DeleteSwallowed(q) PROVE FALSE
        <5>1. /\ IsRemoval(req[q])
              /\ \E key : Moves(q, [req[q] EXCEPT !.left = @ \ {key}])
          BY <4>1, OnItsWay DEF DeleteFile, DeleteSwallowed
        <5>2. req'[q].pc = "deleting"
          BY <5>1, Moved DEF IsRemoval
        <5> QED
          BY <5>2
      <4> QED
        BY <4>1
    <3>7. ~(StoreDocument(q) \/ Analyse(q) \/ PutObject(q) \/ Expire(q))
      BY <3>1 DEF StoreDocument, Analyse, LoadRun, Announce, ReadSources, SaveCases,
                  PutObject, Expire
    <3> QED
      BY <3>2, <3>3, <3>4, <3>5, <3>6, <3>7 DEF Step, Continue, CompleteFails, CloseSession,
         SaveProduction, CreationFails, SaveDocument, SaveRemoval, Vanish
  <2> QED
    BY <2>1
<1>2. Moves(q, [pc |-> "creating", id |-> Cloud, left |-> << >>, mine |-> FALSE,
                doc |-> NewProduction(Uploaded(op.script, "script"), Uploaded(op.cut, "cut"))])
  BY <1>1, AnsweredTyped DEF Verify, Idle
<1>3. req'[q].doc = NewProduction(Uploaded(op.script, "script"), Uploaded(op.cut, "cut"))
  BY <1>2, Moved
<1>4. \E s \in Requests, slot \in Sources :
        Has(<<s, slot>>) /\ f = Ref(<<s, slot>>, "", objects[<<s, slot>>].etag)
  <2>1. /\ op.script \in Requests \cup {None} /\ op.cut \in Requests \cup {None}
        /\ op.script # None => Has(<<op.script, "script">>)
        /\ op.cut # None => Has(<<op.cut, "cut">>)
    BY <1>1, <1>2, Asked, AnsweredTyped DEF Verify, Idle
  <2>2. f \in {Uploaded(op.script, "script"), Uploaded(op.cut, "cut")} \ {None}
    BY <1>3 DEF FilesOf, NewProduction
  <2> QED
    BY <2>1, <2>2 DEF Uploaded, Sources
<1>5. PICK s \in Requests, slot \in Sources :
        Has(<<s, slot>>) /\ f = Ref(<<s, slot>>, "", objects[<<s, slot>>].etag)
  BY <1>4
<1>6. /\ f.key = <<s, slot>> /\ f.etag = objects[<<s, slot>>].etag /\ <<s, slot>> \in Keys
      /\ UNCHANGED objects
  BY <1>1, <1>5 DEF Ref, Keys, Slots, Sources, Verify
<1>7. objects[<<s, slot>>].etag \in Nat
  BY <1>5, <1>6 DEF Typed, Has, Versions
<1>8. objects[<<s, slot>>].etag >= f.etag
  BY <1>6, <1>7
<1>9. Has(f.key)' /\ objects'[f.key].etag >= f.etag
  BY <1>5, <1>6, <1>8 DEF Has
<1> QED
  BY <1>9 DEF Good

\* The files of creations on their way.
LEMMA CreationsGood ==
  ASSUME Typed, Typed', CopiesWell, NEW q \in Requests, Begun(q), Step(q),
         ObjectsStay, Calm', FilesGood, \A p \in Requests : Begun(p)',
         NEW p \in Requests, Begun(p), req'[p].pc = "creating", NEW f \in FilesOf(req'[p].doc)
  PROVE  Good(f)'
<1>0. /\ ~history'.overlaid /\ ~history'.unsure /\ ~history'.unclean
      /\ IsCreation(p, req'[p])
  BY OnItsWay DEF Calm, Typed, IsReq, IsSession, IsAttach, IsRemoval, Idle
<1>1. \E slot \in Sources : f = req'[p].doc[slot] /\ f # None
  BY <1>0 DEF IsCreation, IsDoc, FilesOf, Sources
<1>2. PICK slot \in Sources : f = req'[p].doc[slot] /\ f # None
  BY <1>1
<1>3. CASE req'[p].mine
  <2>1. /\ objects'[f.key] # None /\ objects'[f.key].etag = 1 /\ f.etag = 1
    BY <1>2, <1>3 DEF Begun, Posting, Has
  <2> QED
    BY <2>1 DEF Good, Has
<1>4. CASE ~req'[p].mine /\ req'[p] # req[p]
  BY <1>4, Steps, VerifiedGood
<1>5. CASE ~req'[p].mine /\ req'[p] = req[p]
  <2>1. Home(Cloud, f, slot) /\ f.key[2] \in Sources /\ req[f.key[1]].pc = "done" /\ Signed(f.key)
    BY <1>2, <1>5 DEF Begun, Home
  <2>2. f \in Refs /\ Good(f)
    BY <1>0, <1>2, <1>5 DEF IsCreation, IsDoc, Sources, FilesGood
  <2>3. ~(SaveRemoval(q) /\ f.key \in req[q].gone)
    <3> SUFFICES ASSUME SaveRemoval(q), f.key \in req[q].gone PROVE FALSE
      OBVIOUS
    <3>1. /\ req[q].pc = "deleting" /\ IsRemoval(req[q]) /\ req[q].id \in Productions
          /\ req[q].mem \in Copies(req[q].id) /\ Well(req[q].id, req[q].mem)
      BY OnItsWay, MemIsCopy DEF SaveRemoval, Loads, CopiesWell
    <3>2. req[q].all /\ f.key \in Owned(req[q].mem)
      BY <2>1, <3>1 DEF IsRemoval, Sources
    <3>3. PICK g \in FilesOf(req[q].mem) : g.key = f.key
      BY <3>2 DEF Owned
    <3>4. Home(req[q].id, g, g.key[2])
      BY <2>1, <3>1, <3>3, FilePlace DEF Sources
    <3>5. req[q].id = Cloud
      BY <2>1, <3>3, <3>4 DEF Home, Signed
    <3>6. Saves(req[q].id, req[q].mem, NoProduction) /\ ~Present(NoProduction)
      BY <3>2 DEF SaveRemoval, Present, NoProduction
    <3>7. ~Creating(Cloud)
      BY <1>0, <3>1, <3>5, <3>6, NotOverlaid
    <3>8. IsAssets(req[p])
      BY <1>0, <1>5 DEF IsCreation, IsPost
    <3> QED
      BY <1>5, <3>7, <3>8 DEF Creating, IsAssets
  <2>4. f.key[1] # q \/ req[q].pc # "creating"
    BY <2>1
  <2> QED
    BY <1>0, <2>2, <2>3, <2>4, GoodStays
<1> QED
  BY <1>3, <1>4, <1>5

\* A step keeps every named file at the version its document records.
LEMMA StepFilesGood ==
  ASSUME Typed, Typed', CopiesWell, CopiesWell', Apart, NEW q \in Requests, Step(q),
         ObjectsStay, Calm', FilesGood, \A p \in Requests : Begun(p),
         \A p \in Requests : Begun(p)'
  PROVE  FilesGood'
<1>1. \A id \in Productions : Present(docs'[id]) => \A f \in FilesOf(docs'[id]) : Good(f)'
  BY StoredGood
<1>2. \A p \in Requests : req'[p].pc = "creating" => \A f \in FilesOf(req'[p].doc) : Good(f)'
  BY CreationsGood
<1> QED
  BY <1>1, <1>2 DEF FilesGood, Present, FilesOf

\* What the analysis cannot read.
LEMMA Unreadable ==
  ASSUME Typed, CopiesWell, FilesGood, NEW id \in Requests, Present(docs[id]), ~Readable(docs[id])
  PROVE  FailedFor(docs[id])
<1> DEFINE d == docs[id]
<1>1. d \in Copies(id) /\ id \in Productions /\ Well(id, d) /\ IsDoc(d) /\ id # Cloud
  BY IntakeAssumption DEF CopiesWell, Copies, Productions, Well
<1>2. ASSUME NEW f \in {d.script, d.cut} \ {None}, ~Has(f.key)
      PROVE  FailedFor(d)
  <2>1. Good(f)
    BY <1>1, <1>2 DEF FilesGood, FilesOf
  <2> QED
    BY <1>2, <2>1 DEF Good, FailedFor
<1>3. ASSUME d.script # None, Has(d.script.key),
             ~Parses([objects[d.script.key].file EXCEPT !.suffix = d.script.suffix])
      PROVE  FailedFor(d)
  <2> DEFINE file == objects[d.script.key].file
  <2>1. Faithful(d.script) /\ d.script.key \in Keys
    BY <1>1, <1>3, KeyOfRef DEF Well, Home, IsDoc
  <2>2. file \in File /\ file.suffix = d.script.suffix /\ Accepted(file)
    BY <1>3, <2>1 DEF Faithful, Has, Typed, Versions
  <2>3. [file EXCEPT !.suffix = file.suffix] = file
    BY <2>2 DEF File
  <2>4. ~Parses(file)
    BY <1>3, <2>2, <2>3
  <2>5. KindOf(file) = "cut"
    BY <2>2, <2>4 DEF Accepted
  <2>6. file.suffix = "video"
    BY <2>5 DEF KindOf
  <2> QED
    BY <1>3, <2>2, <2>6 DEF FailedFor
<1> QED
  BY <1>2, <1>3 DEF Readable

\* Failures.
LEMMA StepFailures ==
  ASSUME Typed, Typed', CopiesWell, CopiesWell', Apart, NEW q \in Requests, Step(q), Begun(q),
         Calm', FilesGood, FailuresExplained
  PROVE  FailuresExplained'
<1> DEFINE Explained(d) ==
             \/ d.script # None /\ d.script.suffix = "video"
             \/ \E r \in Requests, f \in {d.script, d.cut} \ {None} : TakingAway(r, f.key)'
<1> SUFFICES ASSUME NEW id \in Requests, docs'[id].phase = "failed"
             PROVE  Explained(docs'[id])
  BY DEF FailuresExplained, FailedFor
<1>0. /\ ~history'.overlaid /\ ~history'.unsure /\ ~history'.unclean
      /\ id \in Productions /\ Present(docs'[id])
  BY DEF Calm, Productions, Present
<1>1. ASSUME docs[id].phase = "failed",
             docs'[id].script = docs[id].script, docs'[id].cut = docs[id].cut
      PROVE  Explained(docs'[id])
  <2>1. FailedFor(docs[id])
    BY <1>1 DEF FailuresExplained
  <2>2. ASSUME NEW r \in Requests, NEW f \in {docs[id].script, docs[id].cut} \ {None},
               TakingAway(r, f.key)
        PROVE  TakingAway(r, f.key)'
    <3>1. f \in FilesOf(docs'[id])
      BY <1>1, <2>2 DEF FilesOf
    <3>2. ~(SaveRemoval(q) /\ f.key \in req[q].gone)
      BY <1>0, <3>1, Kept
    <3> QED
      BY <1>0, <2>2, <3>2, TakingStays DEF TakingAway
  <2> QED
    BY <1>1, <2>1, <2>2 DEF FailedFor
<1>2. CASE docs'[id] = docs[id]
  BY <1>1, <1>2
<1>3. CASE req[q].pc = "creating" /\ docs'[id] = req[q].doc
  BY <1>3, OnItsWay DEF IsCreation
<1>4. CASE docs'[id] = NoProduction
  BY <1>4 DEF NoProduction
<1>5. CASE /\ UNCHANGED <<req, objects, sessions>> /\ IsDoc(docs[id])
           /\ SameFiles(docs'[id], docs[id]) /\ ~Readable(docs[id])
  <2>1. FailedFor(docs[id])
    BY <1>5, Unreadable, DocPresent
  <2> QED
    BY <1>5, <2>1 DEF FailedFor, TakingAway, SameFiles
<1> QED
  BY <1>0, <1>1, <1>2, <1>3, <1>4, <1>5, SavedAfter

---------------------------------------------------------------------------
(***************************************************************************)
(* No orphans                                                              *)
(***************************************************************************)
\* What a step writes.
LEMMA Written ==
  ASSUME Typed, NEW q \in Requests, Begun(q), Step(q),
         NEW k \in Keys, objects'[k] # objects[k], objects'[k] # None
  PROVE  Signed(k) \/ (k[1] = q /\ req'[q].pc \in {"creating", "attaching"})
<1>0. objects \in [Keys -> Versions \cup {None}]
  BY DEF Typed
<1>1. CASE CreationFails(q)
  BY <1>1 DEF CreationFails, Without
<1>2. CASE DeleteFile(q)
  <2>1. PICK key \in req[q].left : objects' = [objects EXCEPT ![key] = None]
    BY <1>2 DEF DeleteFile
  <2> QED
    BY <1>0, <2>1
<1>3. CASE Complete(q)
  <2>1. PICK v : objects' = [objects EXCEPT ![SessionKey(req[q].session)] = v]
    BY <1>3 DEF Complete
  <2>2. k = SessionKey(req[q].session) /\ sessions[req[q].session] # None
    BY <1>0, <1>3, <2>1 DEF Begun, Complete
  <2> QED
    BY <2>2 DEF SessionKey, Signed
<1>4. CASE PutObject(q)
  <2>1. PICK v : objects' = [objects EXCEPT ![SessionKey(q)] = v]
    BY <1>4 DEF PutObject
  <2>2. k = SessionKey(q) /\ sessions[q] # None
    BY <1>0, <1>4, <2>1 DEF PutObject
  <2> QED
    BY <2>2 DEF SessionKey, Signed
<1>5. CASE StoreFile(q)
  <2>0. PICK slot, file, r : Puts(q, slot, file, r)
    BY <1>5, StoreFileShape
  <2>1. /\ slot \in Sources /\ file \in File
        /\ Accepted(file) /\ <<q, slot>> \in Keys
        /\ Version(file, TRUE, 1) \in Versions
        /\ objects' = [objects EXCEPT ![<<q, slot>>] = Version(file, TRUE, 1)]
        /\ r.pc = "creating" /\ Moves(q, r)
    BY <2>0 DEF Puts
  <2>2. req'[q].pc = "creating"
    BY <2>1, Moved
  <2>3. k = <<q, slot>>
    BY <1>0, <2>1
  <2> QED
    BY <2>2, <2>3
<1>6. CASE StoreDocument(q)
  <2>1. PICK v : objects' = [objects EXCEPT ![<<q, "document">>] = v]
    BY <1>6 DEF StoreDocument
  <2>2. k = <<q, "document">>
    BY <1>0, <2>1
  <2> QED
    BY <1>6, <2>2 DEF StoreDocument
<1>7. CASE \/ CompleteFails(q) \/ HeadObject(q) \/ CloseSession(q) \/ SaveProduction(q)
           \/ SaveDocument(q) \/ DeleteSwallowed(q) \/ SaveRemoval(q) \/ Vanish(q)
           \/ Analyse(q) \/ Expire(q)
  BY <1>7 DEF CompleteFails, HeadObject, CloseSession, SaveProduction, SaveDocument,
     DeleteSwallowed, SaveRemoval, Vanish, Expire,
     Analyse, LoadRun, Announce, ReadSources, SaveCases
<1>8. CASE \E op \in Ops : Receive(q, op)
  BY <1>8 DEF Receive, Open, ReadSession, Verify, Preflight, Attach, Detach, RemoveProject
<1> QED
  BY <1>1, <1>2, <1>3, <1>4, <1>5, <1>6, <1>7, <1>8 DEF Step, Continue

\* How a handler that stores files ends.
LEMMA StoringEnds ==
  ASSUME Typed, NEW q \in Requests, Begun(q), Step(q), ~history'.unclean,
         req[q].pc \in {"creating", "attaching"}, req'[q].pc \notin {"creating", "attaching"}
  PROVE  SaveProduction(q) \/ CreationFails(q) \/ SaveDocument(q)
<1>1. ~\E op \in Ops : Receive(q, op)
  BY DEF Receive, Open, ReadSession, Verify, Preflight, Attach, Detach, RemoveProject
<1>2. ~(Complete(q) \/ CompleteFails(q) \/ HeadObject(q) \/ CloseSession(q)
        \/ DeleteFile(q) \/ DeleteSwallowed(q) \/ SaveRemoval(q))
  BY DEF Complete, CompleteFails, HeadObject, CloseSession, DeleteFile, DeleteSwallowed,
         SaveRemoval
<1>3. ~StoreFile(q)
  <2>1. ASSUME StoreFile(q) PROVE FALSE
    <3>1. PICK r : Moves(q, r) /\ r.pc = "creating"
      BY <2>1, StoreFileMoves
    <3> QED
      BY <3>1, Moved
  <2> QED
    BY <2>1
<1>4. ~(StoreDocument(q) \/ Analyse(q) \/ PutObject(q) \/ Expire(q))
  BY DEF StoreDocument, Analyse, LoadRun, Announce, ReadSources, SaveCases, PutObject, Expire
<1>5. ~Vanish(q)
  BY DEF Vanish, Typed, Histories
<1> QED
  BY <1>1, <1>2, <1>3, <1>4, <1>5 DEF Step, Continue

\* Where an object belongs, as NoOrphans says.
Belongs(key) ==
  \/ \E id \in Productions : Present(docs[id]) /\ key \in Owned(docs[id])
  \/ Signed(key)
  \/ req[key[1]].pc \in {"creating", "attaching"}
  \/ \E r \in Requests : TakingAway(r, key)

\* An object of a stored production is still a production's, or a session's.
LEMMA OwnedStays ==
  ASSUME Typed, CopiesWell, NEW q \in Requests, Step(q), SessionsStay, Deleted(q),
         ~history'.overlaid, ~history'.unclean, ~history.unclean,
         NEW key \in Keys, Has(key), NEW id \in Productions, Present(docs[id]),
         key \in Owned(docs[id])
  PROVE  (Present(docs'[id]) /\ key \in Owned(docs'[id])) \/ Signed(key)
<1>0. ~Present(NoProduction) /\ \A d : IsDoc(d) => Present(d)
  BY DocPresent DEF Present, NoProduction
<1>1. CASE docs'[id] = docs[id]
  BY <1>1
<1>2. CASE /\ SaveRemoval(q) /\ req[q].pc = "deleting" /\ key \in req[q].gone
  <2>1. req[q].left = {} /\ key \in req[q].gone \ req[q].left
    BY <1>2 DEF SaveRemoval
  <2> QED
    BY <1>2, <2>1 DEF Deleted
<1>3. CASE /\ SaveRemoval(q) /\ req[q].pc = "deleting" /\ req[q].all /\ docs[id] = req[q].mem
  <2>1. req[q].gone = Owned(docs[id])
    BY <1>3, OnItsWay DEF IsRemoval
  <2> QED
    BY <1>2, <1>3, <2>1
<1>4. CASE /\ SaveRemoval(q) /\ req[q].pc = "deleting" /\ IsDoc(docs'[id])
           /\ docs'[id].script = docs[id].script /\ docs'[id].cut = docs[id].cut
           /\ docs'[id].documents = {f \in docs[id].documents : f.key \notin req[q].gone}
  BY <1>0, <1>2, <1>4 DEF Owned, FilesOf
<1>5. CASE /\ IsDoc(docs'[id]) /\ docs'[id].script = docs[id].script
           /\ docs'[id].cut = docs[id].cut /\ docs[id].documents \subseteq docs'[id].documents
  BY <1>0, <1>5 DEF Owned, FilesOf
<1>6. CASE docs[id] = NoProduction
  BY <1>0, <1>6
<1> QED
  BY <1>1, <1>3, <1>4, <1>5, <1>6, SavedAfter DEF SameFiles

\* A creation that is saved names what it stored; so does an attachment.
LEMMA StoredIsOwned ==
  ASSUME Typed, CopiesWell, NEW q \in Requests, Begun(q), Step(q), ~history'.unclean,
         NEW key \in Keys, Has(key), objects'[key] # None, key[1] = q,
         req[q].pc \in {"creating", "attaching"}, req'[q].pc \notin {"creating", "attaching"}
  PROVE  \E id \in Productions : Present(docs'[id]) /\ key \in Owned(docs'[id])
<1>1. \E slot \in Slots : key = <<q, slot>>
  BY DEF Keys
<1>2. PICK slot \in Slots : key = <<q, slot>>
  BY <1>1
<1>3. CASE req[q].pc = "creating"
  <2>1. IsCreation(q, req[q]) /\ req[q].id \in Productions
    BY <1>3, OnItsWay
  <2>2. slot \in Sources /\ req[q].mine /\ req[q].doc[slot] # None /\ Posting(q)
    BY <1>2, <1>3 DEF Begun
  <2>3. req[q].doc[slot].key = key
    BY <1>2, <2>2 DEF Posting
  <2>4. key \in Owned(req[q].doc) /\ key \in Stored(q) /\ Present(req[q].doc)
    BY <2>1, <2>2, <2>3, DocPresent DEF IsCreation, Owned, Stored, FilesOf, Sources
  <2>5. ~CreationFails(q)
    BY <2>4 DEF CreationFails, Without
  <2>6. ~SaveDocument(q)
    BY <1>3 DEF SaveDocument
  <2>7. SaveProduction(q)
    BY <2>5, <2>6, StoringEnds
  <2>8. docs'[req[q].id] = req[q].doc
    BY <2>1, <2>7, SavedTyped DEF SaveProduction
  <2> QED
    BY <2>1, <2>4, <2>8
<1>4. CASE req[q].pc = "attaching"
  <2> DEFINE ref == Ref(<<q, "document">>, "pdf", 1)
             F == req[q].mem.documents \cup {ref}
  <2>1. /\ req[q].id \in Productions /\ req[q].mem \in Copies(req[q].id)
        /\ IsDoc(req[q].mem) /\ CasesFine(req[q].mem)
    BY <1>4, MemIsCopy DEF Loads, CopiesWell, Well
  <2>2. key = <<q, "document">>
    BY <1>2, <1>4 DEF Begun, Slots, Sources
  <2>3. SaveDocument(q)
    BY <1>4, StoringEnds DEF SaveProduction, CreationFails
  <2>4. Saves(req[q].id, req[q].mem, [req[q].mem EXCEPT !.documents = F])
    BY <2>3 DEF SaveDocument
  <2>5. ref \in Refs /\ ref.key = key
    BY <2>2, RefFits DEF Ref, Keys, Slots
  <2>6. F \in SUBSET Refs /\ ref \in F
    BY <2>1, <2>5 DEF IsDoc
  <2> HIDE DEF F, ref
  <2>7. docs'[req[q].id] = [req[q].mem EXCEPT !.documents = F]
    BY <2>1, <2>4, SavedTyped
  <2>8. IsDoc(docs'[req[q].id]) /\ docs'[req[q].id].documents = F
    BY <2>1, <2>6, <2>7, DocDocuments
  <2>9. ref \in FilesOf(docs'[req[q].id])
    BY <2>6, <2>8 DEF FilesOf
  <2> QED
    BY <2>1, <2>5, <2>8, <2>9, DocPresent DEF Owned
<1> QED
  BY <1>3, <1>4

\* After a step, a stored object still belongs to a document or to work on its way.
LEMMA StepBelongs ==
  ASSUME Typed, CopiesWell, NEW q \in Requests, Begun(q), Deleted(q), Step(q), SessionsStay,
         ~history'.overlaid, ~history'.unclean, NoOrphans, NEW key \in Keys, objects'[key] # None
  PROVE  Belongs(key)'
<1>0. /\ ~history.overlaid /\ ~history.unclean
      /\ key[1] \in Requests /\ (Signed(key) => Signed(key)')
  BY HistoryGrows DEF Keys, Signed, SessionsStay
<1>1. CASE objects'[key] # objects[key]
  BY <1>0, <1>1, Written DEF Belongs
<1>2. CASE Has(key)
  <2>1. Belongs(key)
    BY <1>0, <1>2 DEF NoOrphans, Belongs, Signed
  <2>2. CASE \E id \in Productions : Present(docs[id]) /\ key \in Owned(docs[id])
    <3>1. PICK id \in Productions : Present(docs[id]) /\ key \in Owned(docs[id])
      BY <2>2
    <3>2. (Present(docs'[id]) /\ key \in Owned(docs'[id])) \/ Signed(key)
      BY <1>0, <1>2, <3>1, OwnedStays
    <3> QED
      BY <1>0, <3>2 DEF Belongs, Present, Owned, FilesOf
  <2>3. CASE req[key[1]].pc \in {"creating", "attaching"}
    <3>1. CASE req'[key[1]].pc \in {"creating", "attaching"}
      BY <3>1 DEF Belongs
    <3>2. CASE req'[key[1]].pc \notin {"creating", "attaching"}
      <4>1. key[1] = q
        BY <1>0, <2>3, <3>2, Steps
      <4>2. \E id \in Productions : Present(docs'[id]) /\ key \in Owned(docs'[id])
        BY <1>2, <2>3, <3>2, <4>1, StoredIsOwned
      <4> QED
        BY <4>2 DEF Belongs, Present, Owned, FilesOf
    <3> QED
      BY <3>1, <3>2
  <2>4. ASSUME NEW r \in Requests, TakingAway(r, key)
        PROVE  Belongs(key)'
    <3>1. CASE TakingAway(r, key)'
      BY <3>1 DEF Belongs
    <3>2. CASE r = q /\ SaveRemoval(q)
      <4>1. key \in req[q].gone \ req[q].left /\ req[q].pc = "deleting"
        BY <2>4, <3>2 DEF SaveRemoval, TakingAway
      <4>2. Signed(key)
        BY <1>0, <1>2, <4>1 DEF Deleted
      <4> QED
        BY <1>0, <4>2 DEF Belongs
    <3> QED
      BY <2>4, <3>1, <3>2, TakingStays
  <2> QED
    BY <1>0, <2>1, <2>2, <2>3, <2>4 DEF Belongs
<1> QED
  BY <1>1, <1>2 DEF Has

\* A step leaves no object that nothing refers to.
LEMMA StepNoOrphans ==
  ASSUME Typed, CopiesWell, NEW q \in Requests, Begun(q), Deleted(q), Step(q), SessionsStay,
         NoOrphans
  PROVE  NoOrphans'
<1> SUFFICES ASSUME ~history'.overlaid, ~history'.unclean, NEW key \in Keys, objects'[key] # None
             PROVE  Belongs(key)'
  BY DEF NoOrphans, Belongs, Signed, Has
<1> QED
  BY StepBelongs

---------------------------------------------------------------------------
(***************************************************************************)
(* The invariant holds                                                     *)
(***************************************************************************)
LEMMA InitIInv == Init => IInv
<1> SUFFICES ASSUME Init PROVE IInv
  OBVIOUS
<1>1. /\ objects = [k \in Keys |-> None] /\ sessions = [q \in Requests |-> None]
      /\ docs = [id \in Productions |-> NoProduction]
      /\ req = [q \in Requests |-> [pc |-> "new"]] /\ run = [q \in Requests |-> NoRun]
      /\ answers = {} /\ troubles = 0
      /\ history = [overlaid |-> FALSE, unsure |-> FALSE, unclean |-> FALSE, overlapped |-> {}]
  BY DEF Init
<1>2. Typed
  <2>1. /\ objects \in [Keys -> Versions \cup {None}]
        /\ sessions \in [Requests -> Sessions \cup {None}]
    BY <1>1
  <2>2. /\ docs = [id \in Productions |-> docs[id]] /\ req = [q \in Requests |-> req[q]]
        /\ run = [q \in Requests |-> run[q]]
    BY <1>1
  <2>3. \A q \in Requests : IsReq(q, req[q]) /\ IsRun(run[q])
    BY <1>1 DEF IsReq, IsRun
  <2>4. answers \subseteq Requests \X (Nat \ {0}) /\ troubles \in 0 .. MaxTroubles
    BY <1>1, IntakeAssumption
  <2>5. history \in Histories
    BY <1>1 DEF Histories
  <2> QED
    BY <2>1, <2>2, <2>3, <2>4, <2>5 DEF Typed
<1>3. \A id \in Productions : docs[id].phase = "absent" /\ Copies(id) = {}
  BY <1>1 DEF NoProduction, Copies, Present, Loads, Works, NoRun
<1>4. CopiesWell /\ Apart
  BY <1>3 DEF CopiesWell, Apart
<1>5. ASSUME NEW q \in Requests PROVE Begun(q) /\ Deleted(q) /\ Sole(q)
  <2>1. req[q].pc = "new" /\ sessions[q] = None /\ \A slot \in Slots : ~Has(<<q, slot>>)
    BY <1>1 DEF Has, Keys
  <2>2. \A p \in Requests : req[p].pc = "new"
    BY <1>1
  <2> QED
    BY <1>1, <2>1, <2>2 DEF Begun, Deleted, Sole, Finalizing
<1>6. FilesGood /\ FailuresExplained
  BY <1>1, <1>3 DEF FilesGood, FailuresExplained, Present, Productions
<1>7. NoOrphans
  BY <1>1 DEF NoOrphans, Has
<1> QED
  BY <1>2, <1>4, <1>5, <1>6, <1>7 DEF IInv

\* The invariant is inductive.
LEMMA NextIInv == IInv /\ [Next]_vars => IInv'
<1> SUFFICES ASSUME IInv, [Next]_vars PROVE IInv'
  OBVIOUS
<1>1. CASE UNCHANGED vars
  <2>1. /\ UNCHANGED objects /\ UNCHANGED sessions /\ UNCHANGED docs /\ UNCHANGED req
        /\ UNCHANGED run /\ UNCHANGED answers /\ UNCHANGED troubles /\ UNCHANGED history
    BY <1>1 DEF vars
  <2>2. Typed'
    BY <2>1 DEF IInv, Typed
  <2>3. CopiesWell' /\ Apart'
    BY <2>1 DEF IInv, CopiesWell, Apart, Copies, Loads, Works, Present, Well, IsDoc,
                CasesFine, Home,
                Signed, Faithful, Has
  <2>4. \A q \in Requests : Begun(q)' /\ Deleted(q)' /\ Sole(q)'
    BY <2>1 DEF IInv, Begun, Deleted, Sole, Has, Posting, Home, Signed, Faithful, Finalizing
  <2>5. (Calm => FilesGood /\ FailuresExplained)'
    BY <2>1 DEF IInv, Calm, FilesGood, FailuresExplained, Present, Good, FailedFor, Has, TakingAway,
                FilesOf
  <2>6. NoOrphans'
    BY <2>1 DEF IInv, NoOrphans, Has, Present, TakingAway, Owned, FilesOf
  <2> QED
    BY <2>2, <2>3, <2>4, <2>5, <2>6 DEF IInv
<1>2. CASE Next
  <2>1. PICK q \in Requests : Step(q)
    BY <1>2 DEF Next, Step
  <2>2. /\ Typed /\ CopiesWell /\ Apart /\ NoOrphans
        /\ \A p \in Requests : Begun(p) /\ Deleted(p) /\ Sole(p)
    BY DEF IInv
  <2>3. Typed'
    BY <2>1, <2>2, StepTyped
  <2>4. SessionsStay
    BY <2>1, <2>2, SessionsEvolve
  <2>5. ObjectsStay
    BY <2>1, <2>2, <2>3, ObjectsEvolve
  <2>6. CopiesWell'
    BY <2>1, <2>2, <2>4, <2>5, StepWell
  <2>7. Apart'
    BY <2>1, <2>2, <2>3, <2>4, <2>5, <2>6, StepApart
  <2>8. \A p \in Requests : Begun(p)'
    <3>1. Begun(q)'
      BY <2>1, <2>2, <2>3, <2>4, <2>5, OwnBegun
    <3>2. \A p \in Requests : p # q => Begun(p)'
      BY <2>1, <2>2, <2>4, <2>5, OthersBegun
    <3> QED
      BY <3>1, <3>2
  <2>9. \A p \in Requests : Deleted(p)'
    BY <2>1, <2>2, <2>4, <2>5, StepDeleted
  <2>10. \A s \in Requests : Sole(s)'
    BY <2>1, <2>2, <2>3, <2>4, StepSole
  <2>11. ASSUME Calm' PROVE FilesGood' /\ FailuresExplained'
    <3>1. FilesGood /\ FailuresExplained
      BY <2>1, <2>2, <2>11, HistoryGrows DEF Calm, IInv
    <3>2. FilesGood'
      BY <2>1, <2>2, <2>3, <2>5, <2>6, <2>8, <2>11, <3>1, StepFilesGood
    <3>3. FailuresExplained'
      BY <2>1, <2>2, <2>3, <2>6, <2>11, <3>1, StepFailures
    <3> QED
      BY <3>2, <3>3
  <2>12. NoOrphans'
    BY <2>1, <2>2, <2>4, StepNoOrphans
  <2> QED
    BY <2>3, <2>6, <2>7, <2>8, <2>9, <2>10, <2>11, <2>12 DEF IInv
<1> QED
  BY <1>1, <1>2

\* The invariant holds in every reachable state.
LEMMA AlwaysIInv == Spec => []IInv
  BY InitIInv, NextIInv, PTL DEF Spec

---------------------------------------------------------------------------
(***************************************************************************)
(* What follows                                                            *)
(***************************************************************************)
\* What is stored has the shape its readers expect: objects and sessions, the
\* files a production names, its phase, and the kinds of its cases, whatever
\* the reconciler answered.
THEOREM TypeCorrect == Spec => []TypeOK
<1>1. IInv => TypeOK
  <2> SUFFICES ASSUME IInv PROVE TypeOK
    OBVIOUS
  <2>1. ASSUME NEW id \in Productions, Present(docs[id])
        PROVE  /\ FilesOf(docs[id]) \subseteq Refs /\ docs[id].phase \in Phases
               /\ \A c \in ToSet(docs[id].cases) : c.kind \in Relationships
    <3>1. Well(id, docs[id])
      BY <2>1 DEF IInv, CopiesWell, Copies
    <3> QED
      BY <3>1, DocPresent DEF Well, IsDoc, CasesFine
  <2>2. /\ \A k \in Keys : Has(k) => objects[k] \in Versions
        /\ \A s \in Requests : sessions[s] # None => sessions[s] \in Sessions
        /\ \A a \in answers : a[1] \in Requests /\ a[2] \in Nat
        /\ troubles \in 0 .. MaxTroubles
    BY DEF IInv, Typed, Has
  <2> QED
    BY <2>1, <2>2 DEF TypeOK
<1> QED
  BY <1>1, AlwaysIInv, PTL

\* A stored production's files are in the object store as they were recorded,
\* or as their owner has replaced them since, unless a removal takes them away
\* or one of the named losses between the two stores has happened
\* (apps/edge/src/uploads.ts, routes/projects.ts, routes/documents.ts).
THEOREM FilesStayAsRecorded == Spec => []FilesAsRecorded
<1>1. IInv => FilesAsRecorded
  <2> SUFFICES ASSUME IInv, ~history.overlaid, ~history.unsure, ~history.unclean,
                      NEW id \in Productions, Present(docs[id]), NEW f \in FilesOf(docs[id])
               PROVE  Good(f)
    BY DEF FilesAsRecorded, Good
  <2> QED
    BY DEF IInv, Calm, FilesGood
<1> QED
  BY <1>1, AlwaysIInv, PTL

\* No object is left without an owner: a creation that rejects takes its files
\* back, and so does the deletion of a production (routes/projects.ts,
\* services/projects.ts).
THEOREM NothingOrphaned == Spec => []NoOrphans
<1>1. IInv => NoOrphans
  BY DEF IInv
<1> QED
  BY <1>1, AlwaysIInv, PTL

\* A session that is finalized again answers the etag it answered before, unless
\* the finalizations overlapped (UploadService.finalize).
THEOREM FinalizationsAgree == Spec => []FinalizeAgrees
<1>1. IInv => FinalizeAgrees
  <2> SUFFICES ASSUME IInv, NEW a \in answers, NEW b \in answers, a[1] = b[1],
                      a[1] \notin history.overlapped
               PROVE  a = b
    BY DEF FinalizeAgrees
  <2>1. a \in Requests \X (Nat \ {0}) /\ b \in Requests \X (Nat \ {0})
    BY DEF IInv, Typed
  <2>2. Sole(a[1])
    BY <2>1 DEF IInv
  <2>3. a[2] = b[2]
    BY <2>2 DEF Sole
  <2> QED
    BY <2>1, <2>3
<1> QED
  BY <1>1, AlwaysIInv, PTL

\* Every candidate of a production's scans has exactly one case, and every
\* detection lies inside the cut, whatever the scans found and whatever the
\* reconciler answered (pipeline/reconcile-stage.ts).
THEOREM CasesAreComplete == Spec => []CasesComplete
<1>1. IInv => CasesComplete
  BY DEF IInv, CopiesWell, Copies, Well, CasesFine, CasesComplete
<1> QED
  BY <1>1, AlwaysIInv, PTL

\* The analysis can read what a preflight accepted (services/uploads.ts,
\* pipeline/screenplay-stage.ts), unless it is taken away or was lost.
THEOREM AcceptedSourcesAreRead == Spec => []AcceptedSourcesScan
<1>1. IInv => AcceptedSourcesScan
  <2> SUFFICES ASSUME IInv, NEW id \in Requests, docs[id].phase = "failed",
                      ~history.overlaid, ~history.unsure, ~history.unclean
               PROVE  \/ docs[id].script # None /\ docs[id].script.suffix = "video"
                      \/ \E q \in Requests, f \in FilesOf(docs[id]) : TakingAway(q, f.key)
    BY DEF AcceptedSourcesScan
  <2>1. FailedFor(docs[id])
    BY DEF IInv, Calm, FailuresExplained
  <2> QED
    BY <2>1 DEF FailedFor, FilesOf
<1> QED
  BY <1>1, AlwaysIInv, PTL

=============================================================================
