---------------------------- MODULE AlgorithmProofs ----------------------------
(***************************************************************************)
(* What the algorithms that keep no state promise, for all their inputs:   *)
(* the words "covers" and "ready" of a packet, range requests, and parts.  *)
(***************************************************************************)
EXTENDS Packet, Transfers, TLAPS

---------------------------------------------------------------------------
(***************************************************************************)
(* Scope and readiness, for all labels and dates                           *)
(***************************************************************************)
\* A comparison that finds no gap finds that the document covers the use: the
\* intended media and territories are recorded, and every day that both terms
\* name lies inside the recorded term (scope.ts:22-61).  What is not a date is
\* compared with nothing.
THEOREM NoGapCovers ==
  ASSUME NEW intended, NEW recorded, recorded.perpetual \in BOOLEAN,
         AssessScope(intended, recorded).gaps = {}
  PROVE  /\ AssessScope(intended, recorded).outcome = "covers"
         /\ Covers(intended, recorded)
<1>1. /\ ~Expired(intended, recorded) /\ Unrecorded(recorded) = {}
      /\ Shortfalls(intended, recorded) = {}
  <2>1. CASE Expired(intended, recorded)
    BY <2>1 DEF AssessScope
  <2>2. CASE ~Expired(intended, recorded) /\ Unrecorded(recorded) # {}
    <3>1. PICK field \in Unrecorded(recorded) : TRUE
      BY <2>2
    <3>2. <<field, None>> \in AssessScope(intended, recorded).gaps
      BY <2>2, <3>1 DEF AssessScope
    <3> QED BY <3>2
  <2>3. CASE ~Expired(intended, recorded) /\ Unrecorded(recorded) = {}
    BY <2>3 DEF AssessScope
  <2> QED BY <2>1, <2>2, <2>3
<1>2. AssessScope(intended, recorded).outcome = "covers"
  BY <1>1 DEF AssessScope
<1>3. ASSUME NEW field \in {"media", "territories"}
      PROVE  Normalized(intended[field]) \subseteq Normalized(recorded[field])
  <2>1. SUFFICES ASSUME NEW key \in Normalized(intended[field]),
                        key \notin Normalized(recorded[field])
                 PROVE  FALSE
    OBVIOUS
  <2>2. <<field, key>> \in Shortfalls(intended, recorded)
    BY <2>1 DEF Shortfalls
  <2> QED BY <1>1, <2>2
<1>4. CASE recorded.perpetual
  BY <1>2, <1>3, <1>4 DEF Covers
<1>5. CASE ~recorded.perpetual
  <2>1. ~Before(recorded.ends, intended.starts)
    BY <1>1, <1>5 DEF Expired
  <2>2. ~Before(intended.starts, recorded.starts)
    <3>1. SUFFICES ASSUME Before(intended.starts, recorded.starts) PROVE FALSE
      OBVIOUS
    <3>2. <<"starts", None>> \in Shortfalls(intended, recorded)
      BY <1>5, <3>1 DEF Shortfalls
    <3> QED BY <1>1, <3>2
  <2>3. ~Before(recorded.ends, intended.ends)
    <3>1. SUFFICES ASSUME Before(recorded.ends, intended.ends) PROVE FALSE
      OBVIOUS
    <3>2. <<"ends", None>> \in Shortfalls(intended, recorded)
      BY <1>5, <3>1 DEF Shortfalls
    <3> QED BY <1>1, <3>2
  <2>4. /\ {recorded.starts, intended.starts} \subseteq Int => recorded.starts <= intended.starts
        /\ {recorded.ends, intended.ends} \subseteq Int => recorded.ends >= intended.ends
        /\ {recorded.ends, intended.starts} \subseteq Int => recorded.ends >= intended.starts
    BY <2>1, <2>2, <2>3 DEF Before
  <2> QED BY <1>2, <1>3, <2>4 DEF Covers
<1> QED BY <1>4, <1>5

\* A packet that carries no warning comes from an analysis that is over; no
\* case in it is open, failed in research or without a source, and every
\* document of every case covers the intended use (packets.ts:141-143,
\* packet.ts:19-44).
THEOREM UnmarkedIsComplete ==
  ASSUME NEW project, ~Banner(project),
         \A i \in DOMAIN project.items : \A document \in project.items[i].documents :
           document.perpetual \in BOOLEAN
  PROVE  /\ project.phase = "ready"
         /\ \A i \in DOMAIN project.items :
              /\ project.items[i].status \notin Incomplete
              /\ ~project.items[i].error
              /\ project.items[i].sources # << >>
              /\ \A document \in project.items[i].documents : Covers(project.use, document)
<1>1. /\ project.phase = "ready" /\ PacketReady(project)
      /\ \A i \in DOMAIN project.items : project.items[i].sources # << >>
  BY DEF Banner
<1>2. SUFFICES ASSUME NEW i \in DOMAIN project.items
               PROVE  /\ project.items[i].status \notin Incomplete
                      /\ ~project.items[i].error
                      /\ \A document \in project.items[i].documents :
                           Covers(project.use, document)
  BY <1>1
<1>3. project.items[i].status \notin Incomplete /\ ~project.items[i].error
  BY <1>1 DEF PacketReady, IncompleteItems
<1>4. ASSUME NEW document \in project.items[i].documents
      PROVE  Covers(project.use, document)
  <2>1. <<i, document>> \in UNION {{j} \X project.items[j].documents : j \in DOMAIN project.items}
    OBVIOUS
  <2>2. <<i, document>> \notin ScopeGaps(project)
    BY <1>1 DEF PacketReady
  <2>3. AssessScope(project.use, document).gaps = {}
    BY <2>1, <2>2 DEF ScopeGaps
  <2> QED BY <2>3, NoGapCovers
<1> QED BY <1>3, <1>4

---------------------------------------------------------------------------
(***************************************************************************)
(* Range requests, for files of every size                                 *)
(***************************************************************************)
Header == [first : Nat \cup {Absent}, last : Nat \cup {Absent}]

\* Every range the API accepts lies inside the file, whichever store keeps it,
\* is sent from where the answer says it begins, and is as long as the answer
\* says (routes/assets.ts:7-17 and 43-53, bindings.ts:31-39,
\* filesystem-asset-store.ts:71-87).
THEOREM RangesAgree ==
  ASSUME NEW store \in Stores, NEW total \in Nat, NEW header \in Header,
         NEW range, range = ApiRange(header, total),
         header # Absent, header # Malformed, range # Refused, range # Absent,
         \A a, b \in Int : [first |-> a, last |-> b] # Absent, Absent \notin Int
  PROVE  /\ range.start \in 0 .. range.end /\ range.end \in 0 .. total - 1
         /\ Sent(store, range, total) =
              [offset |-> range.start, length |-> range.end - range.start + 1]
<1> DEFINE start == IF header.first = Absent THEN 0 ELSE header.first
           end   == IF header.last = Absent THEN total - 1 ELSE header.last
<1>1. start \in Nat /\ end \in Int
  BY DEF Header
<1>2. /\ start <= end /\ start < total
      /\ range = [start |-> start, end |-> IF end < total THEN end ELSE total - 1]
  <2>1. ~(end < start \/ start >= total)
        /\ range = [start |-> start, end |-> IF end < total THEN end ELSE total - 1]
    BY Zenon DEF ApiRange
  <2> QED BY <1>1, <2>1
<1> HIDE DEF start, end
<1>3. range.start = start /\ range.end = IF end < total THEN end ELSE total - 1
  BY <1>2
<1>4. range.start \in 0 .. range.end /\ range.end \in 0 .. total - 1
  BY <1>1, <1>2, <1>3
<1>5. CASE store = "r2"
  <2>1. Asked(range) = [first |-> range.start, last |-> range.end] /\ Asked(range) # Absent
    BY <1>4 DEF Asked
  <2>2. EdgeRange(Asked(range), total) =
          [offset |-> range.start, length |-> range.end - range.start + 1]
    BY <1>4, <2>1 DEF EdgeRange
  <2> QED BY <1>4, <1>5, <2>2 DEF Sent
<1>6. CASE store # "r2"
  BY <1>4, <1>6 DEF Sent, OwnRange
<1> QED
  BY <1>4, <1>5, <1>6

---------------------------------------------------------------------------
(***************************************************************************)
(* Parts                                                                   *)
(***************************************************************************)
LEMMA CeilDivBounds ==
  ASSUME NEW a \in Nat \ {0}, NEW b \in Nat \ {0}
  PROVE  /\ CeilDiv(a, b) \in Nat \ {0}
         /\ CeilDiv(a, b) * b >= a /\ (CeilDiv(a, b) - 1) * b < a
<1> DEFINE q == (a + b - 1) \div b
<1>1. q \in Int /\ q * b <= a + b - 1 /\ a + b - 1 < q * b + b
  OBVIOUS
<1> HIDE DEF q
<1>2. (q - 1) * b = q * b - b
  BY <1>1
<1>3. q * b >= a /\ (q - 1) * b < a
  BY <1>1, <1>2
<1>4. q > 0
  BY <1>1, <1>3
<1> QED
  BY <1>1, <1>3, <1>4 DEF CeilDiv, q

\* A direct upload of any size is cut into parts that are few enough for R2,
\* none shorter than R2 takes but the last, and that make up the file
\* (uploads.ts:45-49).
THEOREM PartsAlwaysFit ==
  ASSUME NEW size \in Nat \ {0}
  PROVE  /\ PartSize(size) \in Nat /\ PartSize(size) >= MinPart
         /\ PartCount(size) \in 1 .. MaxParts
         /\ PartCount(size) * PartSize(size) >= size
         /\ (PartCount(size) - 1) * PartSize(size) < size
<1> USE PartsAssumption
<1> DEFINE unit == CeilDiv(size, MaxParts * MinPart)
           part == PartSize(size)
           n    == PartCount(size)
<1>1. MaxParts * MinPart \in Nat \ {0}
  OBVIOUS
<1>2. unit \in Nat \ {0} /\ unit * (MaxParts * MinPart) >= size
  BY <1>1, CeilDivBounds
<1>3. MinimumForLimit(size) = unit * MinPart /\ unit * MinPart \in Nat
  BY <1>2 DEF MinimumForLimit
<1>4. part \in Nat /\ part >= MinPart /\ part >= unit * MinPart
  BY <1>3 DEF PartSize, Larger
<1>5. n \in Nat \ {0} /\ n * part >= size /\ (n - 1) * part < size
  BY <1>4, CeilDivBounds DEF PartCount
<1> HIDE DEF n, part, unit
<1>6. MaxParts * part >= size
  <2>1. MaxParts * part >= MaxParts * (unit * MinPart)
    BY <1>2, <1>3, <1>4
  <2>2. MaxParts * (unit * MinPart) = unit * (MaxParts * MinPart)
    BY <1>2
  <2> QED BY <1>2, <1>3, <1>4, <2>1, <2>2
<1>7. n <= MaxParts
  <2>1. SUFFICES ASSUME n - 1 >= MaxParts PROVE FALSE
    BY <1>5
  <2>2. (n - 1) * part >= MaxParts * part
    BY <1>4, <1>5, <2>1
  <2> QED BY <1>4, <1>5, <1>6, <2>2
<1> QED
  BY <1>4, <1>5, <1>7 DEF n, part

=============================================================================
