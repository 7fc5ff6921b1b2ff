------------------------------- MODULE Packet -------------------------------
(***************************************************************************)
(* The scope of documents against the intended use                         *)
(* (packages/domain/src/scope.ts), the readiness of a packet               *)
(* (packages/domain/src/packet.ts) and what the exported packet shows      *)
(* (apps/api/src/services/packets.ts).                                     *)
(*                                                                         *)
(* A scope is [media, territories, starts, ends, perpetual].  Media and    *)
(* territories are sets of labels as they were typed; a date is a day, or  *)
(* None, or a text that is not a date.  Prose is left out.                 *)
(***************************************************************************)
EXTENDS Integers, SequencesExt

CONSTANTS
  None,   \* an absent value
  Key     \* the trimmed lower-case form of each label, None if it is blank

---------------------------------------------------------------------------
(***************************************************************************)
(* assessScope                                                             *)
(***************************************************************************)
\* normalized
Normalized(labels) == {Key[label] : label \in labels} \ {None}

\* dateValue of both is a day, and a's comes first: what is not a date is
\* never compared.
Before(a, b) == a \in Int /\ b \in Int /\ a < b

\* A date was typed, whether it is one or not.
Typed(date) == date # None

Expired(intended, recorded) ==
  ~recorded.perpetual /\ Before(recorded.ends, intended.starts)

\* What is not recorded at all.
Unrecorded(recorded) ==
  {field \in {"media", "territories"} : recorded[field] = {}}
  \cup {field \in {"term"} : /\ ~recorded.perpetual
                             /\ ~Typed(recorded.starts) /\ ~Typed(recorded.ends)}

\* What is recorded and falls short.
Shortfalls(intended, recorded) ==
  LET Missing(field) ==
        {<<field, key>> : key \in Normalized(intended[field]) \ Normalized(recorded[field])}
      Term(gap, short) == IF ~recorded.perpetual /\ short THEN {<<gap, None>>} ELSE {}
  IN  UNION {Missing("media"), Missing("territories"),
             Term("starts", Before(intended.starts, recorded.starts)),
             Term("ends", Before(recorded.ends, intended.ends))}

AssessScope(intended, recorded) ==
  IF Expired(intended, recorded)
  THEN [outcome |-> "expired", gaps |-> {<<"term", None>>}]
  ELSE IF Unrecorded(recorded) # {}
  THEN [outcome |-> "unknown", gaps |-> {<<field, None>> : field \in Unrecorded(recorded)}]
  ELSE [outcome |-> IF Shortfalls(intended, recorded) = {} THEN "covers" ELSE "partial",
        gaps |-> Shortfalls(intended, recorded)]

\* What "covers" is taken to say: the intended media and territories are
\* recorded, and every day both terms name lies inside the recorded one.
Covers(intended, recorded) ==
  /\ Normalized(intended.media) \subseteq Normalized(recorded.media)
  /\ Normalized(intended.territories) \subseteq Normalized(recorded.territories)
  /\ ~recorded.perpetual =>
       /\ {recorded.starts, intended.starts} \subseteq Int => recorded.starts <= intended.starts
       /\ {recorded.ends, intended.ends} \subseteq Int => recorded.ends >= intended.ends
       /\ {recorded.ends, intended.starts} \subseteq Int => recorded.ends >= intended.starts

---------------------------------------------------------------------------
(***************************************************************************)
(* packetReadiness                                                         *)
(***************************************************************************)
\* INCOMPLETE_STATUSES
Incomplete == {"detected", "researching", "unresolved",
               "reopened_by_revision", "reopened_by_monitor"}

\* Items are a sequence; each has its status, whether a research error is
\* recorded, its documents' scopes, its sources and its name's rank.
IncompleteItems(project) ==
  {i \in DOMAIN project.items :
     project.items[i].status \in Incomplete \/ project.items[i].error}

ScopeGaps(project) ==
  {pair \in UNION {{i} \X project.items[i].documents : i \in DOMAIN project.items} :
     AssessScope(project.use, pair[2]).gaps # {}}

PacketReady(project) == IncompleteItems(project) = {} /\ ScopeGaps(project) = {}

---------------------------------------------------------------------------
(***************************************************************************)
(* packetMarkdown                                                          *)
(***************************************************************************)
\* The INCOMPLETE RESEARCH banner.
Banner(project) ==
  \/ project.phase # "ready"
  \/ ~PacketReady(project)
  \/ \E i \in DOMAIN project.items : project.items[i].sources = << >>

\* PRIORITY: what was reopened comes first, what a person settled last.
Priority(status) ==
  CASE status \in {"reopened_by_revision", "reopened_by_monitor"} -> 0
    [] status \in {"detected", "researching", "unresolved"} -> 1
    [] status \in {"evidence_ready", "waiting_on_rights_holder", "replacement_requested"} -> 2
    [] OTHER -> 3

\* By priority, then by name.
Precedes(left, right) ==
  \/ Priority(left.status) < Priority(right.status)
  \/ Priority(left.status) = Priority(right.status) /\ left.name < right.name

\* Each URL once, where it first occurs.
CitedOnce(sources) ==
  FoldLeft(LAMBDA seen, url : IF Contains(seen, url) THEN seen ELSE Append(seen, url),
           << >>, sources)

\* The section of one item; that it has no sources is a line of its own.
ItemSection(project, item) ==
  [name |-> item.name,
   scopes |-> {AssessScope(project.use, document) : document \in item.documents},
   sources |-> CitedOnce(item.sources)]

PacketMarkdown(project) ==
  [banner   |-> Banner(project),
   sections |-> LET items == SortSeq(project.items, Precedes)
                IN  [n \in DOMAIN items |-> ItemSection(project, items[n])]]

=============================================================================
