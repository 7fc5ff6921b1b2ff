------------------------- MODULE MCClearanceRecord -------------------------
(***************************************************************************)
(* Instances of ClearanceRecord for TLC.                                   *)
(***************************************************************************)
EXTENDS ClearanceRecord, TLC

Plain(kind, c) ==
  [kind |-> kind, case |-> c, actor |-> "coordinator", status |-> "detected",
   rationale |-> TRUE, docs |-> {}, id |-> None]

Decide(c, actor, status, docs) ==
  [Plain("status", c) EXCEPT !.actor = actor, !.status = status, !.docs = docs]

About(kind, c, d) == [Plain(kind, c) EXCEPT !.docs = {d}]

\* Decisions, documents and the monitor, three of which may overlap.
CaseOps ==
  UNION { {Plain(k, c) : k \in {"attach", "watch", "reopen"}}
          \cup {About("detach", c, d) : d \in Requests}
          \cup {Decide(c, "coordinator", "documented_permission", {d}) :
                  d \in Requests}
        : c \in Cases }

\* The other kinds of request, right or wrong.  An archive is the second half
\* of a rename_archive, and a rename_restore is a rename_archive and a restore.
\* Left to the proofs: a use profile, which writes what a rename does, an
\* assignment and a document's description, which write what opening a monitor
\* does, and a decision without a rationale, refused as the agent's approval is.
OtherOps ==
  UNION { {Plain(k, c) : k \in {"rename_archive", "restore", "delete"}}
          \cup {Decide(c, "counsel", "counsel_approved", {}),
                Decide(c, "agent", "counsel_approved", {}),
                Decide(c, "agent", "waiting_on_rights_holder", {})}
          \cup {[Plain("export", c) EXCEPT !.id = i] : i \in ExportIds}
        : c \in Cases }

AllOps == CaseOps \cup OtherOps

\* One human decision, and the deletion of the production.
ConflictOps ==
  UNION { {Decide(c, "counsel", "counsel_approved", {}), Plain("delete", c)}
        : c \in Cases }

\* A permission, its document and the document's removal.
DocumentOps ==
  UNION { {Plain("attach", c)}
          \cup {About("detach", c, d) : d \in Requests}
          \cup {Decide(c, "coordinator", "documented_permission", {d}) :
                  d \in Requests}
        : c \in Cases }

RequestSymmetry == Permutations(Requests)

=============================================================================
