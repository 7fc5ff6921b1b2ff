------------------------------- MODULE Review -------------------------------
(***************************************************************************)
(* The dialog in which a person decides a case                             *)
(* (apps/web/src/features/review/human-disposition.tsx): the changes it    *)
(* lets a person send, made from the page's copy of the case, which may be *)
(* older than the record they are applied to.                              *)
(***************************************************************************)
EXTENDS Disposition

\* outcomes: the status and who signs for it.
Outcomes ==
  {[status |-> status, actor |-> "coordinator"] :
     status \in {"coordinator_verified", "waiting_on_rights_holder",
                 "replacement_requested", "false_positive"}}
  \cup {[status |-> "counsel_approved", actor |-> "counsel"]}

\* Counsel signs nothing off on a case the page shows without documents.
Blocked(seen, outcome) == outcome.status = "counsel_approved" /\ seen.docs = {}

\* "Save decision" is enabled: a rationale is given, and nothing blocks.
Offered(seen, outcome, rationale) == rationale /\ ~Blocked(seen, outcome)

\* record: what is sent names every document the page shows.
ChangeSent(seen, outcome, rationale, request) ==
  [by |-> request, actor |-> outcome.actor, status |-> outcome.status,
   rationale |-> rationale, docs |-> seen.docs]

=============================================================================
