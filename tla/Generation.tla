------------------------------ MODULE Generation ------------------------------
(***************************************************************************)
(* One structured generation: generate_structured of the model boundary    *)
(* (generation/openai_boundary.py), the checks of generation/quality.py    *)
(* and the guarded call of exporters/run_data.py around them.              *)
(*                                                                         *)
(* A reply is a record of what the model has answered: `kind` is "error"   *)
(* (the call has raised something that is not a provider's failure),       *)
(* "failure" (the executor gives up, or there is no client), "refusal",    *)
(* "empty", "malformed" (its text breaks the schema) or "document".  Of a  *)
(* document the record has the claims, the links (0 is outside of the      *)
(* approved domains), whether a placeholder is left, and the items it      *)
(* proposes.  A fact is named by its key and has one evidence, the key's.  *)
(***************************************************************************)
EXTENDS Integers, FiniteSets, Sequences

\* The status of GenerationResult; "error" raises.
GenerateStructured(reply) ==
    CASE reply.kind = "failure" -> "unavailable"
      [] reply.kind = "refusal" -> "refused"
      [] reply.kind \in {"empty", "malformed"} -> "invalid"
      [] OTHER -> "available"

\* A claim names facts and evidence, both of the pack, and all the evidence of its facts.
Substantiated(claim, facts) ==
    /\ claim.facts # {} /\ claim.evidence # {}
    /\ claim.facts \subseteq facts
    /\ claim.evidence \subseteq facts
    /\ claim.facts \subseteq claim.evidence

\* A link must not leave the domains or lead to a page that the crawl has seen failing; one that
\* the crawl has not seen is an issue of medium severity only.
LinkHolds(url, statuses) == url # 0 /\ (url \notin DOMAIN statuses \/ statuses[url] < 400)

\* No issue of a high severity.
Accepted(reply, facts, statuses) ==
    /\ \A claim \in reply.claims : Substantiated(claim, facts)
    /\ \A url \in reply.links : LinkHolds(url, statuses)
    /\ ~reply.placeholder

LedgerRow(task, status, reason) == [task |-> task, status |-> status, reason |-> reason]

\* Mutant of GuardedCall: a document that fails the checks is noted and used.
GuardedCallKept(task, reply, facts, statuses) ==
    IF reply.kind = "error" THEN [row |-> LedgerRow(task, "unavailable", TRUE), items |-> <<>>]
    ELSE LET status == GenerateStructured(reply)
             good == status = "available" /\ Accepted(reply, facts, statuses)
         IN  [row |-> LedgerRow(task, status, ~good), items |-> IF status = "available" THEN reply.items ELSE <<>>]

\* It never raises, and adds one row to the ledger; `reason` says whether the row has a reason
\* why nothing of the answer is used.
GuardedCall(task, reply, facts, statuses) ==
    IF reply.kind = "error" THEN [row |-> LedgerRow(task, "unavailable", TRUE), items |-> <<>>]
    ELSE LET status == GenerateStructured(reply)
             good == status = "available" /\ Accepted(reply, facts, statuses)
         IN  [row |-> LedgerRow(task, status, ~good), items |-> IF good THEN reply.items ELSE <<>>]
=============================================================================
