---------------------------- MODULE SupplierInbox ----------------------------
(***************************************************************************)
(* Reading the planner's mailbox: the bounded scan behind "check inbox"    *)
(* and the re-reading of one message before a case is created from it.     *)
(*                                                                         *)
(* A mailbox is a sequence of messages.  A message is known by the locator *)
(* the provider gives it (which changes when it is moved) and by its       *)
(* Internet Message-ID.  Its body is a "statement" with the facts it       *)
(* states, "unsupported" text about the part, or "unreadable": not valid   *)
(* as evidence, or not to be fetched.  envelope stands for the sender,     *)
(* recipients, subject and time: "supplier" satisfies _metadata_candidate, *)
(* "other" does not, "malformed" makes it raise.                           *)
(***************************************************************************)
EXTENDS Naturals, Sequences, FiniteSets

CONSTANTS MaxCollection,   \* MAX_COLLECTION
          MaxBodyReads     \* MAX_BODY_READS

ASSUME InboxAssumption == MaxCollection \in Nat /\ MaxBodyReads \in Nat

Codes == {"ok", "INBOUND_EMAIL_CHANGED", "INBOUND_EMAIL_CONFLICT",
          "INBOUND_EMAIL_UNSUPPORTED", "INBOUND_EMAIL_UNAVAILABLE"}

\* A statement's facts add up and its partial shipment is not early: the
\* quantities and dates parse_supplier_disruption insists on.
FactsAgree(f) == /\ f.original = f.partial + f.remaining
                 /\ f.partialDue >= f.due

\* parse_supplier_disruption: one whole statement or nothing.
Parsed(body) == body.kind = "statement" /\ FactsAgree(body.facts)

\* The statement is about the disruption and the expedite offer on record.
FactsMatch(f, offer) == /\ f.original = offer.original /\ f.due = offer.due
                        /\ f.partial = offer.partial /\ f.partialDue = offer.partialDue
                        /\ f.remaining = f.original - f.partial

\* evidence_from_message together with the marker of the part in the text.
BodyValid(m) == m.envelope = "supplier" /\ m.body.kind # "unreadable"

\* What the provider returns for the search: the first n messages, and a
\* link to the rest when there are more.  A provider that ignores $top may
\* return them all.
PageSizes(box) == {IF Len(box) < MaxCollection THEN Len(box) ELSE MaxCollection, Len(box)}

\* Rows whose locator repeats an earlier one of the page.
Repeated(box, i) == \E j \in 1 .. i - 1 : box[j].locator = box[i].locator

\* The rows of the page that are read in full: the candidates, in order, up
\* to the limit.
Candidates(box, n) == {i \in 1 .. n : box[i].envelope = "supplier" /\ ~Repeated(box, i)}
ReadInFull(box, n) == {i \in Candidates(box, n) :
                         Cardinality({j \in Candidates(box, n) : j < i}) < MaxBodyReads}

\* discover_inbox: the messages listed, with the fingerprint of those a case
\* can be created from, and whether the scan may have missed any.
Discover(box, n) ==
    IF n > MaxCollection THEN [listed |-> {}, incomplete |-> TRUE]
    ELSE [listed |-> {[id |-> box[i].id, body |-> box[i].body] :
                        i \in {j \in ReadInFull(box, n) : BodyValid(box[j])}},
          incomplete |-> \/ n < Len(box)
                         \/ \E i \in 1 .. n : box[i].envelope = "malformed" \/ Repeated(box, i)
                         \/ ReadInFull(box, n) # Candidates(box, n)
                         \/ \E i \in ReadInFull(box, n) : ~BodyValid(box[i])]

\* review_email: the message with this identity, read again.  What is
\* compared with the fingerprint is everything but the locator.
Review(box, id, body) ==
    LET found == {i \in 1 .. Len(box) : box[i].id = id}
        m == box[CHOOSE i \in found : TRUE]
    IN  CASE found = {} \/ Cardinality(found) > MaxBodyReads + 1 -> "INBOUND_EMAIL_UNAVAILABLE"
          [] found # {} /\ Cardinality(found) \in 2 .. MaxBodyReads + 1 -> "INBOUND_EMAIL_CONFLICT"
          [] Cardinality(found) = 1 /\ ~BodyValid(m) -> "INBOUND_EMAIL_CONFLICT"
          [] Cardinality(found) = 1 /\ BodyValid(m) /\ m.body # body -> "INBOUND_EMAIL_CHANGED"
          [] Cardinality(found) = 1 /\ BodyValid(m) /\ m.body = body ->
               IF Parsed(body) THEN "ok" ELSE "INBOUND_EMAIL_UNSUPPORTED"
==============================================================================
