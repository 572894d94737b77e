--------------------------- MODULE MCPresenterRuns ---------------------------
(* Small instances of PresenterRuns: mailboxes, and an order of identifiers
   that is not the order of creation. *)
EXTENDS PresenterRuns

CONSTANTS r1, r2, o1, o2, o3, t1, q1, q2

MCFacts == [original |-> 5, partial |-> 3, remaining |-> 2, due |-> 1, partialDue |-> 2]
MCOffer == [original |-> 5, partial |-> 3, due |-> 1, partialDue |-> 2]
Statement(f, text) == [kind |-> "statement", facts |-> f, text |-> text]
Unsupported == [kind |-> "unsupported"]
Unreadable == [kind |-> "unreadable"]
Message(locator, id, envelope, body) ==
    [locator |-> locator, id |-> id, envelope |-> envelope, body |-> body]

\* The supplier's e-mail, an offer that is not the one on record, and one
\* that does not add up.
Good == Message("l1", "m", "supplier", Statement(MCFacts, 1))
Other == Statement([MCFacts EXCEPT !.partial = 2, !.remaining = 3], 1)
Wrong == Statement([MCFacts EXCEPT !.partial = 1], 1)

MCMailboxes ==
    {<<Good>>,
     <<Message("l2", "m", "malformed", Unreadable), Message("l3", "n", "supplier", Other)>>,
     <<Message("l2", "m", "supplier", Wrong), Message("l2", "n", "other", Unsupported)>>,
     <<Message("l4", "m", "supplier", Unreadable), Message("l5", "n", "supplier", Other)>>,
     <<Message("l5", "n", "supplier", Other), Message("l6", "m", "supplier", Other)>>,
     <<Message("l6", "n", "other", Unsupported), Message("l7", "n", "other", Unsupported),
       Message("l8", "m", "supplier", Wrong)>>}

\* Identifiers that are not in the order of creation.
MCIdRank == [c \in CaseIds |->
                CASE c = o1 -> 8 [] c = o2 -> 9 [] c = o3 -> 10 [] c = t1 -> 0
                  [] OTHER -> (IF c[2] = r1 THEN 6 ELSE 4) + (IF c[1] = "m" THEN 1 ELSE 0)]

\* One earlier run is planned and its playback has begun.
MCWorked == [c \in {o1, o2, o3, t1} |->
                IF c = o1 THEN {"analysis", "review", "selection", "resubmit", "decision", "plan",
                                "playback"}
                ELSE {}]

Symmetry == {[q \in {q1, q2} |-> q], [q \in {q1, q2} |-> IF q = q1 THEN q2 ELSE q1]}
==============================================================================
