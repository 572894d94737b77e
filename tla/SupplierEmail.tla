---------------------------- MODULE SupplierEmail ----------------------------
(***************************************************************************)
(* The reviewed supplier e-mail of one decision: ReviewedEmailService      *)
(* over its delivery row and content revisions, and the provider           *)
(* it submits to, from which the answer may be lost or late.               *)
(*                                                                         *)
(* save, review and open are one transaction each, so one step each.  send *)
(* reads, claims in a second step (a legacy decision has no projection     *)
(* lock between the two), submits outside any transaction, and records the *)
(* outcome in a transaction of its own.                                    *)
(***************************************************************************)
EXTENDS Naturals, FiniteSets

CONSTANTS Senders,        \* concurrent send requests
          MaxRevisions,   \* bound: edits of the e-mail
          MaxSends,       \* bound: send attempts, each a fresh correlation_id
          None            \* absent provider_message_id

ASSUME BoundsAssumption == MaxRevisions \in Nat /\ MaxSends \in Nat

VARIABLES current,    \* the decision's approval is current (ProposalFlow!ApprovalCurrent)
          revision,   \* newest supplier_email_revisions row; 0: no e-mail yet
          endorsed,   \* supplier_email_deliveries.reviewed_revision; 0: NULL
          status,     \* .send_status
          correlation, \* .correlation_id; 0: NULL
          provider,   \* .provider_message_id
          reviewed,   \* revisions whose reviewed_by is set
          send,       \* what each send request is doing
          sends,      \* correlation ids given out
          wire,       \* messages submitted and not yet handled by the provider
          replies,    \* the provider's answers, by correlation id
          delivered   \* messages the provider has sent to the supplier

row == <<revision, endorsed, status, correlation, provider>>
emailVars == <<current, row, reviewed, send, sends, wire, replies, delivered>>

SendStatus == {"draft", "submitting", "accepted", "failed", "uncertain"}
Outcome == {"accepted", "failed", "uncertain"}

Message == [correlation : Nat, revision : Nat]

Sending == [phase : {"idle", "read", "claimed", "posted", "answered"},
            revision : Nat, correlation : Nat, outcome : Outcome]

Idle == [phase |-> "idle", revision |-> 0, correlation |-> 0, outcome |-> "uncertain"]

MessageOf(h) == [correlation |-> send[h].correlation, revision |-> send[h].revision]

\* append_revision and claim_send: nothing of this e-mail can be under way.
Editable ==
    /\ revision > 0
    /\ \/ status = "draft"
       \/ status = "failed" /\ provider = None

\* insert_initial and append_revision: an unreviewed draft.
Draft(r) ==
    /\ revision' = r
    /\ endorsed' = 0
    /\ status' = "draft"
    /\ correlation' = 0
    /\ provider' = None

-----------------------------------------------------------------------------
(* Content *)

\* ReviewedEmailService.get on a decision that has no e-mail yet.
Open ==
    /\ revision = 0
    /\ current
    /\ Draft(1)
    /\ UNCHANGED <<current, reviewed, send, sends, wire, replies, delivered>>

\* A new revision takes the old one's review away.
Save(r) ==
    /\ current
    /\ revision = r /\ r < MaxRevisions
    /\ Editable
    /\ Draft(r + 1)
    /\ UNCHANGED <<current, reviewed, send, sends, wire, replies, delivered>>

Review(r) ==
    /\ current
    /\ revision = r
    /\ r \notin reviewed
    /\ reviewed' = reviewed \union {r}
    /\ endorsed' = r
    /\ UNCHANGED <<current, revision, status, correlation, provider, send, sends, wire, replies, delivered>>

\* The proposal is replaced, withdrawn or re-analysed; a decision's approval
\* never becomes current again.
ReplaceApproval ==
    /\ current
    /\ current' = FALSE
    /\ UNCHANGED <<row, reviewed, send, sends, wire, replies, delivered>>

-----------------------------------------------------------------------------
(* Sending *)

\* send, up to its claim: _send_records on the revision the reviewer saw.
SendRead(h, r) ==
    /\ send[h].phase = "idle"
    /\ current
    /\ revision = r
    /\ r \in reviewed /\ endorsed = r
    /\ status \in {"draft", "failed"}
    /\ send' = [send EXCEPT ![h] = [phase |-> "read", revision |-> r, correlation |-> 0,
                                    outcome |-> "uncertain"]]
    /\ UNCHANGED <<current, row, reviewed, sends, wire, replies, delivered>>

\* Mutant: the claim does not look at the review again.
ClaimableAnyRevision(h) == Editable

\* Mutant: the claim relies on the status read before.
ClaimableAgain(h) == endorsed = send[h].revision

\* The WHERE clause of claim_send.
Claimable(h) == Editable /\ endorsed = send[h].revision

SendClaim(h) ==
    /\ send[h].phase = "read"
    /\ current
    /\ sends < MaxSends
    /\ Claimable(h)
    /\ sends' = sends + 1
    /\ status' = "submitting"
    /\ correlation' = sends + 1
    /\ provider' = None
    /\ send' = [send EXCEPT ![h] = [phase |-> "claimed", revision |-> @.revision,
                                    correlation |-> sends + 1, outcome |-> @.outcome]]
    /\ UNCHANGED <<current, revision, endorsed, reviewed, wire, replies, delivered>>

\* GraphMailClient.send_message: the request leaves, or no token is obtained.
Submit(h) ==
    /\ send[h].phase = "claimed"
    /\ \/ /\ wire' = wire \union {MessageOf(h)}
          /\ send' = [send EXCEPT ![h].phase = "posted"]
       \/ /\ send' = [send EXCEPT ![h].phase = "answered", ![h].outcome = "failed"]
          /\ UNCHANGED wire
    /\ UNCHANGED <<current, row, reviewed, sends, replies, delivered>>

\* Mutant: an answer that does not come counts as a failure.
GiveUpOutcome == "failed"

\* A timeout or transport error after the request has left.
UnansweredOutcome == "uncertain"

\* _request: the provider's answer, or none within the timeout.
Answer(h) ==
    /\ send[h].phase = "posted"
    /\ \E o \in Outcome :
          /\ \/ [correlation |-> send[h].correlation, outcome |-> o] \in replies
             \/ o = UnansweredOutcome
          /\ send' = [send EXCEPT ![h].phase = "answered", ![h].outcome = o]
    /\ UNCHANGED <<current, row, reviewed, sends, wire, replies, delivered>>

\* _transition: only the send that is still recorded as submitting is settled.
Settle(h) ==
    /\ send[h].phase = "answered"
    /\ status' = IF correlation = send[h].correlation /\ status = "submitting"
                 THEN send[h].outcome ELSE status
    /\ send' = [send EXCEPT ![h] = Idle]
    /\ UNCHANGED <<current, revision, endorsed, correlation, provider, reviewed, sends, wire, replies, delivered>>

\* The request is refused, loses its claim, raises, or its process dies: what
\* it had written and what it had submitted remain.
Stop(h) ==
    /\ send[h].phase # "idle"
    /\ send' = [send EXCEPT ![h] = Idle]
    /\ UNCHANGED <<current, row, reviewed, sends, wire, replies, delivered>>

-----------------------------------------------------------------------------
(* The provider (Microsoft Graph sendMail), as the client understands it:   *)
(* 202 means sent, a status below 500 means not sent, 5xx may mean either.  *)

Deliver(m) ==
    /\ delivered' = delivered \union {m}
    /\ \E o \in {"accepted", "uncertain"} :
          replies' = replies \union {[correlation |-> m.correlation, outcome |-> o]}

Discard(m) ==
    /\ \E o \in {"failed", "uncertain"} :
          replies' = replies \union {[correlation |-> m.correlation, outcome |-> o]}
    /\ UNCHANGED delivered

Provider(m) ==
    /\ m \in wire
    /\ wire' = wire \ {m}
    /\ Deliver(m) \/ Discard(m)
    /\ UNCHANGED <<current, row, reviewed, send, sends>>

-----------------------------------------------------------------------------
EmailInit ==
    /\ current = TRUE
    /\ revision = 0 /\ endorsed = 0 /\ status = "draft"
    /\ correlation = 0 /\ provider = None
    /\ reviewed = {}
    /\ send = [h \in Senders |-> Idle]
    /\ sends = 0
    /\ wire = {} /\ replies = {} /\ delivered = {}

EmailNext ==
    \/ Open \/ ReplaceApproval
    \/ \E r \in 1..MaxRevisions : Save(r) \/ Review(r)
    \/ \E h \in Senders :
          \/ \E r \in 1..MaxRevisions : SendRead(h, r)
          \/ SendClaim(h) \/ Submit(h) \/ Answer(h) \/ Settle(h) \/ Stop(h)
    \/ \E m \in wire : Provider(m)

EmailSpec == EmailInit /\ [][EmailNext]_emailVars

-----------------------------------------------------------------------------
(* Properties *)

TypeOK ==
    /\ current \in BOOLEAN
    /\ revision \in Nat /\ endorsed \in Nat
    /\ status \in SendStatus
    /\ correlation \in Nat
    /\ provider = None       \* no path of the code stores another value
    /\ reviewed \in SUBSET Nat
    /\ send \in [Senders -> Sending]
    /\ sends \in Nat
    /\ wire \in SUBSET Message
    /\ replies \in SUBSET [correlation : Nat, outcome : Outcome]
    /\ delivered \in SUBSET Message

\* Messages that have reached the supplier or still may.
Released == delivered \union wire

\* The supplier gets the e-mail at most once, whatever is retried: two send
\* requests race, an answer is lost, a process dies after submitting.
AtMostOneCopy == \A m, n \in Released : m = n

\* What the supplier gets, or may still get, is the revision that a person
\* reviewed and that the case shows: no edit slips in between the review, the
\* claim and a submission whose fate is open.
SentAsReviewed ==
    \A m \in Released : /\ m.revision = revision
                        /\ m.revision = endorsed
                        /\ m.revision \in reviewed

\* The recorded status never claims more than is known: a draft or failed
\* e-mail has not gone out and cannot any more, an accepted one has.
StatusTruthful ==
    /\ status \in {"draft", "failed"} => Released = {}
    /\ status = "accepted" => delivered # {}

\* A send request past its claim, alone: the row waits for its outcome.
SendersMatch ==
    /\ \A h \in Senders : send[h].phase # "idle" => send[h].revision > 0
    /\ \A h \in Senders :
          send[h].phase \in {"claimed", "posted", "answered"} =>
              /\ status = "submitting"
              /\ correlation = send[h].correlation
              /\ endorsed = send[h].revision
    /\ \A g, h \in Senders :
          /\ send[g].phase \in {"claimed", "posted", "answered"}
          /\ send[h].phase \in {"claimed", "posted", "answered"}
          => g = h
    /\ \A h \in Senders :
          send[h].phase = "claimed" =>
              /\ Released = {}
              /\ \A a \in replies : a.correlation # send[h].correlation

\* What is under way carries the row's correlation id, is handled
\* once, and ids are fresh.
CorrelationsFresh ==
    /\ wire \intersect delivered = {}
    /\ \A m \in Released : m.correlation = correlation
    /\ \A a \in replies : a.correlation <= sends
    /\ correlation <= sends

\* An answer, and an outcome about to be recorded, tells what happened.
AnswersTruthful ==
    /\ \A a \in replies : \A m \in Released :
          a.outcome = "failed" => m.correlation # a.correlation
    /\ \A a \in replies :
          a.outcome = "accepted" => \E m \in delivered : m.correlation = a.correlation
    /\ \A h \in Senders :
          send[h].phase = "answered" =>
              /\ send[h].outcome = "failed" => Released = {}
              /\ send[h].outcome = "accepted" => delivered # {}

\* A reviewed revision number on the row is the newest revision, reviewed.
ReviewsMatch ==
    /\ endorsed # 0 => endorsed = revision /\ endorsed \in reviewed
    /\ status # "draft" => endorsed # 0

\* The inductive invariant.
EmailInvariant ==
    /\ TypeOK /\ SendersMatch /\ CorrelationsFresh /\ AnswersTruthful /\ ReviewsMatch
    /\ AtMostOneCopy /\ SentAsReviewed /\ StatusTruthful

-----------------------------------------------------------------------------
\* What becomes of the letter: it is out from the claim on, until the claim is
\* given up, the provider drops it or it has been delivered.
Fate ==
    IF delivered # {} THEN "arrived"
    ELSE IF wire # {} \/ \E h \in Senders : send[h].phase = "claimed" THEN "underway"
    ELSE "unsent"

Letter == INSTANCE ReviewedMail
            WITH current <- current, revision <- revision, endorsed <- endorsed,
                 fate <- Fate, told <- status

\* Send requests that race, answers that are lost or late and processes that
\* die never show: the case behaves as if the letter were dispatched and its
\* fate told in single steps, only as reviewed and only once (ReviewedMail).
ImplementsReviewedMail == Letter!Spec
=============================================================================
