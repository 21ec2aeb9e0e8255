----------------------------- MODULE Sourcing -----------------------------
(***************************************************************************)
(* One request for quotation of opstrax-supplyops-v1 (services.js), its    *)
(* lines and the quotes of vendors for it. No handler touches the rows of  *)
(* two requests, and each is one transaction.                              *)
(***************************************************************************)
EXTENDS Integers, FiniteSets

CONSTANTS
  RfqLines,    \* bound: lines ever added to the request
  LineQtys,    \* quantities a line may ask for
  Quotes,      \* bound: quotes ever made for it
  Prices,      \* totals of a quote
  NoQuote      \* a null awarded_quote_id

ASSUME SourcingAssumption ==
  /\ IsFiniteSet(RfqLines) /\ IsFiniteSet(Quotes) /\ NoQuote \notin Quotes
  /\ LineQtys \subseteq Nat \ {0} /\ Prices \subseteq Nat

VARIABLES
  rfq,         \* the row of rfq_requests with its lines
  quote        \* rows of vendor_quotes

SourcingVars == <<rfq, quote>>

RfqRow == [status : {"NONE", "DRAFT", "SENT", "EVALUATED", "AWARDED", "CANCELLED"},
           awarded : Quotes \cup {NoQuote},      \* awarded_quote_id
           lines : [RfqLines -> LineQtys \cup {0}]]
\* at: the total when the quote was awarded (awarded_at is not null), for the
\* properties.
Absent == [status |-> "NONE"]
QuoteRow == [status : {"DRAFT", "SUBMITTED", "SHORTLISTED", "AWARDED", "REJECTED", "EXPIRED"},
             total : Prices, wasAwarded : BOOLEAN, at : Prices]

SourcingInit ==
  /\ rfq = [status |-> "NONE", awarded |-> NoQuote, lines |-> [l \in RfqLines |-> 0]]
  /\ quote = [q \in Quotes |-> Absent]

Made == {q \in Quotes : quote[q] # Absent}

-----------------------------------------------------------------------------
CreateRfqRequest(l, n) ==
  /\ rfq.status = "NONE"
  /\ rfq' = [rfq EXCEPT !.status = "DRAFT", !.lines[l] = n]
  /\ UNCHANGED quote

CreateRfqLine(l, n) ==
  /\ rfq.status = "DRAFT" /\ rfq.lines[l] = 0
  /\ rfq' = [rfq EXCEPT !.lines[l] = n]
  /\ UNCHANGED quote

\* Whatever the status of the request.
UpdateRfqLine(l, n) ==
  /\ rfq.lines[l] # 0
  /\ rfq' = [rfq EXCEPT !.lines[l] = n]
  /\ UNCHANGED quote

\* The last line too.
DeleteRfqLine(l) ==
  /\ rfq.status = "DRAFT" /\ rfq.lines[l] # 0
  /\ rfq' = [rfq EXCEPT !.lines[l] = 0]
  /\ UNCHANGED quote

SendRfqRequest ==
  /\ rfq.status = "DRAFT"
  /\ rfq' = [rfq EXCEPT !.status = "SENT"]
  /\ UNCHANGED quote

\* Whatever the status of the request, a cancelled or awarded one included.
EvaluateRfqRequest ==
  /\ Made # {}
  /\ rfq' = [rfq EXCEPT !.status = "EVALUATED"]
  /\ UNCHANGED quote

CancelRfqRequest ==
  /\ rfq.status \in {"DRAFT", "SENT"}
  /\ rfq' = [rfq EXCEPT !.status = "CANCELLED"]
  /\ UNCHANGED quote

-----------------------------------------------------------------------------
\* For a request in whatever status.
CreateVendorQuote(q, n) ==
  /\ rfq.status # "NONE"
  /\ q \notin Made
  /\ quote' = [quote EXCEPT ![q] =
       [status |-> "DRAFT", total |-> n, wasAwarded |-> FALSE, at |-> n]]
  /\ UNCHANGED rfq

\* Fault for UpdateVendorQuote: every quote that still stands may be changed.
UpdateVendorQuoteStanding(q, n) ==
  /\ q \in Made /\ quote[q].status \notin {"REJECTED", "EXPIRED"}
  /\ quote' = [quote EXCEPT ![q].total = n]
  /\ UNCHANGED rfq
UpdateVendorQuote(q, n) ==
  /\ q \in Made /\ quote[q].status \in {"DRAFT", "SUBMITTED"}
  /\ quote' = [quote EXCEPT ![q].total = n]
  /\ UNCHANGED rfq

SubmitVendorQuote(q) ==
  /\ quote[q].status = "DRAFT"
  /\ quote' = [quote EXCEPT ![q].status = "SUBMITTED"]
  /\ UNCHANGED rfq

ShortlistVendorQuote(q) ==
  /\ quote[q].status \in {"SUBMITTED", "SHORTLISTED"}
  /\ quote' = [quote EXCEPT ![q].status = "SHORTLISTED"]
  /\ UNCHANGED rfq

\* awardRfqRequest and awardVendorQuote write the same two rows, whatever they
\* were: an earlier award stays on its quote.
AwardQuote(q) ==
  /\ q \in Made
  /\ rfq' = [rfq EXCEPT !.status = "AWARDED", !.awarded = q]
  /\ quote' = [quote EXCEPT ![q] =
       [@ EXCEPT !.status = "AWARDED", !.wasAwarded = TRUE, !.at = quote[q].total]]

\* rejectVendorQuote and expireVendorQuote: whatever the status was.
CloseVendorQuote(q, status) ==
  /\ q \in Made
  /\ quote' = [quote EXCEPT ![q].status = status]
  /\ UNCHANGED rfq

SourcingNext ==
  \/ \E l \in RfqLines :
       \/ \E n \in LineQtys : CreateRfqRequest(l, n) \/ CreateRfqLine(l, n) \/ UpdateRfqLine(l, n)
       \/ DeleteRfqLine(l)
  \/ SendRfqRequest \/ EvaluateRfqRequest \/ CancelRfqRequest
  \/ \E q \in Quotes :
       \/ \E n \in Prices : CreateVendorQuote(q, n) \/ UpdateVendorQuote(q, n)
       \/ SubmitVendorQuote(q) \/ ShortlistVendorQuote(q) \/ AwardQuote(q)
       \/ \E status \in {"REJECTED", "EXPIRED"} : CloseVendorQuote(q, status)

SourcingSpec == SourcingInit /\ [][SourcingNext]_SourcingVars

-----------------------------------------------------------------------------
SourcingTypes ==
  /\ rfq \in RfqRow
  /\ quote \in [Quotes -> QuoteRow \cup {Absent}]

(* In whatever order a request is sent, evaluated, cancelled and awarded,  *)
(* and its quotes changed, closed and awarded again: a request has an      *)
(* awarded quote exactly when some quote was awarded, it is past           *)
(* cancelling then, and a quote that was awarded keeps the total it was    *)
(* awarded with.                                                           *)
AwardStands ==
  LET awarded == {q \in Made : quote[q].wasAwarded}
  IN /\ rfq.awarded = NoQuote <=> awarded = {}
     /\ awarded # {} => rfq.awarded \in awarded /\ rfq.status \in {"EVALUATED", "AWARDED"}
     /\ \A q \in awarded : /\ quote[q].total = quote[q].at
                           /\ quote[q].status \in {"AWARDED", "REJECTED", "EXPIRED"}
=============================================================================
