----------------------------- MODULE ReviewDesk -----------------------------
(***************************************************************************)
(* What reviewers and authors do around one Lean-verified submission:      *)
(* the author attaches PDFs (src/submission_api/routers/submission_pdfs),  *)
(* the advisory service sweeps the submission under a lease and records    *)
(* its stages (src/conjectures_subnet/db/autoreview_models), reviewers     *)
(* read the record in two statements and rule on it later                  *)
(* (src/submission_api/routers/reviews), and the public reads what is      *)
(* published.  Money and reward targets are the business of PublicReads    *)
(* and PayoutTransactions and do not appear here.                          *)
(***************************************************************************)
EXTENDS Integers, Sequences, FiniteSets, SequencesExt

CONSTANTS
    PdfUploads,    \* requests that upload a PDF
    Documents,     \* contents a PDF may have, by digest
    Reviewers,     \* reviewers with the page open
    Visitors,      \* readers of the public listing
    Sweepers,      \* workers of the advisory service
    UploadSlots,   \* the semaphore of a process: 2
    MaxPdfs,       \* MAX_PDFS
    MaxTries,   \* bound: pdf uploads that are tried again, and sweeps
    MaxRuled       \* bound: binding decisions

NoUploader == "nobody"

ASSUME ReviewDeskBounds == /\ UploadSlots \in Nat \ {0} /\ MaxPdfs \in Nat \ {0}
                           /\ MaxTries \in Nat /\ MaxRuled \in Nat
                           /\ NoUploader \notin PdfUploads

VARIABLES
    pdfs,      \* submission_pdfs of the submission, oldest first
    uploading, \* each upload: where it is, the document, the rows it read
    pdfLock,   \* the upload that holds the submission's row FOR UPDATE
    slots,     \* free permits of pdf_upload_slots
    tried,     \* uploads begun
    ruledOn,   \* binding decisions: <<decision, superseded id>>, by id
    desk,      \* each reviewer: where they are and what their page shows
    visitor,   \* each visitor: where they are and what they were shown
    sweeps,    \* autoreview.runs: [status, owner, leased], by attempt
    advice     \* autoreview.stage_results: the attempts with a row

pdfVars == <<pdfs, uploading, pdfLock, slots, tried>>
sweepVars == <<sweeps, advice>>
reviewDeskVars == <<pdfVars, ruledOn, desk, visitor, sweepVars>>

ClosedPage == [at |-> "away", binding |-> 0, attempts |-> {}]
Unread == [at |-> "away", shown |-> <<>>, when |-> 0]

ReviewDeskInit ==
    /\ pdfs = <<>> /\ pdfLock = NoUploader /\ slots = UploadSlots /\ tried = 0
    /\ uploading = [u \in PdfUploads |-> [at |-> "idle", document |-> "none", rows |-> <<>>]]
    /\ ruledOn = <<>>
    /\ desk = [r \in Reviewers |-> ClosedPage]
    /\ visitor = [v \in Visitors |-> Unread]
    /\ sweeps = <<>> /\ advice = {}

(* latest_binding_decision, and whether the submission is ACCEPTED.        *)
Binding == Len(ruledOn)
ApprovedAt(n) == n > 0 /\ ruledOn[n][1] = "APPROVED"
IsAccepted == ApprovedAt(Binding)

----------------------------------------------------------------------------
(* upload: consent, name and ownership, then a slot or a refusal.          *)
begin_upload(u) ==
    /\ uploading[u].at = "idle" /\ tried < MaxTries
    /\ tried' = tried + 1
    /\ IF slots = 0
       THEN UNCHANGED <<uploading, slots>>                              \* PDF_BUSY
       ELSE /\ slots' = slots - 1
            /\ \E d \in Documents :
                 uploading' = [uploading EXCEPT ![u] = [at |-> "reading", document |-> d, rows |-> <<>>]]
    /\ UNCHANGED <<pdfs, pdfLock, ruledOn, desk, visitor, sweepVars>>

EndUpload(u) == uploading' = [uploading EXCEPT ![u] = [at |-> "idle", document |-> "none", rows |-> <<>>]]

(* The permit goes back however the request ends.                          *)
release_slot(u) == slots' = slots + 1

(* read_pdf: a body that is whole, or one that is late, too large or no    *)
(* PDF; a client that hangs is cut off by the timer.                       *)
read_pdf(u) ==
    /\ uploading[u].at = "reading"
    /\ \/ uploading' = [uploading EXCEPT ![u].at = "locking"] /\ UNCHANGED slots
       \/ EndUpload(u) /\ release_slot(u)
    /\ UNCHANGED <<pdfs, pdfLock, tried, ruledOn, desk, visitor, sweepVars>>

(* owner(lock=True).                                                       *)
RowFree(u) == pdfLock = NoUploader

lock_and_list(u) ==
    /\ uploading[u].at = "locking" /\ RowFree(u)
    /\ pdfLock' = u
    /\ uploading' = [uploading EXCEPT ![u] = [at |-> "deciding", document |-> @.document, rows |-> pdfs]]
    /\ UNCHANGED <<pdfs, slots, tried, ruledOn, desk, visitor, sweepVars>>

(* A retry of the same content is answered with the stored row, a further  *)
(* file is refused at the limit, and the unique constraint on the content  *)
(* fails an insert that another one preceded.                              *)
insert(u) ==
    /\ uploading[u].at = "deciding"
    /\ pdfs' = IF \/ uploading[u].document \in Range(uploading[u].rows)
                  \/ Len(uploading[u].rows) >= MaxPdfs
                  \/ uploading[u].document \in Range(pdfs)
               THEN pdfs ELSE Append(pdfs, uploading[u].document)
    /\ pdfLock' = NoUploader
    /\ EndUpload(u) /\ release_slot(u)
    /\ UNCHANGED <<tried, ruledOn, desk, visitor, sweepVars>>

(* remove: under the same lock; removing what is gone is no error.         *)
remove ==
    /\ pdfLock = NoUploader
    /\ \E i \in DOMAIN pdfs : pdfs' = RemoveAt(pdfs, i)
    /\ UNCHANGED <<uploading, pdfLock, slots, tried, ruledOn, desk, visitor, sweepVars>>

----------------------------------------------------------------------------
(* The public listing: the gate in one statement, the rows in another that *)
(* applies the gate again.                                                 *)
public_submission(v) ==
    /\ visitor[v].at = "away"
    /\ visitor' = [visitor EXCEPT ![v] = [at |-> IF IsAccepted THEN "listing" ELSE "away",
                                       shown |-> <<>>, when |-> @.when]]
    /\ UNCHANGED <<pdfVars, ruledOn, desk, sweepVars>>

(* Trusts the first statement.                                             *)
listed_without_the_gate == pdfs

ListedPdfs == IF IsAccepted THEN pdfs ELSE <<>>

pdf_list(v) ==
    /\ visitor[v].at = "listing"
    /\ visitor' = [visitor EXCEPT ![v] = [at |-> "away", shown |-> ListedPdfs, when |-> Binding]]
    /\ UNCHANGED <<pdfVars, ruledOn, desk, sweepVars>>

----------------------------------------------------------------------------
(* The advisory service: a claim is a row RUNNING under a lease, one at a  *)
(* time, for a submission nobody ruled on and no sweep completed.          *)

Running == {n \in DOMAIN sweeps : sweeps[n].status = "RUNNING"}

Leased(w) == [status |-> "RUNNING", owner |-> w, leased |-> TRUE]

claim_sweep(w) ==
    /\ Binding = 0 /\ Running = {} /\ Len(sweeps) < MaxTries
    /\ \A n \in DOMAIN sweeps : sweeps[n].status # "COMPLETED"
    /\ sweeps' = Append(sweeps, Leased(w))
    /\ UNCHANGED <<pdfVars, ruledOn, desk, visitor, advice>>

(* A stage's result, written to the sweep it was made in.                  *)
record_stage(w) ==
    /\ \E n \in DOMAIN sweeps : sweeps[n].owner = w /\ advice' = advice \cup {n}
    /\ advice' # advice
    /\ UNCHANGED <<pdfVars, ruledOn, desk, visitor, sweeps>>

settle_sweep(w) ==
    /\ \E n \in Running, status \in {"COMPLETED", "FAILED"} :
         /\ sweeps[n].owner = w
         /\ sweeps' = [sweeps EXCEPT ![n] = [status |-> status, owner |-> @.owner, leased |-> FALSE]]
    /\ UNCHANGED <<pdfVars, ruledOn, desk, visitor, advice>>

(* A lease that ran out: the sweep crashed, or is only slow.               *)
lease_expired ==
    /\ \E n \in Running : /\ sweeps[n].leased
                          /\ sweeps' = [sweeps EXCEPT ![n] = [status |-> "FAILED", owner |-> @.owner, leased |-> FALSE]]
    /\ UNCHANGED <<pdfVars, ruledOn, desk, visitor, advice>>

----------------------------------------------------------------------------
(* A reviewer's page: the submission with its binding decision, then what  *)
(* the models said (attempts_for), in a second statement.                  *)
read_review(r) ==
    /\ desk[r].at \in {"away", "read"}
    /\ desk' = [desk EXCEPT ![r] = [at |-> "reading", binding |-> Binding, attempts |-> {}]]
    /\ UNCHANGED <<pdfVars, ruledOn, visitor, sweepVars>>

attempts_for(r) ==
    /\ desk[r].at = "reading"
    /\ desk' = [desk EXCEPT ![r] = [at |-> "read", binding |-> @.binding, attempts |-> advice]]
    /\ UNCHANGED <<pdfVars, ruledOn, visitor, sweepVars>>

(* supersedes_id is compared with the binding decision under the lock.     *)
StillBinding(r) == desk[r].binding = Binding

(* record_decision for a submission without a ruling, correct_decision for *)
(* one with a ruling: posted from the page, whenever it was read.          *)
rule(r) ==
    /\ desk[r].at = "read" /\ pdfLock = NoUploader /\ Binding < MaxRuled
    /\ desk[r].binding = 0 => Binding = 0                        \* REVIEW_ALREADY_DECIDED
    /\ desk[r].binding # 0 => Binding # 0 /\ StillBinding(r)     \* REVIEW_CORRECTION_STALE
    /\ \E decision \in {"APPROVED", "REJECTED"} :
         ruledOn' = Append(ruledOn, <<decision, Binding>>)
    /\ desk' = [desk EXCEPT ![r] = ClosedPage]
    /\ UNCHANGED <<pdfVars, visitor, sweepVars>>

----------------------------------------------------------------------------
StoreStep(u) == lock_and_list(u) \/ insert(u)

ReviewerStep == \E r \in Reviewers : read_review(r) \/ attempts_for(r) \/ rule(r)

PapersNext ==
    \/ \E u \in PdfUploads : begin_upload(u) \/ read_pdf(u) \/ StoreStep(u)
    \/ remove
    \/ \E v \in Visitors : public_submission(v) \/ pdf_list(v)
    \/ ReviewerStep

AdviceNext ==
    \/ \E w \in Sweepers : claim_sweep(w) \/ record_stage(w) \/ settle_sweep(w)
    \/ lease_expired
    \/ ReviewerStep

(* Uploads are timed and run by the event loop; a lease runs out.  Nothing *)
(* makes a sweeper live on or a reviewer rule.                             *)
DeskGoesOn ==
    /\ \A u \in PdfUploads : /\ WF_reviewDeskVars(read_pdf(u))
                             /\ SF_reviewDeskVars(StoreStep(u))
    /\ WF_reviewDeskVars(lease_expired)

ReviewDeskSpec == ReviewDeskInit /\ [][PapersNext \/ AdviceNext]_reviewDeskVars /\ DeskGoesOn

----------------------------------------------------------------------------
(* However uploads of one submission overlap, at most MAX_PDFS are kept    *)
(* and no content twice; the row lock is what makes the count current.     *)
AttachmentsAreBounded ==
    Len(pdfs) <= MaxPdfs /\ Cardinality(Range(pdfs)) = Len(pdfs)

(* Nobody is shown the attachments of a submission whose approval a        *)
(* correction had already taken back, whichever of the listing's two       *)
(* statements came before it.                                              *)
ShownWasApproved == \A v \in Visitors : visitor[v].shown # <<>> => ApprovedAt(visitor[v].when)

(* A ruling replaces exactly the ruling its reviewer had read: a reviewer  *)
(* who looked before a colleague corrected is refused, not obeyed.         *)
RulingsAreInformed ==
    \A r \in Reviewers : desk[r].at = "read" /\ desk'[r].at = "away" =>
          ruledOn'[Len(ruledOn')][2] = desk[r].binding

(* Slots come back and sweeps end: every upload is over in the end, and    *)
(* then no permit is missing, and a sweeper that died does not keep its    *)
(* submission for ever.                                                    *)
UploadsEnd == []<>(slots = UploadSlots)
SweepsSettle == []<>(Running = {})
=============================================================================
