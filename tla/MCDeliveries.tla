---------------------------- MODULE MCDeliveries ----------------------------
(***************************************************************************)
(* Small instances of the modules of what is delivered in several steps:   *)
(* chat-log packages, notices to signers, papers and reviews.  The modules *)
(* share no variable, so a behaviour is about one of them.  ReviewDesk is  *)
(* run twice: papers with at most two rulings, and advice.                 *)
(***************************************************************************)
EXTENDS ChatLogUploads, PayoutNotices, ReviewDesk

\* The component a behaviour is about: the others stand still in it.
CONSTANT Scenarios
VARIABLE scenario

\* A package of two parts, the first of which a client may send twice and differently.
ClaimOwnerV == <<"a">>
StoredBeforeV == {<<>>, <<"x", "z">>}
PartAtV == <<{"x", "y"}, {"z"}>>

LockedBountyV == <<2, 2>>

Runs(component) == scenario = component

DeliveriesInit ==
    /\ scenario \in Scenarios
    /\ Runs("uploads") \/ (packages = <<Package(<<>>)>>)
    /\ UploadsInit /\ NoticesInit /\ ReviewDeskInit

ChatLogUploadsRuns ==
    /\ Runs("uploads") /\ UploadsNext
    /\ UNCHANGED <<scenario, noticeVars, reviewDeskVars>>

PayoutNoticesRuns ==
    /\ Runs("notices") /\ NoticesNext
    /\ UNCHANGED <<scenario, uploadVars, reviewDeskVars>>

PapersRuns ==
    /\ Runs("papers") /\ PapersNext /\ Len(ruledOn') <= 2
    /\ UNCHANGED <<scenario, uploadVars, noticeVars>>

AdviceRuns ==
    /\ Runs("advice") /\ AdviceNext
    /\ UNCHANGED <<scenario, uploadVars, noticeVars>>

DeliveriesNext ==
    \/ ChatLogUploadsRuns \/ PayoutNoticesRuns \/ PapersRuns \/ AdviceRuns

\* The fairness of each component's own specification, while it is the one that runs.
DeliveriesSpec ==
    /\ DeliveriesInit /\ [][DeliveriesNext]_<<scenario, uploadVars, noticeVars, reviewDeskVars>>
    /\ \A q \in LogRequests : WF_uploadVars(Runs("uploads") /\ EndRequest(q))
    /\ WF_uploadVars(Runs("uploads") /\ chunks)
    /\ \A w \in Notifiers : WF_noticeVars(Runs("notices") /\ (process_once(w) \/ PassGoesOn(w)))
    /\ \A n \in Notices : WF_noticeVars(Runs("notices") /\ (retry_is_due(n) \/ lease_ends(n)))
    /\ \A u \in PdfUploads : /\ WF_reviewDeskVars(Runs("papers") /\ read_pdf(u))
                             /\ SF_reviewDeskVars(Runs("papers") /\ StoreStep(u))
    /\ WF_reviewDeskVars(Runs("advice") /\ lease_expired)

-----------------------------------------------------------------------------
\* What people outside are told or shown is so: a notice marked sent was accepted, and attachments are
\* those of an approved result, bounded although uploads overlap (_finish, submission_pdfs.py).
DeliveriesAreTrue ==
    /\ Runs("notices") => SentWasAccepted
    /\ Runs("papers") => AttachmentsAreBounded /\ ShownWasApproved

\* What was decided stands: a sent notice stays sent, an award stays what it was and within its lock,
\* and a ruling replaces the one its reviewer read (_finish, award, correct_human_decision).
DecisionsStand == [][SentIsFinal /\ OwedWithinTheLock /\ RulingsAreInformed]_<<noticeVars, reviewDeskVars>>

\* Every transfer, upload and sweep ends and every signer of a standing award is told.
DeliveriesEnd == TransfersEnd /\ SignersAreTold /\ UploadsEnd /\ SweepsSettle
=============================================================================
