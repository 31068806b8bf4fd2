--------------------------- MODULE TaskPublication ---------------------------
(***************************************************************************)
(* Committing a publication to a tasks checkout.  The registry and the      *)
(* allowlist are two files that readers use together: a writer stages both, *)
(* names them in a journal, renames them into place and removes the         *)
(* journal; the next writer rolls a journal forward.  Readers take no lock. *)
(* A process may die between any two operations, and a power loss undoes     *)
(* the last directory operations that were not yet synced.                  *)
(***************************************************************************)
EXTENDS Naturals, Sequences, SequencesExt

CONSTANTS
    Publishers, CheckoutReaders,
    Bundles, BundleOf,  \* [1 .. MaxPublications -> Bundles]: the version a publication adds
    ReadAttempts,       \* READ_ATTEMPTS
    MaxPublications, MaxPublishFailures, \* bounds
    NoFile, NoPublisher

ASSUME PublicationConstants ==
    /\ {ReadAttempts, MaxPublications, MaxPublishFailures} \subseteq Nat
    /\ BundleOf \in [1 .. MaxPublications -> Bundles] /\ NoPublisher \notin Publishers
    /\ NoFile \notin [registry : Seq(Nat), allowlist : Nat]

VARIABLES
    dir,        \* what processes see: [registry, allowlist, journal, stagedRegistry, stagedAllowlist]
    disk,       \* the states of dir since it was last synced: what a power loss may leave
    store,      \* versions/: "None", "Renamed" or "Sealed" by bundle
    storeDisk,
    flock,      \* who holds .publication.lock
    publisher,  \* [pc, base, id, recovering]
    checkoutReader,     \* [pc, tries, registry, allowlist, got]
    made,       \* publications derived so far
    acknowledged, \* publications whose commit_publication returned
    publishFailures

publicationVars == <<dir, disk, store, storeDisk, flock, publisher, checkoutReader, made, acknowledged, publishFailures>>

\* A registry's content is the sequence of its publications, an allowlist's the one it was built for.
Empty == [registry |-> <<>>, allowlist |-> 0, journal |-> NoFile, stagedRegistry |-> NoFile, stagedAllowlist |-> NoFile]

PublicationInit ==
    /\ dir = Empty /\ disk = <<Empty>>
    /\ store = [b \in Bundles |-> "None"] /\ storeDisk = store
    /\ flock = NoPublisher
    /\ publisher = [p \in Publishers |-> [pc |-> "Idle", base |-> <<>>, id |-> 0, recovering |-> FALSE]]
    /\ checkoutReader = [r \in CheckoutReaders |-> [pc |-> "Idle", tries |-> 0, registry |-> <<>>, allowlist |-> 0, got |-> <<>>]]
    /\ made = 0 /\ acknowledged = {} /\ publishFailures = 0

At(p, pc) == publisher[p].pc = pc
To(p, pc) == publisher' = [publisher EXCEPT ![p].pc = pc]

\* An exception leaves checkout_writer, which gives the lock back and touches nothing else.
Raise(p) ==
    /\ To(p, "Idle") /\ flock' = NoPublisher
    /\ UNCHANGED <<dir, disk, store, storeDisk, checkoutReader, made, acknowledged, publishFailures>>

-----------------------------------------------------------------------------
(* checkout_writer *)

\* The writer that finds a journal completes it first.
checkout_writer(p) ==
    /\ At(p, "Idle") /\ flock = NoPublisher /\ made < MaxPublications
    /\ flock' = p
    /\ publisher' = [publisher EXCEPT ![p] = [@ EXCEPT
           !.recovering = dir.journal # NoFile, !.pc = IF dir.journal # NoFile THEN "Allowlist" ELSE "Derive"]]
    /\ UNCHANGED <<dir, disk, store, storeDisk, checkoutReader, made, acknowledged, publishFailures>>

\* publish_tasks_checkout reads the registry, plans the release and builds what the store lacks.
publish_tasks_checkout(p) ==
    /\ At(p, "Derive") /\ made < MaxPublications
    /\ made' = made + 1
    /\ publisher' = [publisher EXCEPT ![p] = [@ EXCEPT !.pc = "Bundle", !.base = dir.registry, !.id = made + 1]]
    /\ UNCHANGED <<dir, disk, store, storeDisk, flock, checkoutReader, acknowledged, publishFailures>>

\* TaskVersionStore.publish: rename the synced bundle, sync the root, seal it; one that is there is sealed again.
publish(p) ==
    LET b == BundleOf[publisher[p].id]
    IN  \/ /\ At(p, "Bundle")
           /\ store' = [store EXCEPT ![b] = IF @ = "None" THEN "Renamed" ELSE "Sealed"]
           /\ To(p, "BundleSync") /\ UNCHANGED storeDisk
           /\ UNCHANGED <<dir, disk, flock, checkoutReader, made, acknowledged, publishFailures>>
        \/ /\ At(p, "BundleSync")
           /\ storeDisk' = store
           /\ To(p, "Seal") /\ UNCHANGED store
           /\ UNCHANGED <<dir, disk, flock, checkoutReader, made, acknowledged, publishFailures>>
        \/ /\ At(p, "Seal")
           /\ store' = [store EXCEPT ![b] = "Sealed"] /\ storeDisk' = [storeDisk EXCEPT ![b] = "Sealed"]
           /\ To(p, "Check")
           /\ UNCHANGED <<dir, disk, flock, checkoutReader, made, acknowledged, publishFailures>>

-----------------------------------------------------------------------------
(* commit_publication *)

NewRegistry(p) == Append(publisher[p].base, publisher[p].id)

ChangeDir(p, new, pc) ==
    /\ dir' = new /\ disk' = IF new = dir THEN disk ELSE Append(disk, new)
    /\ To(p, pc)
    /\ UNCHANGED <<store, storeDisk, flock, checkoutReader, made, acknowledged, publishFailures>>

CheckRegistry(p) ==
    /\ At(p, "Check")
    /\ IF dir.registry = publisher[p].base THEN ChangeDir(p, dir, "StageRegistry") ELSE Raise(p)

\* _write_durably syncs the file; its name is synced with the directory.
StageRegistry(p) ==
    /\ At(p, "StageRegistry")
    /\ ChangeDir(p, [dir EXCEPT !.stagedRegistry = NewRegistry(p)], "StageAllowlist")
StageAllowlist(p) ==
    /\ At(p, "StageAllowlist")
    /\ ChangeDir(p, [dir EXCEPT !.stagedAllowlist = publisher[p].id], "Journal")
WriteJournal(p) ==
    /\ At(p, "Journal")
    /\ ChangeDir(p, [dir EXCEPT !.journal = [registry |-> NewRegistry(p), allowlist |-> publisher[p].id]], "JournalSync")

\* A recovering writer renames the staged file whose digest the journal holds; one that is gone must be in place.
ReplaceAllowlist(p) ==
    /\ At(p, "Allowlist")
    /\ IF dir.stagedAllowlist = dir.journal.allowlist
       THEN ChangeDir(p, [dir EXCEPT !.allowlist = dir.stagedAllowlist, !.stagedAllowlist = NoFile], "Registry")
       ELSE IF publisher[p].recovering /\ dir.allowlist = dir.journal.allowlist
       THEN ChangeDir(p, dir, "Registry")
       ELSE Raise(p)
ReplaceRegistry(p) ==
    /\ At(p, "Registry")
    /\ IF dir.stagedRegistry = dir.journal.registry
       THEN ChangeDir(p, [dir EXCEPT !.registry = dir.stagedRegistry, !.stagedRegistry = NoFile], "ReplaceSync")
       ELSE IF publisher[p].recovering /\ dir.registry = dir.journal.registry
       THEN ChangeDir(p, dir, "ReplaceSync")
       ELSE Raise(p)

\* Mutant: the directory is never synced.
SyncForgotten(p, pc, next) == At(p, pc) /\ ChangeDir(p, dir, next)

_fsync_directory(p, pc, next) ==
    /\ At(p, pc)
    /\ disk' = <<dir>> /\ To(p, next)
    /\ UNCHANGED <<dir, store, storeDisk, flock, checkoutReader, made, acknowledged, publishFailures>>

RemoveJournal(p) ==
    /\ At(p, "Unlink")
    /\ ChangeDir(p, [dir EXCEPT !.journal = NoFile], "UnlinkSync")

\* A recovery goes on with its own publication, a commit returns and the lock is given back.
Finish(p) ==
    /\ At(p, "Done")
    /\ IF publisher[p].recovering
       THEN /\ publisher' = [publisher EXCEPT ![p] = [@ EXCEPT !.pc = "Derive", !.recovering = FALSE]]
            /\ UNCHANGED <<flock, acknowledged>>
       ELSE /\ To(p, "Idle") /\ flock' = NoPublisher
            /\ acknowledged' = acknowledged \cup {publisher[p].id}
    /\ UNCHANGED <<dir, disk, store, storeDisk, checkoutReader, made, publishFailures>>

Commit(p) ==
    \/ CheckRegistry(p) \/ StageRegistry(p) \/ StageAllowlist(p) \/ WriteJournal(p)
    \/ _fsync_directory(p, "JournalSync", "Allowlist")
    \/ ReplaceAllowlist(p) \/ ReplaceRegistry(p)
    \/ _fsync_directory(p, "ReplaceSync", "Unlink")
    \/ RemoveJournal(p) \/ _fsync_directory(p, "UnlinkSync", "Done") \/ Finish(p)

-----------------------------------------------------------------------------
(* Failures *)

\* The kernel gives a dead process's lock back.
Die(p) ==
    /\ publisher[p].pc # "Idle" /\ publishFailures < MaxPublishFailures
    /\ publishFailures' = publishFailures + 1 /\ To(p, "Idle") /\ flock' = NoPublisher
    /\ UNCHANGED <<dir, disk, store, storeDisk, checkoutReader, made, acknowledged>>

\* A journalling file system keeps directory operations in order: the power loss takes a suffix of them.
PowerLoss ==
    /\ publishFailures < MaxPublishFailures
    /\ publishFailures' = publishFailures + 1
    /\ \E i \in DOMAIN disk : dir' = disk[i] /\ disk' = <<disk[i]>>
    /\ \E s \in {store, storeDisk} : store' = s /\ storeDisk' = s
    /\ flock' = NoPublisher
    /\ publisher' = [p \in Publishers |-> [publisher[p] EXCEPT !.pc = "Idle"]]
    /\ checkoutReader' = [r \in CheckoutReaders |-> [checkoutReader[r] EXCEPT !.pc = "Idle"]]
    /\ UNCHANGED <<made, acknowledged>>

-----------------------------------------------------------------------------
(* read_coherently *)

CheckoutReads(r, new) ==
    checkoutReader' = [checkoutReader EXCEPT ![r] = new] /\ UNCHANGED <<dir, disk, store, storeDisk, flock, publisher, made, acknowledged, publishFailures>>

assert_no_pending_publication == dir.journal = NoFile

BeginReading(r) ==
    /\ checkoutReader[r].pc = "Idle" /\ assert_no_pending_publication
    /\ CheckoutReads(r, [checkoutReader[r] EXCEPT !.pc = "Registry", !.tries = 1])
ReadRegistry(r) == checkoutReader[r].pc = "Registry" /\ CheckoutReads(r, [checkoutReader[r] EXCEPT !.pc = "Allowlist", !.registry = dir.registry])
ReadAllowlist(r) == checkoutReader[r].pc = "Allowlist" /\ CheckoutReads(r, [checkoutReader[r] EXCEPT !.pc = "Used", !.allowlist = dir.allowlist])

\* The result is used only if no journal is there and both files still hold the same bytes.
CheckPending(r) ==
    /\ checkoutReader[r].pc = "Used"
    /\ CheckoutReads(r, [checkoutReader[r] EXCEPT !.pc = IF assert_no_pending_publication THEN "CompareRegistry" ELSE "Idle"])

Again(r) ==
    CheckoutReads(r, IF checkoutReader[r].tries < ReadAttempts /\ assert_no_pending_publication
             THEN [checkoutReader[r] EXCEPT !.pc = "Registry", !.tries = @ + 1] ELSE [checkoutReader[r] EXCEPT !.pc = "Idle"])

CompareRegistry(r) ==
    /\ checkoutReader[r].pc = "CompareRegistry"
    /\ IF dir.registry = checkoutReader[r].registry THEN CheckoutReads(r, [checkoutReader[r] EXCEPT !.pc = "CompareAllowlist"]) ELSE Again(r)
CompareAllowlist(r) ==
    /\ checkoutReader[r].pc = "CompareAllowlist"
    /\ IF dir.allowlist = checkoutReader[r].allowlist
       THEN CheckoutReads(r, [checkoutReader[r] EXCEPT !.pc = "Idle", !.got = <<checkoutReader[r].registry, checkoutReader[r].allowlist>>])
       ELSE Again(r)

read_coherently(r) ==
    BeginReading(r) \/ ReadRegistry(r) \/ ReadAllowlist(r) \/ CheckPending(r) \/ CompareRegistry(r) \/ CompareAllowlist(r)

PublicationNext ==
    \/ \E p \in Publishers : checkout_writer(p) \/ publish_tasks_checkout(p) \/ publish(p) \/ Commit(p) \/ Die(p)
    \/ \E r \in CheckoutReaders : read_coherently(r)
    \/ PowerLoss

PublicationSpec == PublicationInit /\ [][PublicationNext]_publicationVars

-----------------------------------------------------------------------------
LastOr0(s) == IF s = <<>> THEN 0 ELSE Last(s)

PublicationTypeOK ==
    /\ dir.registry \in Seq(1 .. MaxPublications) /\ dir.allowlist \in 0 .. MaxPublications
    /\ flock \in Publishers \cup {NoPublisher} /\ made \in 0 .. MaxPublications
    /\ \A p \in Publishers : publisher[p].pc # "Idle" => flock = p

\* A crash or power loss at any point leaves either a journal or an allowlist that belongs to the registry.
CheckoutIsCoherent == dir.journal = NoFile => dir.allowlist = LastOr0(dir.registry)

\* What read_coherently returned is one committed state, and no power loss takes it back.
ReadersSeeCommitted ==
    \A r \in CheckoutReaders : checkoutReader[r].got # <<>> =>
        /\ checkoutReader[r].got[2] = LastOr0(checkoutReader[r].got[1])
        /\ IsPrefix(checkoutReader[r].got[1], dir.registry)

\* A publication whose commit returned stays in the registry, whoever publishes or dies after it.
AcknowledgedStays == \A id \in acknowledged : \E i \in 1 .. Len(dir.registry) : dir.registry[i] = id

\* A registry that a reader may use names only versions whose bytes are in the store.
RegistryNamesStored ==
    \A i \in 1 .. Len(dir.registry) : store[BundleOf[dir.registry[i]]] # "None"

\* What a publication keeps through crashes and power losses at any write: one committed state for
\* every reader, which no later publisher takes back (publish, _recover, read_coherently).
PublicationIsDurable ==
    PublicationTypeOK /\ CheckoutIsCoherent /\ ReadersSeeCommitted /\ AcknowledgedStays /\ RegistryNamesStored
=============================================================================
