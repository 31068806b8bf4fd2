----------------------------- MODULE Invitations -----------------------------
(***************************************************************************)
(* Invitation links.  A redemption locks the invitation's row, looks at it, *)
(* waits for the account's row and writes the redemption, the GRANT entry   *)
(* and the count; a revocation reads the row without a lock and its write   *)
(* waits for whoever holds it.                                              *)
(***************************************************************************)
EXTENDS Naturals, FiniteSets

CONSTANTS
    Links,          \* invitations
    MaxRedemptions, \* [Links -> Nat]: max_redemptions
    Guests,         \* accounts
    Verified,       \* accounts whose verified address is in the invitations' domain
    Limited,        \* invitations limited to the domain
    Redeems,        \* POST /{code}/redeem requests
    RedeemLink,     \* [Redeems -> Links]
    RedeemFor,      \* [Redeems -> Guests]
    NoRedeem

ASSUME InvitationConstants ==
    /\ MaxRedemptions \in [Links -> Nat \ {0}] /\ Verified \subseteq Guests /\ Limited \subseteq Links
    /\ RedeemLink \in [Redeems -> Links] /\ RedeemFor \in [Redeems -> Guests] /\ NoRedeem \notin Redeems

VARIABLES
    link,       \* invitations: [issued, revoked, expired, count]
    redeemed,   \* invitation_redemptions: <<invitation, account>>
    granted,    \* GRANT entries by account
    redeeming,  \* [pc, fresh] of the redeem requests; fresh: the time it read was before expiry
    revoking,   \* invitations an administrator has read and is about to withdraw
    linkLock    \* who holds the invitation's row

inviteVars == <<link, redeemed, granted, redeeming, revoking, linkLock>>

InviteInit ==
    /\ link = [l \in Links |-> [issued |-> FALSE, revoked |-> FALSE, expired |-> FALSE, count |-> 0]]
    /\ redeemed = {} /\ revoking = {}
    /\ granted = [g \in Guests |-> 0]
    /\ redeeming = [r \in Redeems |-> [pc |-> "New", fresh |-> FALSE]]
    /\ linkLock = [l \in Links |-> NoRedeem]

\* create: the code's digest is stored; the API has checked the range of credits and uses.
create_invitation(l) ==
    /\ ~link[l].issued
    /\ link' = [link EXCEPT ![l].issued = TRUE]
    /\ UNCHANGED <<redeemed, granted, redeeming, revoking, linkLock>>

Expire(l) ==
    /\ link[l].issued /\ ~link[l].expired
    /\ link' = [link EXCEPT ![l].expired = TRUE]
    /\ UNCHANGED <<redeemed, granted, redeeming, revoking, linkLock>>

Redeem(r, pc) == redeeming' = [redeeming EXCEPT ![r].pc = pc]

\* The request's time is read before it waits for the row.
redeem_invitation(r) ==
    /\ redeeming[r].pc = "New" /\ link[RedeemLink[r]].issued
    /\ redeeming' = [redeeming EXCEPT ![r] = [pc |-> "Asked", fresh |-> ~link[RedeemLink[r]].expired]]
    /\ UNCHANGED <<link, redeemed, granted, revoking, linkLock>>

_refuse_if_unusable(l, fresh) == link[l].revoked \/ ~fresh \/ link[l].count >= MaxRedemptions[l]
_require_email_domain(l, g) == l \in Limited => g \in Verified

LockInvitation(r) ==
    LET l == RedeemLink[r]
    IN  /\ redeeming[r].pc = "Asked" /\ linkLock[l] = NoRedeem
        /\ IF _refuse_if_unusable(l, redeeming[r].fresh) \/ ~_require_email_domain(l, RedeemFor[r])
           THEN Redeem(r, "Refused") /\ UNCHANGED linkLock
           ELSE Redeem(r, "Locked") /\ linkLock' = [linkLock EXCEPT ![l] = r]
        /\ UNCHANGED <<link, redeemed, granted, revoking>>

\* The UPDATE counts up where uses are left; the API refuses when no row was changed.
CountUp(l) ==
    IF link[l].count < MaxRedemptions[l] THEN [link EXCEPT ![l].count = @ + 1] ELSE link

\* invitation_redemption_once_per_account
FirstUse(l, g) == <<l, g>> \notin redeemed

redeem(r) ==
    LET l == RedeemLink[r]
        g == RedeemFor[r]
    IN  /\ redeeming[r].pc = "Locked"
        /\ linkLock' = [linkLock EXCEPT ![l] = NoRedeem]
        /\ IF FirstUse(l, g) /\ CountUp(l) # link
           THEN /\ redeemed' = redeemed \cup {<<l, g>>}
                /\ granted' = [granted EXCEPT ![g] = @ + 1]
                /\ link' = CountUp(l)
                /\ Redeem(r, "Granted")
           ELSE Redeem(r, "Refused") /\ UNCHANGED <<link, redeemed, granted>>
        /\ UNCHANGED revoking

\* revoke: the row is read, and written when no redemption holds it.
BeginRevoke(l) ==
    /\ link[l].issued /\ ~link[l].revoked /\ l \notin revoking
    /\ revoking' = revoking \cup {l}
    /\ UNCHANGED <<link, redeemed, granted, redeeming, linkLock>>

revoke(l) ==
    /\ l \in revoking /\ linkLock[l] = NoRedeem
    /\ link' = [link EXCEPT ![l].revoked = TRUE]
    /\ revoking' = revoking \ {l}
    /\ UNCHANGED <<redeemed, granted, redeeming, linkLock>>

InviteNext ==
    \/ \E l \in Links : create_invitation(l) \/ Expire(l) \/ BeginRevoke(l) \/ revoke(l)
    \/ \E r \in Redeems : redeem_invitation(r) \/ LockInvitation(r) \/ redeem(r)

InviteSpec == InviteInit /\ [][InviteNext]_inviteVars

\* What anybody with the code is told, and what an operator's list calls it.
read_invitation(l) ==
    IF link[l].revoked \/ link[l].expired \/ link[l].count = MaxRedemptions[l] THEN "Gone" ELSE "Offered"
_in_state(l) ==
    IF link[l].revoked THEN "revoked"
    ELSE IF link[l].expired THEN "expired"
    ELSE IF link[l].count >= MaxRedemptions[l] THEN "exhausted" ELSE "active"
-----------------------------------------------------------------------------
\* The count, the redemptions and the grants agree, and none passes the link's limit, however many
\* requests race for its last use (redeem: the row lock and the conditional UPDATE).
GrantsWithinLimit ==
    /\ \A l \in Links : /\ link[l].count = Cardinality({g \in Guests : <<l, g>> \in redeemed})
                        /\ link[l].count <= MaxRedemptions[l]
    /\ \A g \in Guests : granted[g] = Cardinality({l \in Links : <<l, g>> \in redeemed})

\* Once a withdrawal has been committed nobody is given anything, a request that was under way
\* included; and what is on offer is what the operator's list calls active (revoke, redeem).
WithdrawnGrantsNothing ==
    \A l \in Links : /\ link[l].revoked => link'[l].count = link[l].count
                        /\ (read_invitation(l) = "Offered") = (_in_state(l) = "active")
=============================================================================
