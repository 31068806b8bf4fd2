--------------------------- MODULE MCEntitlements ---------------------------
(***************************************************************************)
(* Small instances of the modules of what somebody may have: invitations,  *)
(* bounties and their prices, sessions and request rates.  The modules     *)
(* share no variable, so a behaviour is about one of them.                 *)
(***************************************************************************)
EXTENDS Invitations, BountyReservations, PriceFeeds, Sessions, RateWindow

\* The component a behaviour is about: the others stand still in it.
CONSTANT Scenarios
VARIABLE scenario

\* An invitation for two, redeemed by three guests (one of them twice at once) and one who may not.
MaxRedemptionsV == [l \in Links |-> 2]
RedeemLinkV == [r \in Redeems |-> "l1"]
RedeemForV == <<"g1", "g1", "g2", "g3", "g4">>

\* Two proofs of two targets; a share that starts at a half of the balance and ends at all of it.
ForTargetV == [s1 |-> "u", s2 |-> "v"]
StartShareV == <<1, 2>>
MaxShareV == <<1, 1>>

\* Two holders ask to link one coldkey, and two tokens are minted for it.
MintKeyV == [m \in Mints |-> "k1"]
LinkForV == [q \in LinkRequests |-> IF q = "q2" THEN "h2" ELSE "h1"]
LinkKeyV == [q \in LinkRequests |-> "k1"]

Runs(component) == scenario = component

entitlementsVars == <<scenario, inviteVars, bountyVars, priceVars, cliVars, browserVars, rateVars>>

EntitlementsInit ==
    /\ scenario \in Scenarios
    /\ InviteInit /\ BountyInit /\ PricesInit /\ CliInit /\ BrowserInit /\ RateInit

InvitationsRuns ==
    /\ Runs("invitations") /\ InviteNext
    /\ UNCHANGED <<scenario, bountyVars, priceVars, cliVars, browserVars, rateVars>>

BountyReservationsRuns ==
    /\ Runs("bounties") /\ BountyNext
    /\ UNCHANGED <<scenario, inviteVars, priceVars, cliVars, browserVars, rateVars>>

PriceFeedsRuns ==
    /\ Runs("prices") /\ PricesNext
    /\ UNCHANGED <<scenario, inviteVars, bountyVars, cliVars, browserVars, rateVars>>

CliRuns ==
    /\ Runs("cli") /\ CliNext
    /\ UNCHANGED <<scenario, inviteVars, bountyVars, priceVars, browserVars, rateVars>>

BrowserRuns ==
    /\ Runs("browsers") /\ BrowserNext
    /\ UNCHANGED <<scenario, inviteVars, bountyVars, priceVars, cliVars, rateVars>>

RateWindowRuns ==
    /\ (Runs("limits") /\ RequestsNext) \/ (Runs("guesses") /\ GuessesNext)
    /\ UNCHANGED <<scenario, inviteVars, bountyVars, priceVars, cliVars, browserVars>>

EntitlementsNext ==
    \/ InvitationsRuns \/ BountyReservationsRuns \/ PriceFeedsRuns \/ CliRuns
    \/ BrowserRuns \/ RateWindowRuns

EntitlementsSpec == EntitlementsInit /\ [][EntitlementsNext]_entitlementsVars

-----------------------------------------------------------------------------
\* The limits hold in every race for what is left: grants of an invitation, hits and guesses of a window,
\* the age of a price and the share of a bounty (redeem, ratelimit.py, rates.py, calculate_bounty_rao).
LimitsHold ==
    /\ Runs("invitations") => GrantsWithinLimit
    /\ Runs("limits") => WindowHolds
    /\ Runs("guesses") => GuessesAreBounded
    /\ Runs("prices") => PriceIsRecent /\ RefusedOnlyInOutage
    /\ Runs("bounties") => SharesStayInBounds

\* A session is its holder's and lasts as long as it should: tokens die of age, keys are the holder's own,
\* and somebody active stays signed in (touch_session, link_wallet, send_with_refresh).
SessionsAreTheHoldersOwn ==
    /\ Runs("cli") => TokensDieOfAge /\ KeysAreTheHoldersOwn
    /\ Runs("browsers") => ActiveStaysSignedIn

\* What was promised, ended or withdrawn stays so, whatever request was under way with an older view:
\* locks of a bounty, its age, withdrawn invitations, ended sessions, a told waiting time, and no source
\* is asked twice in a window.
EntitlementsStand ==
    [][/\ WithdrawnGrantsNothing /\ LockIsCovered /\ AgeNeverResets /\ OneRequestPerWindow /\ CeilingHolds
       /\ EndedStaysEnded /\ ForeignPagesEndNothing /\ RetryAfterIsKept
      ]_entitlementsVars
=============================================================================
