------------------------------- MODULE Sessions -------------------------------
(***************************************************************************)
(* Sessions of an account: what is signed in, and how it ends.             *)
(*                                                                         *)
(* First, the bearer sessions of the command line: minted for a linked     *)
(* coldkey with a signed challenge, at most a ceiling of them per account, *)
(* refreshed by use up to an age, and ended from several sides.  The       *)
(* accounts, coldkey links and the designated submission coldkey they      *)
(* depend on are here too.                                                 *)
(*                                                                         *)
(* Then a signed-in browser: its cookie jar, its requests in flight, the   *)
(* session rows behind them, and the middleware that keeps the cookie's    *)
(* expiry in step with the rolling session (middleware.py, dependencies.py,*)
(* sessions.py, origin_policy.py).  Several tabs share the jar; answers    *)
(* arrive in any order or not at all.  A request resolves its session in   *)
(* one statement and extends it in another.  One account signs in and out; *)
(* how a sign-in proves itself, and two of them at once, is SignIn's       *)
(* subject.                                                                *)
(***************************************************************************)
EXTENDS Naturals, FiniteSetsExt

CONSTANTS
    Holders,        \* accounts
    Coldkeys,
    Mints,          \* command-line sign-ins, each with its challenge, and the bearer session it opens
    MintKey,        \* [Mints -> Coldkeys]
    LinkRequests,   \* requests to link a coldkey, each with its challenge
    LinkFor, LinkKey, \* [LinkRequests -> Holders], [LinkRequests -> Coldkeys]
    ChallengeAttempts, \* challenge_attempts
    Ceiling,        \* cli_sessions_per_account
    Lifetime, MaxLifetime, \* cli_session_days, cli_session_max_days
    LastDay,        \* bound on time
    NoHolder, NoKey

ASSUME CliConstants ==
    /\ IsFiniteSet(Mints)
    /\ MintKey \in [Mints -> Coldkeys] /\ LinkFor \in [LinkRequests -> Holders] /\ LinkKey \in [LinkRequests -> Coldkeys]
    /\ {ChallengeAttempts, Ceiling, Lifetime, MaxLifetime, LastDay} \subseteq Nat \ {0} /\ Lifetime <= MaxLifetime
    /\ NoHolder \notin Holders /\ NoKey \notin Coldkeys

VARIABLES
    day,
    keyOwner,   \* account_wallets by coldkey
    designated, \* accounts.submission_coldkey
    bearer,     \* account_sessions of kind BEARER: [state, holder, issued, expires, seen]
    mint,       \* command-line sign-ins: [pc, attempts, holder, ends, alone]
    linking,    \* link requests: [pc, attempts]
    replacing   \* designations in progress: [key, previous, read] by account

cliVars == <<day, keyOwner, designated, bearer, mint, linking, replacing>>

NoBearer == [state |-> "None", holder |-> NoHolder, issued |-> 0, expires |-> 0, seen |-> 0]
NoReplacing == [open |-> FALSE, key |-> NoKey, previous |-> NoKey]

CliInit ==
    /\ day = 0
    /\ keyOwner = [k \in Coldkeys |-> NoHolder]
    /\ designated = [h \in Holders |-> NoKey]
    /\ bearer = [m \in Mints |-> NoBearer]
    /\ mint = [m \in Mints |-> [pc |-> "New", attempts |-> 0, holder |-> NoHolder, ends |-> {}, alone |-> TRUE]]
    /\ linking = [q \in LinkRequests |-> [pc |-> "New", attempts |-> 0]]
    /\ replacing = [h \in Holders |-> NoReplacing]

Tomorrow ==
    /\ day < LastDay
    /\ day' = day + 1
    /\ UNCHANGED <<keyOwner, designated, bearer, mint, linking, replacing>>

-----------------------------------------------------------------------------
(* Linking a coldkey, from a browser session *)

coldkey_challenge(q) ==
    /\ linking[q].pc = "New"
    /\ linking' = [linking EXCEPT ![q].pc = "Open"]
    /\ UNCHANGED <<day, keyOwner, designated, bearer, mint, replacing>>

open_challenge_by_nonce(row) == row.pc = "Open" /\ row.attempts < ChallengeAttempts

link_badly_signed(q) ==
    /\ open_challenge_by_nonce(linking[q])
    /\ linking' = [linking EXCEPT ![q].attempts = @ + 1]
    /\ UNCHANGED <<day, keyOwner, designated, bearer, mint, replacing>>

\* account_wallets' primary key: a coldkey that another account linked is refused and the challenge stays open.
link_wallet(q) == keyOwner[LinkKey[q]] = NoHolder

link_coldkey(q) ==
    /\ open_challenge_by_nonce(linking[q]) /\ link_wallet(q)
    /\ keyOwner' = [keyOwner EXCEPT ![LinkKey[q]] = LinkFor[q]]
    /\ linking' = [linking EXCEPT ![q].pc = "Done"]
    /\ UNCHANGED <<day, designated, bearer, mint, replacing>>

-----------------------------------------------------------------------------
(* The designated submission coldkey *)

Live(m) == bearer[m].state = "Live" /\ bearer[m].expires > day

\* The request's account was loaded when its session was resolved.
BeginReplacing(h, k) ==
    /\ ~replacing[h].open /\ (k # NoKey => keyOwner[k] = h)
    /\ replacing' = [replacing EXCEPT ![h] = [open |-> TRUE, key |-> k, previous |-> designated[h]]]
    /\ UNCHANGED <<day, keyOwner, designated, bearer, mint, linking>>

revoke_sessions_for_coldkey(k) == {m \in Mints : bearer[m].state = "Live" /\ MintKey[m] = k}
Revoked(sessions) == [m \in Mints |-> IF m \in sessions THEN [bearer[m] EXCEPT !.state = "Revoked"] ELSE bearer[m]]

put_submission_coldkey(h) ==
    LET asked == replacing[h]
    IN  /\ asked.open
        /\ designated' = [designated EXCEPT ![h] = asked.key]
        /\ bearer' = IF asked.previous \notin {NoKey, asked.key}
                     THEN Revoked(revoke_sessions_for_coldkey(asked.previous)) ELSE bearer
        /\ replacing' = [replacing EXCEPT ![h] = NoReplacing]
        /\ UNCHANGED <<day, keyOwner, mint, linking>>

-----------------------------------------------------------------------------
(* Minting a bearer token *)

OpenMints(h) == {m \in Mints : mint[m].pc = "Minting" /\ mint[m].holder = h}

cli_challenge(m) ==
    /\ mint[m].pc = "New"
    /\ mint' = [mint EXCEPT ![m].pc = "Open"]
    /\ UNCHANGED <<day, keyOwner, designated, bearer, linking, replacing>>

\* record_failed_attempt is committed; the challenge closes with the last attempt.
cli_badly_signed(m) ==
    /\ open_challenge_by_nonce(mint[m])
    /\ mint' = [mint EXCEPT ![m].attempts = @ + 1]
    /\ UNCHANGED <<day, keyOwner, designated, bearer, linking, replacing>>

_evict_surplus_cli_sessions(h) ==
    LET mine == {m \in Mints : Live(m) /\ bearer[m].holder = h}
    IN  {E \in SUBSET mine : /\ Cardinality(mine \ E) < Ceiling
                             /\ E # {} => Cardinality(mine \ E) = Ceiling - 1
                             /\ \A m \in E, n \in mine \ E : bearer[m].issued <= bearer[n].issued}

\* The signature is right and the coldkey linked; the challenge's row is the request's until it commits.
\* A minting of the same account that is under way is not seen by the count.
BeginMinting(m) ==
    LET h == keyOwner[MintKey[m]]
    IN  /\ open_challenge_by_nonce(mint[m]) /\ h # NoHolder
        /\ \E ends \in _evict_surplus_cli_sessions(h) :
              mint' = [n \in Mints |->
                  CASE n = m -> [pc |-> "Minting", attempts |-> mint[m].attempts, holder |-> h, ends |-> ends,
                                   alone |-> OpenMints(h) = {}]
                    [] n \in OpenMints(h) -> [mint[n] EXCEPT !.alone = FALSE]
                    [] OTHER -> mint[n]]
        /\ UNCHANGED <<day, keyOwner, designated, bearer, linking, replacing>>

cli_verify(m) ==
    /\ mint[m].pc = "Minting"
    /\ bearer' = [Revoked(mint[m].ends) EXCEPT ![m] =
           [state |-> "Live", holder |-> mint[m].holder, issued |-> day, expires |-> day + Lifetime, seen |-> day]]
    /\ mint' = [mint EXCEPT ![m].pc = "Done"]
    /\ UNCHANGED <<day, keyOwner, designated, linking, replacing>>

-----------------------------------------------------------------------------
(* Using and ending sessions *)

Least(a, b) == IF a < b THEN a ELSE b
refreshed_without_end(m) == day + Lifetime
refreshed(m) == Least(day + Lifetime, bearer[m].issued + MaxLifetime)

\* get_optional_principal: the row by its digest, the coldkey still the account's, and the refresh.
get_optional_principal(m) ==
    /\ Live(m) /\ keyOwner[MintKey[m]] = bearer[m].holder /\ bearer[m].seen < day
    /\ bearer' = [bearer EXCEPT ![m].seen = day, ![m].expires = refreshed(m)]
    /\ UNCHANGED <<day, keyOwner, designated, mint, linking, replacing>>

\* logout, DELETE /me/sessions/{id}
revoke_session(m) ==
    /\ bearer[m].state = "Live"
    /\ bearer' = Revoked({m})
    /\ UNCHANGED <<day, keyOwner, designated, mint, linking, replacing>>

\* revoke_other_sessions with a session of the account, revoke_account_sessions by an administrator
RevokeAll(h, kept) ==
    /\ bearer' = Revoked({m \in Mints \ kept : bearer[m].state = "Live" /\ bearer[m].holder = h})
    /\ UNCHANGED <<day, keyOwner, designated, mint, linking, replacing>>

CliNext ==
    \/ Tomorrow
    \/ \E q \in LinkRequests : coldkey_challenge(q) \/ link_badly_signed(q) \/ link_coldkey(q)
    \/ \E h \in Holders : put_submission_coldkey(h) \/ \E k \in Coldkeys \cup {NoKey} : BeginReplacing(h, k)
    \/ \E m \in Mints : \/ cli_challenge(m) \/ cli_badly_signed(m) \/ BeginMinting(m) \/ cli_verify(m)
                        \/ get_optional_principal(m) \/ revoke_session(m)
    \/ \E h \in Holders : RevokeAll(h, {}) \/ \E m \in Mints : Live(m) /\ bearer[m].holder = h /\ RevokeAll(h, {m})

CliSpec == CliInit /\ [][CliNext]_cliVars

-----------------------------------------------------------------------------
\* A minting that no other minting of the account overlapped leaves at most the ceiling of live tokens behind,
\* whatever races came before it (_evict_surplus_cli_sessions).
CeilingHolds ==
    \A m \in Mints : mint[m].pc = "Minting" /\ mint'[m].pc = "Done" /\ mint[m].alone
                        => Cardinality({n \in Mints : Live(n)' /\ bearer'[n].holder = mint[m].holder}) <= Ceiling

\* However often it is used, a token dies at its maximal age (touch_session); after that somebody signs again.
TokensDieOfAge == \A m \in Mints : Live(m) => day < bearer[m].issued + MaxLifetime

\* The coldkey an account submits under, and the one each of its tokens speaks for, are linked to that account and
\* no other, however link requests for one coldkey race.
KeysAreTheHoldersOwn ==
    /\ \A h \in Holders : designated[h] # NoKey => keyOwner[designated[h]] = h
    /\ \A m \in Mints : bearer[m].state = "Live" => keyOwner[MintKey[m]] = bearer[m].holder

-----------------------------------------------------------------------------
(* A signed-in browser.                                                    *)

CONSTANTS
    Tabs,          \* requests that may be in flight at once
    MaxTokens,     \* bound: sign-ins
    SessionLifetime,      \* session_days
    RefreshAfter,  \* session_refresh_minutes
    MaxDay       \* bound: days that pass

ASSUME BrowserBounds == /\ MaxTokens \in Nat /\ MaxDay \in Nat
                        /\ SessionLifetime \in Nat /\ RefreshAfter \in Nat /\ RefreshAfter < SessionLifetime

VARIABLES
    jar,      \* the browser's session cookie: its token and when it expires
    sessionRows,     \* account_sessions, one per token
    flight,   \* what each tab's request is doing
    today,      \* the clock
    used      \* the last day each session was used by a request whose answer arrived

browserVars == <<jar, sessionRows, flight, today, used>>

CookieTokens == 1..MaxTokens
NoToken == 0
NoFlight == [at |-> "none"]
Unissued == [issued |-> FALSE, revoked |-> FALSE, until |-> 0, seen |-> 0]

BrowserInit ==
    /\ jar = [token |-> NoToken, until |-> 0]
    /\ sessionRows = [t \in CookieTokens |-> Unissued]
    /\ flight = [r \in Tabs |-> NoFlight]
    /\ today = 0
    /\ used = [t \in CookieTokens |-> 0]

----------------------------------------------------------------------------
(* What a browser says about the page a request came from: an origin, a   *)
(* fetch site, or, if it is old or something stripped them, neither.      *)

CookieHeaders(page) ==
    IF page = "site" THEN {<<"listed", "same-site">>, <<"none", "same-origin">>, <<"none", "none">>}
                     ELSE {<<"other", "cross-site">>, <<"null", "cross-site">>, <<"none", "cross-site">>, <<"none", "none">>}

classify(headers) ==
    CASE headers[1] = "listed" -> "allowed"
      [] headers[1] \in {"null", "other"} -> "refused"
      [] headers[2] \in {"same-origin", "user"} -> "allowed"
      [] headers[2] \in {"same-site", "cross-site"} -> "refused"
      [] OTHER -> "unproven"

(* The jar sends its cookie until the cookie expires.                     *)
_cookie_value == IF jar.until > today THEN jar.token ELSE NoToken

send(r) ==
    /\ flight[r] = NoFlight
    /\ \E kind \in {"browse", "account", "login", "logout"}, page \in {"site", "foreign"} :
         /\ kind \in {"browse", "account", "login"} => page = "site"
         /\ \E h \in IF kind = "logout" THEN CookieHeaders(page) ELSE {<<"none", "same-origin">>} :
              flight' = [flight EXCEPT ![r] =
                  [at |-> "sent", kind |-> kind, page |-> page, says |-> classify(h), cookie |-> _cookie_value, since |-> 0]]
    /\ UNCHANGED <<jar, sessionRows, today, used>>

(* An answer: whether it succeeded, the cookie its route sets, if any,    *)
(* and the session that was good on the day it was served.                *)
PageAnswers(r, ok, sets, proves, served) ==
    flight' = [flight EXCEPT ![r] = [at |-> "answered", ok |-> ok, sets |-> sets, cookie |-> flight[r].cookie,
                                     page |-> flight[r].page, proves |-> proves, served |-> served]]
Refused(r) == PageAnswers(r, FALSE, {}, {}, 0)

(* CrossOriginWriteGuard refuses what a browser says is foreign before    *)
(* any route runs.                                                        *)
guard(r) ==
    /\ flight[r].at = "sent" /\ flight[r].says = "refused"
    /\ Refused(r) /\ UNCHANGED <<jar, sessionRows, today, used>>

(* A public page needs no session.                                        *)
browse(r) ==
    /\ flight[r].at = "sent" /\ flight[r].kind = "browse"
    /\ PageAnswers(r, TRUE, {}, {}, 0)
    /\ UNCHANGED <<jar, sessionRows, today, used>>

----------------------------------------------------------------------------
(* Authentication: resolve, then extend if the row was not used lately.   *)

Lives(t) == t # NoToken /\ sessionRows[t].issued /\ ~sessionRows[t].revoked /\ sessionRows[t].until > today

resolve_session(r) ==
    /\ flight[r].at = "sent" /\ flight[r].kind \in {"account", "logout"} /\ flight[r].says # "refused"
    /\ IF Lives(flight[r].cookie) THEN flight' = [flight EXCEPT ![r].at = "resolved"] ELSE Refused(r)
    /\ UNCHANGED <<jar, sessionRows, today, used>>

touched(t) ==
    IF Lives(t) /\ sessionRows[t].seen + RefreshAfter < today
    THEN [sessionRows EXCEPT ![t].seen = today, ![t].until = today + SessionLifetime]
    ELSE sessionRows

refresh_cookie(r) ==
    /\ flight[r].at = "resolved"
    /\ sessionRows' = touched(flight[r].cookie)
    /\ flight' = [flight EXCEPT ![r].at = "authenticated", ![r].since = IF Lives(flight[r].cookie) THEN today ELSE 0]
    /\ UNCHANGED <<jar, today, used>>

account_page(r) ==
    /\ flight[r].at = "authenticated" /\ flight[r].kind = "account"
    /\ PageAnswers(r, TRUE, {}, {flight[r].cookie}, flight[r].since)
    /\ UNCHANGED <<jar, sessionRows, today, used>>

(* require_writer: a browser session may write only if the request has    *)
(* shown where it came from.                                              *)
require_writer(r) == flight[r].says = "allowed"

browser_logout(r) ==
    /\ flight[r].at = "authenticated" /\ flight[r].kind = "logout"
    /\ IF require_writer(r)
       THEN sessionRows' = [sessionRows EXCEPT ![flight[r].cookie].revoked = TRUE] /\ PageAnswers(r, TRUE, {NoToken}, {}, 0)
       ELSE Refused(r) /\ UNCHANGED sessionRows
    /\ UNCHANGED <<jar, today, used>>

(* A sign-in retires every earlier browser session of the account.        *)
browser_sign_in(r) ==
    /\ flight[r].at = "sent" /\ flight[r].kind = "login"
    /\ \E t \in CookieTokens :
         /\ ~sessionRows[t].issued /\ (\A u \in 1..(t - 1) : sessionRows[u].issued)
         /\ sessionRows' = [u \in CookieTokens |-> IF u = t THEN [issued |-> TRUE, revoked |-> FALSE, until |-> today + SessionLifetime, seen |-> today]
                                      ELSE [sessionRows[u] EXCEPT !.revoked = sessionRows[u].issued]]
         /\ PageAnswers(r, TRUE, {t}, {t}, today)
    /\ UNCHANGED <<jar, today, used>>

----------------------------------------------------------------------------
(* The answer: SessionCookieRefreshMiddleware adds the cookie the request *)
(* came with, fresh, unless the route set it or the answer is an error.   *)

send_with_refresh(a) ==
    IF a.sets = {} /\ a.ok /\ a.cookie # NoToken THEN {a.cookie} ELSE a.sets

session_cookie(t) == [token |-> t, until |-> today + SessionLifetime]
cleared_cookies == [token |-> NoToken, until |-> 0]

arrives(r) ==
    /\ flight[r].at = "answered"
    /\ jar' = IF send_with_refresh(flight[r]) = {} THEN jar
              ELSE IF NoToken \in send_with_refresh(flight[r]) THEN cleared_cookies
              ELSE session_cookie(CHOOSE t \in CookieTokens : t \in send_with_refresh(flight[r]))
    /\ used' = [t \in CookieTokens |-> IF t \in flight[r].proves THEN Max({used[t], flight[r].served}) ELSE used[t]]
    /\ flight' = [flight EXCEPT ![r] = NoFlight]
    /\ UNCHANGED <<sessionRows, today>>

lost(r) ==
    /\ flight[r].at = "answered"
    /\ flight' = [flight EXCEPT ![r] = NoFlight]
    /\ UNCHANGED <<jar, sessionRows, today, used>>

next_day == today < MaxDay /\ today' = today + 1 /\ UNCHANGED <<jar, sessionRows, flight, used>>

BrowserNext ==
    \/ \E r \in Tabs : \/ send(r) \/ guard(r) \/ browse(r) \/ resolve_session(r) \/ refresh_cookie(r) \/ account_page(r)
                       \/ browser_logout(r) \/ browser_sign_in(r) \/ arrives(r) \/ lost(r)
    \/ next_day

BrowserSpec == BrowserInit /\ [][BrowserNext]_browserVars

----------------------------------------------------------------------------
Ended(t) == sessionRows[t].issued /\ ~Lives(t)

(* A request that races a sign-out, a new sign-in or the expiry does not  *)
(* resurrect the session: once it has ended, its row no longer moves on.  *)
EndedStaysEnded ==
    \A t \in CookieTokens : Ended(t) => sessionRows'[t].until = sessionRows[t].until /\ (sessionRows[t].revoked => sessionRows'[t].revoked)

(* "An active session does not expire under someone": while the browser   *)
(* used its session within the lifetime, less the slack in which the row  *)
(* is not extended, neither the row nor the cookie runs out.              *)
ActiveStaysSignedIn == \A t \in CookieTokens :
    jar.token = t /\ ~sessionRows[t].revoked /\ today < used[t] + (SessionLifetime - RefreshAfter) => Lives(t) /\ jar.until > today

(* Another site's page never ends a session, whatever the browser that    *)
(* carried its request did or did not say about it.                       *)
ForeignPagesEndNothing ==
    \A r \in Tabs : flight[r].at = "authenticated" /\ flight'[r].at = "answered" /\ flight[r].page = "foreign"
            => sessionRows' = sessionRows
=============================================================================
