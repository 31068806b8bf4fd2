------------------------------- MODULE SignIn -------------------------------
(***************************************************************************)
(* Signing in at the website: mailed links, passwords, wallet signatures    *)
(* and Google.  Every request is one database transaction.  A row it has    *)
(* written, and a unique key it has inserted, is locked until it ends; what *)
(* it read before it came to wait may be out of date.                       *)
(***************************************************************************)
EXTENDS Naturals, FiniteSets

CONSTANTS
    Emails, Keys, Subjects, \* addresses, coldkeys, Google identities
    Passwords,
    Tokens,                 \* login_challenges
    SignInRequests,         \* requests that sign somebody in
    Ask,                    \* [SignInRequests -> [kind, email, key, subject, link, password]]
    Old, OldEmail, OldPassword, \* the account that exists at the start
    Attempts,               \* password_attempts
    LinksPerHour,           \* email_links_per_hour, challenges_per_hour
    MaxSignIns,             \* bound on the requests made
    Nil

\* What a row of accounts may hold.
AccountRows == [email : Emails \cup {Nil}, verified : BOOLEAN, password : Passwords \cup {Nil}, failures : Nat,
                pause : {"None", "Paused", "Over"}]

ASSUME SignInConstants ==
    /\ MaxSignIns \in Nat /\ Attempts \in Nat \ {0} /\ LinksPerHour \in Nat \ {0}
    /\ Old \notin SignInRequests /\ OldEmail \in Emails /\ OldPassword \in Passwords
    /\ Nil \notin Emails \cup Keys \cup Subjects \cup Passwords \cup Tokens \cup SignInRequests \cup {Old} \cup AccountRows
    /\ Ask \in [SignInRequests -> [kind : {"EmailLink", "Signup", "Reset", "Wallet", "Google", "Login"},
                 email : Emails \cup {Nil}, key : Keys \cup {Nil}, subject : Subjects \cup {Nil},
                 link : Tokens \cup {Nil}, password : Passwords \cup {Nil}]]
    /\ \A r \in SignInRequests :
          /\ Ask[r].link = Nil <=> Ask[r].kind \in {"Google", "Login"}
          /\ Ask[r].kind = "Wallet" => Ask[r].key \in Keys
          /\ Ask[r].kind = "Google" => Ask[r].email \in Emails /\ Ask[r].subject \in Subjects

VARIABLES
    account,    \* accounts: Nil or [email, verified, password, failures, pause]
    wallet,     \* account_wallets: the account of a coldkey
    identity,   \* account_identities: the account of a Google subject
    challenge,  \* login_challenges: [state, kind, email, account, key, password, at]
    cookie,     \* account_sessions of kind COOKIE by the request that opened them: [state, account]
    work,       \* the requests: [pc, account, seen, ends]
    lock,       \* who holds a row or the key of an uncommitted row
    guesses     \* wrong passwords since the account's counter was last set to 0

signInVars == <<account, wallet, identity, challenge, cookie, work, lock, guesses>>

AccountIds == SignInRequests \cup {Old}
Locked == Emails \cup Keys \cup Subjects \cup Tokens \cup AccountIds

NewAccount(email, verified, password) ==
    [email |-> email, verified |-> verified, password |-> password, failures |-> 0, pause |-> "None"]

SignInInit ==
    /\ account = [a \in AccountIds |-> IF a = Old THEN NewAccount(OldEmail, FALSE, OldPassword) ELSE Nil]
    /\ wallet = [k \in Keys |-> Nil] /\ identity = [s \in Subjects |-> Nil]
    /\ challenge = [c \in Tokens |-> [state |-> "None", kind |-> "None", email |-> Nil, account |-> Nil,
                                     key |-> Nil, password |-> Nil, at |-> 0]]
    /\ cookie = [r \in SignInRequests |-> [state |-> "None", account |-> Nil]]
    /\ work = [r \in SignInRequests |-> [pc |-> "New", account |-> Nil, seen |-> Nil, ends |-> {}]]
    /\ lock = [x \in Locked |-> Nil]
    /\ guesses = [a \in AccountIds |-> {}]

find_by_email(e) == {a \in AccountIds : account[a] # Nil /\ account[a].email = e}

Goes(r, pc) == work' = [work EXCEPT ![r].pc = pc]
Take(x, r) == lock' = [lock EXCEPT ![x] = r]
CanTake(x, r) == lock[x] \in {Nil, r}
GiveBack(r) == lock' = [x \in Locked |-> IF lock[x] = r THEN Nil ELSE lock[x]]

\* async_session_scope rolls back: nothing of the request remains.
Refuse(r) == Goes(r, "Refused") /\ GiveBack(r) /\ UNCHANGED <<account, wallet, identity, challenge, cookie, guesses>>

-----------------------------------------------------------------------------
(* Challenges *)

recent_challenge_count(kinds, e, k) ==
    Cardinality({c \in Tokens : challenge[c].kind \in kinds /\ challenge[c].email = e /\ challenge[c].key = k})
_mail_budget_spent(e) == recent_challenge_count({"EMAIL", "PASSWORD_SIGNUP", "PASSWORD_RESET"}, e, Nil) >= LinksPerHour

create_challenge(c, kind, e, a, k, password) ==
    /\ challenge[c].state = "None"
    /\ challenge' = [challenge EXCEPT ![c] = [state |-> "Open", kind |-> kind, email |-> e, account |-> a, key |-> k,
           password |-> password, at |-> Cardinality({d \in Tokens : challenge[d].state # "None"})]]
    /\ UNCHANGED <<account, wallet, identity, cookie, work, lock, guesses>>

request_email_link(c, e) ==
    /\ recent_challenge_count({"EMAIL"}, e, Nil) < LinksPerHour
    /\ create_challenge(c, "EMAIL", e, Nil, Nil, Nil)

\* A known address is sent a reset link instead, so that the answer tells nothing.
register_password(c, e, password) ==
    /\ ~_mail_budget_spent(e)
    /\ IF find_by_email(e) # {}
       THEN \E a \in find_by_email(e) : create_challenge(c, "PASSWORD_RESET", e, a, Nil, Nil)
       ELSE create_challenge(c, "PASSWORD_SIGNUP", e, Nil, Nil, password)

request_password_reset(c, e) ==
    /\ ~_mail_budget_spent(e)
    /\ \E a \in find_by_email(e) : create_challenge(c, "PASSWORD_RESET", e, a, Nil, Nil)

wallet_challenge(c, k) ==
    /\ recent_challenge_count({"WALLET"}, Nil, k) < LinksPerHour
    /\ create_challenge(c, "WALLET", Nil, Nil, k, Nil)

LinkExpires(c) ==
    /\ challenge[c].state = "Open"
    /\ challenge' = [challenge EXCEPT ![c].state = "Expired"]
    /\ UNCHANGED <<account, wallet, identity, cookie, work, lock, guesses>>

-----------------------------------------------------------------------------
(* Consuming a challenge *)

consume_challenge(c, kind) == challenge[c].state = "Open" /\ challenge[c].kind = kind

\* The UPDATE waits for a request that holds the row, and looks at it again afterwards.
Consume(r, kind, next) ==
    LET c == Ask[r].link
    IN  /\ CanTake(c, r)
        /\ IF consume_challenge(c, kind)
           THEN /\ Goes(r, next) /\ Take(c, r)
                /\ UNCHANGED <<account, wallet, identity, challenge, cookie, guesses>>
           ELSE Refuse(r)

Starts(r, kind) ==
    /\ work[r].pc = "New" /\ Ask[r].kind = kind
    /\ Cardinality({s \in SignInRequests : work[s].pc # "New"}) < MaxSignIns

verify_email(r) == Starts(r, "EmailLink") /\ challenge[Ask[r].link].state # "None" /\ Consume(r, "EMAIL", "FindByEmail")
verify_password_signup(r) ==
    Starts(r, "Signup") /\ challenge[Ask[r].link].state # "None" /\ Consume(r, "PASSWORD_SIGNUP", "FindByEmail")
reset_password(r) ==
    Starts(r, "Reset") /\ challenge[Ask[r].link].state # "None" /\ Consume(r, "PASSWORD_RESET", "SetPassword")

\* The newest open challenge of the coldkey; the signature must be over its message.
latest_open_challenge(k) ==
    {c \in Tokens : /\ challenge[c].state = "Open" /\ challenge[c].kind = "WALLET" /\ challenge[c].key = k
                   /\ \A d \in Tokens : challenge[d].state = "Open" /\ challenge[d].key = k => challenge[d].at <= challenge[c].at}

verify_wallet(r) ==
    /\ Starts(r, "Wallet") /\ challenge[Ask[r].link].state # "None"
    /\ IF Ask[r].link \in latest_open_challenge(Ask[r].key)
       THEN Goes(r, "Signed") /\ UNCHANGED <<account, wallet, identity, challenge, cookie, lock, guesses>>
       ELSE Refuse(r)

ConsumeSigned(r) == work[r].pc = "Signed" /\ Consume(r, "WALLET", "FindByColdkey")

-----------------------------------------------------------------------------
(* Finding or making the account *)

GoesWith(r, pc, a) == work' = [work EXCEPT ![r].pc = pc, ![r].account = a]
Looks(r, pc, a) == GoesWith(r, pc, a) /\ UNCHANGED <<account, wallet, identity, challenge, cookie, lock, guesses>>

\* A link of either kind names its address; a registration refuses a known one.
FindByEmail(r) ==
    LET found == find_by_email(challenge[Ask[r].link].email)
    IN  /\ work[r].pc = "FindByEmail"
        /\ \/ found = {} /\ Looks(r, "Create", r)
           \/ found # {} /\ Ask[r].kind = "Signup" /\ Refuse(r)
           \/ Ask[r].kind = "EmailLink" /\ \E a \in found : Looks(r, "MarkVerified", a)

\* The update takes the account's row.
MarkVerified(r) ==
    LET a == work[r].account
    IN  /\ work[r].pc = "MarkVerified" /\ (~account[a].verified => CanTake(a, r))
        /\ lock' = IF account[a].verified THEN lock ELSE [lock EXCEPT ![a] = r]
        /\ Goes(r, "Revoke")
        /\ UNCHANGED <<account, wallet, identity, challenge, cookie, guesses>>

\* The unique keys of the rows that the request would insert.
Inserts(r) ==
    CASE Ask[r].kind = "Wallet" -> {Ask[r].key}
      [] Ask[r].kind = "Google" -> {Ask[r].email, Ask[r].subject}
      [] OTHER -> {challenge[Ask[r].link].email}

TakenUnnoticed(x) == FALSE
Taken(x) ==
    \/ x \in Emails /\ find_by_email(x) # {}
    \/ x \in Keys /\ wallet[x] # Nil
    \/ x \in Subjects /\ identity[x] # Nil

\* An insert waits for an uncommitted row with its key; a committed one makes it fail, and all is
\* rolled back.  Google's callback then looks once more for the identity.
create_account(r) ==
    /\ work[r].pc = "Create" /\ \A x \in Inserts(r) : CanTake(x, r)
    /\ IF ~\E x \in Inserts(r) : Taken(x)
       THEN /\ lock' = [x \in Locked |-> IF x \in Inserts(r) THEN r ELSE lock[x]]
            /\ Goes(r, "Revoke") /\ UNCHANGED <<account, wallet, identity, challenge, cookie, guesses>>
       ELSE IF Ask[r].kind = "Google" /\ identity[Ask[r].subject] # Nil
       THEN Looks(r, "Revoke", identity[Ask[r].subject])
       ELSE Refuse(r)

FindByColdkey(r) ==
    /\ work[r].pc = "FindByColdkey"
    /\ IF wallet[Ask[r].key] = Nil THEN Looks(r, "Create", r) ELSE Looks(r, "Revoke", wallet[Ask[r].key])

google_callback(r) ==
    /\ Starts(r, "Google")
    /\ IF identity[Ask[r].subject] # Nil THEN Looks(r, "Revoke", identity[Ask[r].subject])
       ELSE IF find_by_email(Ask[r].email) # {} THEN Refuse(r)
       ELSE Looks(r, "Create", r)

-----------------------------------------------------------------------------
(* Passwords *)

\* The account as the request's session loaded it; a paused account is not asked for its password.  The
\* process's own limiter, which forgets with time and with the process, may refuse any request.
password_login(r) ==
    /\ Starts(r, "Login")
    /\ \/ Refuse(r)
       \/ \E a \in find_by_email(Ask[r].email) :
             IF account[a].password = Nil \/ account[a].pause = "Paused" THEN Refuse(r)
             ELSE /\ work' = [work EXCEPT ![r] = [@ EXCEPT !.pc = "Compare", !.account = a, !.seen = account[a]]]
                  /\ UNCHANGED <<account, wallet, identity, challenge, cookie, lock, guesses>>

Counted(r) == account[work[r].account].failures + 1

\* The counter is raised in the database; the failure is committed although the request is refused.
record_password_failure(r) ==
    LET a == work[r].account
        full == Counted(r) >= Attempts
    IN  /\ work[r].pc = "Compare" /\ Ask[r].password # work[r].seen.password /\ CanTake(a, r)
        /\ account' = [account EXCEPT ![a].failures = IF full THEN 0 ELSE Counted(r),
                                      ![a].pause = IF full THEN "Paused" ELSE @]
        /\ guesses' = [guesses EXCEPT ![a] = IF full THEN {} ELSE @ \cup {r}]
        /\ Goes(r, "Refused") /\ GiveBack(r)
        /\ UNCHANGED <<wallet, identity, challenge, cookie>>

PauseEnds(a) ==
    /\ account[a] # Nil /\ account[a].pause = "Paused"
    /\ account' = [account EXCEPT ![a].pause = "Over"]
    /\ UNCHANGED <<wallet, identity, challenge, cookie, work, lock, guesses>>

\* With an old cost the hash is written again; else only what the session saw set is cleared.
PasswordIsRight(r) ==
    /\ work[r].pc = "Compare" /\ Ask[r].password = work[r].seen.password
    /\ \/ CanTake(work[r].account, r) /\ Take(work[r].account, r) /\ Goes(r, "Rehashed")
       \/ /\ work[r].seen.failures = 0 /\ work[r].seen.pause = "None"
          /\ Goes(r, "Revoke") /\ UNCHANGED lock
       \/ /\ work[r].seen.failures # 0 \/ work[r].seen.pause # "None"
          /\ CanTake(work[r].account, r) /\ Take(work[r].account, r) /\ Goes(r, "Cleared")
    /\ UNCHANGED <<account, wallet, identity, challenge, cookie, guesses>>

SetPassword(r) ==
    LET a == challenge[Ask[r].link].account
    IN  /\ work[r].pc = "SetPassword" /\ CanTake(a, r) /\ Take(a, r)
        /\ work' = [work EXCEPT ![r] = [@ EXCEPT !.pc = "Revoke", !.account = a, !.seen = account[a]]]
        /\ UNCHANGED <<account, wallet, identity, challenge, cookie, guesses>>

-----------------------------------------------------------------------------
(* The session *)

revoke_all_sessions(r) == {s \in SignInRequests : cookie[s].state = "Live" /\ cookie[s].account = work[r].account}

AfterRevoking == [Revoke |-> "Commit", Rehashed |-> "CommitRehash", Cleared |-> "CommitClear"]

RevokeCookies(r) ==
    /\ work[r].pc \in DOMAIN AfterRevoking
    /\ work' = [work EXCEPT ![r].ends = revoke_all_sessions(r), ![r].pc = AfterRevoking[@]]
    /\ UNCHANGED <<account, wallet, identity, challenge, cookie, lock, guesses>>

\* What a flush writes of the counters: the columns that differ from what was loaded.
ClearCounters(row, seen) ==
    [row EXCEPT !.failures = IF seen.failures # 0 THEN 0 ELSE @, !.pause = IF seen.pause # "None" THEN "None" ELSE @]

AccountAfter(r) ==
    LET row == account[work[r].account]
    IN  IF work[r].account = r
        THEN NewAccount(IF Ask[r].kind = "Google" THEN Ask[r].email
                        ELSE IF Ask[r].kind = "Wallet" THEN Nil ELSE challenge[Ask[r].link].email,
                        Ask[r].kind \in {"EmailLink", "Signup"},
                        IF Ask[r].kind = "Signup" THEN challenge[Ask[r].link].password ELSE Nil)
        ELSE CASE Ask[r].kind = "EmailLink" -> [row EXCEPT !.verified = TRUE]
               [] Ask[r].kind = "Reset" -> [ClearCounters(row, work[r].seen) EXCEPT !.password = Ask[r].password, !.verified = TRUE]
               [] work[r].pc = "CommitRehash" -> [ClearCounters(row, work[r].seen) EXCEPT !.password = Ask[r].password]
               [] work[r].pc = "CommitClear" -> ClearCounters(row, work[r].seen)
               [] OTHER -> row

_sign_in(r) ==
    LET a == work[r].account
    IN  /\ work[r].pc \in {"Commit", "CommitRehash", "CommitClear"}
        /\ account' = [account EXCEPT ![a] = AccountAfter(r)]
        /\ guesses' = [guesses EXCEPT ![a] = IF AccountAfter(r).failures = 0 THEN {} ELSE @]
        /\ wallet' = IF Ask[r].kind = "Wallet" THEN [wallet EXCEPT ![Ask[r].key] = a] ELSE wallet
        /\ identity' = IF Ask[r].kind = "Google" THEN [identity EXCEPT ![Ask[r].subject] = a] ELSE identity
        /\ challenge' = IF Ask[r].link = Nil THEN challenge ELSE [challenge EXCEPT ![Ask[r].link].state = "Used"]
        /\ cookie' = [s \in SignInRequests |-> CASE s = r -> [state |-> "Live", account |-> a]
                                           [] s \in work[r].ends -> [cookie[s] EXCEPT !.state = "Revoked"]
                                           [] OTHER -> cookie[s]]
        /\ Goes(r, "SignedIn") /\ GiveBack(r)

logout(r) ==
    /\ cookie[r].state = "Live"
    /\ cookie' = [cookie EXCEPT ![r].state = "Revoked"]
    /\ UNCHANGED <<account, wallet, identity, challenge, work, lock, guesses>>

\* An account with a live cookie adds a Google identity: one per account, one account per identity.  An
\* authoritative address becomes the account's own where it has none and nobody else has it.
link_google(r, s, e) ==
    LET a == cookie[r].account
    IN  /\ cookie[r].state = "Live" /\ identity[s] = Nil /\ \A t \in Subjects : identity[t] # a
        /\ CanTake(s, Nil) /\ CanTake(a, Nil) /\ CanTake(e, Nil)
        /\ identity' = [identity EXCEPT ![s] = a]
        /\ account' = IF account[a].email \in {Nil, e} /\ find_by_email(e) \subseteq {a}
                      THEN [account EXCEPT ![a].email = e, ![a].verified = TRUE] ELSE account
        /\ UNCHANGED <<wallet, challenge, cookie, work, lock, guesses>>

-----------------------------------------------------------------------------
SignInStep(r) ==
    \/ verify_email(r) \/ verify_password_signup(r) \/ reset_password(r) \/ verify_wallet(r) \/ ConsumeSigned(r)
    \/ FindByEmail(r) \/ MarkVerified(r) \/ create_account(r) \/ FindByColdkey(r) \/ google_callback(r)
    \/ password_login(r) \/ record_password_failure(r) \/ PasswordIsRight(r) \/ SetPassword(r)
    \/ RevokeCookies(r) \/ _sign_in(r)

SignInNext ==
    \/ \E c \in Tokens, e \in Emails : request_email_link(c, e) \/ request_password_reset(c, e)
    \/ \E c \in Tokens, e \in Emails, p \in Passwords : register_password(c, e, p)
    \/ \E c \in Tokens, k \in Keys : wallet_challenge(c, k)
    \/ \E c \in Tokens : LinkExpires(c)
    \/ \E r \in SignInRequests : SignInStep(r) \/ logout(r)
    \/ \E a \in AccountIds : PauseEnds(a)
    \/ \E r \in SignInRequests, s \in Subjects, e \in Emails : link_google(r, s, e)

\* A request that has begun goes on: the server runs it to its answer.
RequestsGoOn == \E r \in SignInRequests : work[r].pc # "New" /\ SignInStep(r)

SignInSpec == SignInInit /\ [][SignInNext]_signInVars /\ WF_signInVars(RequestsGoOn)

-----------------------------------------------------------------------------
InProgress(r) == work[r].pc \notin {"New", "Refused", "SignedIn"}

\* consume_challenge: however many requests present one link at once, it signs in one of them.
LinkSignsInOnce ==
    \A r, s \in SignInRequests : work[r].pc = "SignedIn" /\ work[s].pc = "SignedIn" /\ Ask[r].link = Ask[s].link /\ Ask[r].link # Nil
                           => r = s

\* However sign-ins by mail, registration and Google interleave, an address belongs to one account.
OneAccountPerAddress == \A e \in Emails : Cardinality(find_by_email(e)) <= 1

\* record_password_failure: parallel wrong guesses all count, and the pause comes with the last one.
GuessesAreCounted ==
    \A a \in AccountIds : account[a] # Nil =>
        account[a].failures = Cardinality(guesses[a]) /\ account[a].failures < Attempts

\* No request waits forever for another one's row or key.
SignInsEnd == []<>(\A r \in SignInRequests : ~InProgress(r))

\* What parallel sign-ins keep: a link, an address and a wrong guess count once each (auth.py).
SignInsAreSingle == LinkSignsInOnce /\ OneAccountPerAddress /\ GuessesAreCounted
=============================================================================
