---------------------------- MODULE BrowserSession ----------------------------
(***************************************************************************)
(* Who a browser tab is signed in as: the access token and the user of     *)
(* contexts/AuthContext.tsx and api/client.ts, and the user guide's        *)
(* cookie, minted beside the token and renewed by a timer                  *)
(* (api/user-guide.api.ts, routes/user-guide.routes.ts).                   *)
(*                                                                         *)
(* Every request takes up to one unit of time, answers arrive in any order *)
(* and apply to whatever the tab is doing by then.  The tab stays visible. *)
(***************************************************************************)
EXTENDS Integers, FiniteSets

CONSTANTS Users, NoUser,
          TokenLife,      \* JWT expiry
          StoredLives,    \* what may be left of a stored token's life when a tab is opened
          GuideLife,      \* TTL_SECONDS
          RenewInterval,  \* GUIDE_RENEW_INTERVAL_MS
          CheckedFirst,   \* nobody submits the sign-in form before the stored token is checked
          MaxTime, MaxSignIns, MaxMisses, MaxOut   \* bounds

ASSUME SessionAssumption ==
    /\ {TokenLife, GuideLife, RenewInterval, MaxTime, MaxSignIns, MaxMisses, MaxOut} \cup StoredLives
           \subseteq Nat
    /\ NoUser \notin Users
    /\ RenewInterval > 0 /\ GuideLife > 2 * RenewInterval

VARIABLES clock,
          token,     \* accessToken, also what localStorage holds
          user,      \* the user the tab shows; NoUser when it is signed out
          checking,   \* the stored token has not been checked yet
          lastMint,  \* when the last mint was answered
          nextTick,  \* when the renewal timer next fires
          cookie,    \* the guide's session cookie
          out,       \* requests out or answered and not yet arrived
          signIns,
          misses,    \* mints in a row that failed
          crossed    \* requests of two sign-ins crossed, or the one of a sign-out was lost

sessionVars == <<clock, token, user, checking, lastMint, nextTick, cookie, out, signIns,
                 misses, crossed>>

Least(a, b) == IF a < b THEN a ELSE b

\* A token, and a cookie, of an account, good until a time.
Credentials == [user : Users, until : 0..(MaxTime + TokenLife)]
NoCredential == [user |-> NoUser, until |-> 0]
Alive(credential) == clock < credential.until

Request(kind, with) == [kind |-> kind, with |-> with, sent |-> clock, status |-> "out"]

-----------------------------------------------------------------------------
\* A tab is opened: a token is stored, good or expired, or none is.
SessionInit ==
    /\ clock = 0
    /\ token \in {NoCredential} \cup [user : Users, until : StoredLives]
    /\ user = NoUser /\ checking = (token # NoCredential)
    /\ out = IF token = NoCredential THEN {} ELSE {Request("me", token)}
    /\ lastMint = 0 - RenewInterval /\ nextTick = 0 /\ cookie = NoCredential
    /\ signIns = 0 /\ misses = 0 /\ crossed = FALSE

\* The request interceptor sends whatever token there is by then.
OpenGuide(with) == Request("mint", with)

\* Renewals decline inside the interval since the last answered mint.
Renewal == IF clock - lastMint < RenewInterval THEN {} ELSE {OpenGuide(token)}

\* The timer is set up again whenever the user changes.
SetUser(u) == user' = u /\ nextTick' = clock + RenewInterval

\* The form is there while nobody is signed in.
SignIn(u) ==
    /\ user = NoUser /\ signIns < MaxSignIns
    /\ CheckedFirst => ~checking
    /\ \A r \in out : r.kind # "login"
    /\ out' = out \cup {Request("login", [user |-> u, until |-> 0])}
    /\ signIns' = signIns + 1
    /\ UNCHANGED <<clock, token, user, checking, lastMint, nextTick, cookie, misses, crossed>>

\* A mutant: the token is cleared before the request takes it.
MutantCloseGuide == Request("close", NoCredential)

\* The token is handed to the request before it is cleared.
CloseGuide == Request("close", token)

SignOut ==
    /\ user # NoUser
    /\ out' = out \cup {CloseGuide}
    /\ crossed' = (crossed \/ \E r \in out : r.kind = "mint")
    /\ token' = NoCredential /\ user' = NoUser
    /\ UNCHANGED <<clock, checking, lastMint, nextTick, cookie, signIns, misses>>

\* Any page of a signed-in tab asks for its data; an answer with data changes nothing
\* here, so that only a request the token may not outlive matters.
AskForData ==
    /\ user # NoUser /\ Cardinality(out) < MaxOut /\ token.until <= clock + 1
    /\ out' = out \cup {Request("data", token)}
    /\ UNCHANGED <<clock, token, user, checking, lastMint, nextTick, cookie, signIns, misses, crossed>>

RenewalTick ==
    /\ user # NoUser /\ clock = nextTick
    /\ out' = out \cup Renewal
    /\ nextTick' = clock + RenewInterval
    /\ UNCHANGED <<clock, token, user, checking, lastMint, cookie, signIns, misses, crossed>>

\* Coming back to the tab renews as well.
BackToTab ==
    /\ user # NoUser /\ Cardinality(out) < MaxOut /\ Renewal # {}
    /\ out' = out \cup Renewal
    /\ UNCHANGED <<clock, token, user, checking, lastMint, nextTick, cookie, signIns, misses, crossed>>

-----------------------------------------------------------------------------
\* What a granted request brings: a new token; a guide session no longer than the
\* token it is minted for.
Granted(r) ==
    CASE r.kind = "login" -> [r.with EXCEPT !.until = clock + TokenLife]
      [] r.kind = "mint" -> [r.with EXCEPT !.until = Least(clock + GuideLife, @)]
      [] OTHER -> r.with

\* The server answers: requireAuth refuses what is not good any more, and signing in
\* fails for a wrong password; or the answer is lost, or an error.
ServeRequest(r) ==
    /\ r \in out /\ r.status = "out"
    /\ \/ /\ r.kind = "login" \/ Alive(r.with)
          /\ out' = (out \ {r}) \cup {[r EXCEPT !.status = "ok", !.with = Granted(r)]}
          /\ UNCHANGED misses
       \/ /\ r.kind = "login" \/ ~Alive(r.with)
          /\ out' = (out \ {r}) \cup {[r EXCEPT !.status = "denied"]}
          /\ UNCHANGED misses
       \/ /\ r.kind \in {"me", "mint", "close"} /\ misses < MaxMisses
          /\ out' = (out \ {r}) \cup {[r EXCEPT !.status = "lost"]}
          /\ misses' = misses + 1
    /\ UNCHANGED <<clock, token, user, checking, lastMint, nextTick, cookie, signIns, crossed>>

\* The response interceptor: a 401 on any request clears the token and the user; so
\* does any failure of the check of the stored token.
Denied(r) ==
    /\ r.status = "denied" \/ (r.status = "lost" /\ r.kind = "me")
    /\ token' = NoCredential /\ user' = NoUser /\ checking' = (checking /\ r.kind # "me")
    /\ out' = out \ {r}
    /\ UNCHANGED <<lastMint, nextTick, cookie, misses, crossed>>

\* The stored token was good: its user is shown and the guide opened.
MeArrives(r) ==
    /\ r.status = "ok" /\ r.kind = "me"
    /\ SetUser(r.with.user) /\ checking' = FALSE
    /\ out' = (out \ {r}) \cup {OpenGuide(token)}
    /\ UNCHANGED <<token, lastMint, cookie, misses, crossed>>

LoginArrives(r) ==
    /\ r.status = "ok" /\ r.kind = "login"
    /\ token' = r.with /\ SetUser(r.with.user)
    /\ out' = (out \ {r}) \cup {OpenGuide(r.with)}
    /\ crossed' = (crossed \/ out # {r})
    /\ UNCHANGED <<checking, lastMint, cookie, misses>>

\* A mint stores the cookie and is stamped when it is answered, not when it is asked.
MintArrives(r) ==
    /\ r.status = "ok" /\ r.kind = "mint"
    /\ cookie' = r.with /\ lastMint' = clock /\ misses' = 0
    /\ out' = out \ {r}
    /\ UNCHANGED <<token, user, checking, nextTick, crossed>>

CloseArrives(r) ==
    /\ r.status = "ok" /\ r.kind = "close"
    /\ cookie' = NoCredential
    /\ out' = out \ {r}
    /\ UNCHANGED <<token, user, checking, lastMint, nextTick, misses, crossed>>

\* Data is shown; a mint or a sign-out that came to nothing is let go.
OtherArrives(r) ==
    /\ (r.status = "lost" /\ r.kind # "me") \/ (r.status = "ok" /\ r.kind = "data")
    /\ crossed' = (crossed \/ (r.status = "lost" /\ r.kind = "close"))
    /\ out' = out \ {r}
    /\ UNCHANGED <<token, user, checking, lastMint, nextTick, cookie, misses>>

AnswerArrives(r) ==
    /\ r \in out
    /\ \/ Denied(r) \/ MeArrives(r) \/ LoginArrives(r) \/ MintArrives(r) \/ CloseArrives(r)
       \/ OtherArrives(r)
    /\ UNCHANGED <<clock, signIns>>

\* Time passes once a due tick has fired and the requests of the last unit are through.
SessionTime ==
    /\ clock < MaxTime
    /\ user # NoUser => nextTick > clock
    /\ \A r \in out : r.sent = clock
    /\ clock' = clock + 1
    /\ UNCHANGED <<token, user, checking, lastMint, nextTick, cookie, out, signIns, misses, crossed>>

SessionNext ==
    \/ \E u \in Users : SignIn(u)
    \/ SignOut \/ AskForData \/ RenewalTick \/ BackToTab
    \/ \E r \in out : ServeRequest(r) \/ AnswerArrives(r)
    \/ SessionTime

SessionSpec == SessionInit /\ [][SessionNext]_sessionVars

-----------------------------------------------------------------------------
\* The variables keep their types.
SessionTypeOK ==
    /\ clock \in 0..MaxTime /\ token \in Credentials \cup {NoCredential} /\ user \in Users \cup {NoUser}
    /\ checking \in BOOLEAN /\ crossed \in BOOLEAN
    /\ lastMint \in (0 - RenewInterval)..MaxTime /\ nextTick \in 0..(MaxTime + RenewInterval)
    /\ cookie \in Credentials \cup {NoCredential}
    /\ \A r \in out : /\ r.kind \in {"me", "login", "data", "mint", "close"}
                      /\ r.with \in Credentials \cup {NoCredential} /\ r.sent \in 0..MaxTime
                      /\ r.status \in {"out", "ok", "denied", "lost"}
    /\ signIns \in 0..MaxSignIns /\ misses \in 0..MaxMisses

\* A tab that has been signed in long enough for its first mint to be answered.
GuideIsDue == user # NoUser /\ Alive(token) /\ \A r \in out : r.kind # "mint"

\* The user the tab shows is the one its token is for; and, where no requests of two
\* sign-ins crossed, a tab whose mints all succeed has a good guide cookie while its
\* token is good, and a tab that is signed out keeps no cookie that works.
SessionExact ==
    /\ user # NoUser => token.user = user
    /\ GuideIsDue /\ misses = 0 /\ ~crossed => Alive(cookie)
    /\ user = NoUser /\ out = {} /\ ~crossed => ~Alive(cookie)
-----------------------------------------------------------------------------
(* What the proofs rest on *)

SomeCredential == [user : Users \cup {NoUser}, until : Nat]
SessionRequest ==
    [kind : {"me", "login", "data", "mint", "close"}, with : SomeCredential, sent : Nat,
     status : {"out", "ok", "denied", "lost"}]

\* A request takes one unit at most; a refusal says that the credential has run out.
RequestsOK ==
    /\ clock \in Nat /\ token \in SomeCredential /\ cookie \in SomeCredential /\ user \in Users \cup {NoUser}
    /\ lastMint \in Int /\ nextTick \in Int /\ misses \in Nat /\ checking \in BOOLEAN /\ crossed \in BOOLEAN
    /\ out \subseteq SessionRequest
    /\ \A r \in out :
        /\ r.sent <= clock /\ clock <= r.sent + 1
        /\ r.status = "denied" /\ r.kind # "login" => r.with.until <= clock
        /\ r.kind \in {"login", "me"} => r.with.user \in Users
        /\ r.kind = "login" => user = NoUser
    /\ \A r, s \in out : r.kind = "login" /\ s.kind = "login" => r = s

\* While the stored token is being checked, nothing else goes on.
CheckOK ==
    /\ checking => /\ user = NoUser /\ cookie = NoCredential
                   /\ \E r \in out : out = {r} /\ r.kind = "me" /\ r.with = token
    /\ ~checking => \A r \in out : r.kind # "me"

\* Signed in, every request is this session's; the cookie does not outlive the token, and it
\* lasts from the mint that was answered last until the tick after the next.
SignedInOK ==
    /\ user # NoUser => token.user = user /\ clock <= nextTick /\ nextTick <= clock + RenewInterval
    /\ user # NoUser /\ ~crossed =>
        /\ \A r \in out :
            /\ r.kind \in {"mint", "data"} /\ r.with.until <= token.until
            /\ r.status = "out" => r.with = token
            /\ r.status = "denied" => token.until <= clock
            /\ r.kind = "mint" /\ r.status = "ok" => Least(r.sent + GuideLife, token.until) <= r.with.until
        /\ cookie.until <= token.until \/ cookie.until <= clock
        /\ misses = 0 /\ (\A r \in out : r.kind = "mint" => r.status = "lost") =>
              /\ Least(lastMint - 1 + GuideLife, token.until) <= cookie.until
              /\ nextTick < lastMint + 2 * RenewInterval

\* Signed out, the cookie is good only while the request that ends it is under way.
SignedOutOK ==
    user = NoUser /\ ~crossed =>
        /\ \A r \in out : r.kind = "mint" => r.with.until <= clock
        /\ \/ cookie.until <= clock
           \/ \E r \in out : r.kind = "close" /\ cookie.until <= r.with.until

SessionInv == RequestsOK /\ CheckOK /\ SignedInOK /\ SignedOutOK
==============================================================================
