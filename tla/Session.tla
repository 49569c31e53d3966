------------------------------ MODULE Session -------------------------------
(* Signing in and out: the sign-in page (app/page.tsx), the page OAuth returns *)
(* to (app/auth/callback), the shell of the authenticated pages (app/(app)/    *)
(* layout.tsx) and the menu of its header.  The credentials are two entries of *)
(* localStorage, which outlive the pages; the pages redirect each other by     *)
(* what they find in it when they mount.  One tab; its storage is its own.     *)
(* MaxLogouts bounds the sign-outs that wait for their answer, MaxMounts the   *)
(* mounts of the sign-in page that the user brings about.                      *)
EXTENDS Naturals

CONSTANTS Keys,       \* what the user may type as an API key
          Accepted,   \* those the backend accepts
          Minted,     \* the key that a bootstrap mints
          NoKey,      \* an empty field, no entry
          MaxLogouts, MaxMounts

ASSUME SessionAssumption == /\ Accepted \subseteq Keys /\ NoKey \notin Keys \cup {Minted}
                            /\ {MaxLogouts, MaxMounts} \subseteq Nat

VARIABLES
    place,      \* "login", "minted" (the sign-in page showing the new key),
                \* "away" (at the OAuth provider), "callback", "app"
    replacing,  \* where the router is about to move, or "nowhere"
    redirects,  \* redirections by mount effects without anything in between
    mounted,    \* which mount of the sign-in page is shown
    field,      \* apiKey
    busy,       \* the state of that name
    verifying,  \* the keys being verified: the key, and the mount that asked
    minting,    \* the bootstraps in flight: the mount that asked
    storedKey,  \* llcp_api_key
    token,      \* llcp_session_token is there
    logouts     \* POST /auth/logout in flight

sessionVars == <<place, replacing, redirects, mounted, field, busy, verifying, minting,
                 storedKey, token, logouts>>
signIn == <<field, busy, verifying, minting>>
entries == <<storedKey, token>>

SessionTypeOK ==
    /\ place \in {"login", "minted", "away", "callback", "app"}
    /\ replacing \in {"nowhere", "login", "app"}
    /\ redirects \in Nat /\ mounted \in Nat
    /\ field \in Keys \cup {NoKey} /\ busy \in BOOLEAN
    /\ verifying \subseteq [key : Keys, mount : Nat] /\ minting \subseteq Nat
    /\ storedKey \in Keys \cup {Minted, NoKey} /\ token \in BOOLEAN
    /\ logouts \in 0..MaxLogouts

\* What each page takes for being signed in.
PageAuthed(key, t) == t \/ key # NoKey           \* the effect of the sign-in page
ShellAuthedByKey(key, t) == key # NoKey          \* mutant: the shell looks for a key only

ShellAuthed(key, t) == key # NoKey \/ t          \* the effect of AppLayout

\* The mount effects of the page that is reached.
Effect(p) == IF p = "login" /\ PageAuthed(storedKey, token) THEN "app"
             ELSE IF p = "app" /\ ~ShellAuthed(storedKey, token) THEN "login"
             ELSE "nowhere"
Arrive(p) ==
    /\ place' = p /\ replacing' = Effect(p)
    /\ IF p = "login" THEN mounted' = mounted + 1 /\ field' = NoKey /\ busy' = FALSE
       ELSE UNCHANGED <<mounted, field, busy>>

SessionInit ==
    /\ place \in {"login", "app"} /\ storedKey \in {NoKey} \cup Accepted /\ token \in BOOLEAN
    /\ replacing = Effect(place) /\ redirects = IF replacing = "nowhere" THEN 0 ELSE 1
    /\ mounted = 0 /\ field = NoKey /\ busy = FALSE
    /\ verifying = {} /\ minting = {} /\ logouts = 0

-----------------------------------------------------------------------------
(* Moving between the pages.                                                   *)

\* The router commits: a push to the page that is shown mounts nothing.
Navigate ==
    /\ replacing # "nowhere"
    /\ IF place = replacing
       THEN replacing' = "nowhere" /\ redirects' = 0 /\ UNCHANGED <<place, mounted, field, busy>>
       ELSE /\ Arrive(replacing)
            /\ redirects' = IF replacing' = "nowhere" THEN 0 ELSE redirects + 1
    /\ UNCHANGED <<verifying, minting, entries, logouts>>

\* The browser's own buttons, between the two ends.
Browse(p) ==
    /\ p \in {"login", "app"} /\ p # place /\ place # "away" /\ replacing = "nowhere"
    /\ mounted < MaxMounts
    /\ Arrive(p)
    /\ redirects' = IF replacing' = "nowhere" THEN 0 ELSE 1
    /\ UNCHANGED <<verifying, minting, entries, logouts>>

\* oauth(): the browser leaves the document, with all that is in flight.
LeaveForOAuth ==
    /\ place = "login" /\ mounted < MaxMounts
    /\ place' = "away" /\ replacing' = "nowhere" /\ redirects' = 0
    /\ field' = NoKey /\ busy' = FALSE /\ verifying' = {} /\ minting' = {} /\ logouts' = 0
    /\ UNCHANGED <<mounted, entries>>

\* The provider sends the browser back, to the callback; or the user gives up.
Return ==
    /\ place = "away"
    /\ \/ place' = "callback" /\ UNCHANGED <<replacing, redirects, mounted, field, busy>>
       \/ /\ Arrive("login")
          /\ redirects' = IF replacing' = "nowhere" THEN 0 ELSE 1
    /\ UNCHANGED <<verifying, minting, entries, logouts>>

-----------------------------------------------------------------------------
(* Signing in.                                                                 *)

TypeKey(k) ==
    /\ place = "login" /\ k # field
    /\ field' = k
    /\ UNCHANGED <<place, replacing, redirects, mounted, busy, verifying, minting, entries, logouts>>

\* Mutant: an empty field is submitted.
SubmitKeyEmpty ==
    /\ place = "login" /\ ~busy
    /\ busy' = TRUE /\ verifying' = verifying \cup {[key |-> field, mount |-> mounted]}
    /\ UNCHANGED <<place, replacing, redirects, mounted, field, minting, entries, logouts>>

\* submitKey: the key is verified first.
SubmitKey ==
    /\ place = "login" /\ ~busy /\ field # NoKey
    /\ busy' = TRUE /\ verifying' = verifying \cup {[key |-> field, mount |-> mounted]}
    /\ UNCHANGED <<place, replacing, redirects, mounted, field, minting, entries, logouts>>

Settled(m) == busy' = (busy /\ m # mounted)

\* Mutant: what the field says now is stored.
VerifiedField(v) ==
    /\ v \in verifying /\ v.key \in Accepted
    /\ verifying' = verifying \ {v}
    /\ storedKey' = field
    /\ replacing' = "app" /\ redirects' = 0
    /\ Settled(v.mount)
    /\ UNCHANGED <<place, mounted, field, minting, token, logouts>>

\* verifyAndStore: the key that was sent is stored, and the router is told to
\* move, from wherever the user is.
Verified(v) ==
    /\ v \in verifying /\ v.key \in Accepted
    /\ verifying' = verifying \ {v}
    /\ storedKey' = v.key
    /\ replacing' = "app" /\ redirects' = 0
    /\ Settled(v.mount)
    /\ UNCHANGED <<place, mounted, field, minting, token, logouts>>

\* A 401, a 403, any other status, no answer.
VerifyFails(v) ==
    /\ v \in verifying
    /\ verifying' = verifying \ {v}
    /\ Settled(v.mount)
    /\ UNCHANGED <<place, replacing, redirects, mounted, field, minting, entries, logouts>>

\* submitBootstrap.
SubmitBootstrap ==
    /\ place = "login" /\ ~busy
    /\ busy' = TRUE /\ minting' = minting \cup {mounted}
    /\ UNCHANGED <<place, replacing, redirects, mounted, field, verifying, entries, logouts>>

\* The minted key is stored and shown by the mount that asked for it.
Bootstrapped(m) ==
    /\ m \in minting
    /\ minting' = minting \ {m}
    /\ storedKey' = Minted
    /\ place' = IF place = "login" /\ m = mounted THEN "minted" ELSE place
    /\ Settled(m) /\ redirects' = 0
    /\ UNCHANGED <<replacing, mounted, field, verifying, token, logouts>>

BootstrapFails(m) ==
    /\ m \in minting
    /\ minting' = minting \ {m}
    /\ Settled(m)
    /\ UNCHANGED <<place, replacing, redirects, mounted, field, verifying, entries, logouts>>

\* "Continue to dashboard".
ContinueToDashboard ==
    /\ place = "minted"
    /\ replacing' = "app" /\ redirects' = 0
    /\ UNCHANGED <<place, mounted, signIn, entries, logouts>>

\* The callback exchanges the code; an answer without a token leads on as well.
\* Its error page leads back to the sign-in.
CallbackDone ==
    /\ place = "callback" /\ replacing = "nowhere"
    /\ token' \in {TRUE, token}
    /\ replacing' = "app" /\ redirects' = 0
    /\ UNCHANGED <<place, mounted, signIn, storedKey, logouts>>

CallbackFails ==
    /\ place = "callback" /\ replacing = "nowhere"
    /\ replacing' = "login" /\ redirects' = 0
    /\ UNCHANGED <<place, mounted, signIn, entries, logouts>>

-----------------------------------------------------------------------------
(* Signing out.                                                                *)

\* handleLogout waits for the answer; the menu stays open meanwhile.
HandleLogout ==
    /\ place = "app" /\ ShellAuthed(storedKey, token) /\ replacing = "nowhere"
    /\ logouts < MaxLogouts /\ mounted < MaxMounts
    /\ logouts' = logouts + 1
    /\ UNCHANGED <<place, replacing, redirects, mounted, signIn, entries>>

\* The answer, or its failure, wherever the user is by then.
LoggedOut ==
    /\ logouts > 0
    /\ logouts' = logouts - 1
    /\ storedKey' = NoKey /\ token' = FALSE
    /\ replacing' = "login" /\ redirects' = 0
    /\ UNCHANGED <<place, mounted, signIn>>

SessionNext ==
    \/ Navigate \/ LeaveForOAuth \/ Return
    \/ \E p \in {"login", "app"} : Browse(p)
    \/ \E k \in Keys \cup {NoKey} : TypeKey(k)
    \/ SubmitKey \/ SubmitBootstrap \/ ContinueToDashboard
    \/ \E v \in verifying : Verified(v) \/ VerifyFails(v)
    \/ \E m \in minting : Bootstrapped(m) \/ BootstrapFails(m)
    \/ CallbackDone \/ CallbackFails
    \/ HandleLogout \/ LoggedOut

SessionSpec == SessionInit /\ [][SessionNext]_sessionVars

-----------------------------------------------------------------------------
\* "Verify a key against a cheap authenticated endpoint before persisting it"
\* (app/page.tsx:37): what is stored is a key the backend accepted or minted,
\* whatever the field says by the time the answer comes.
StoredKeyAccepted == storedKey \in Accepted \cup {Minted, NoKey}

\* The pages do not send the user back and forth: what one takes for signed in
\* the other does too, so that of the redirections that follow from mounting a
\* page none leads to the next.
RedirectsSettle == redirects <= 1
=============================================================================
