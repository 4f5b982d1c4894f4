----------------------------- MODULE ApiClient -----------------------------
(***************************************************************************)
(* ApiClient.request: one retry after a 401, and one refresh of the tokens *)
(* at a time, which all the calls that need one wait for.                  *)
(***************************************************************************)
EXTENDS WebData

\* The calls that need a session, and retry one: retryAuthentication.
Authenticated == {"me", "list", "logout"}

\* fetch with credentials: the request carries the cookies as they are now.
Sent(b, kind, arg) ==
    [kind |-> kind, stage |-> "sent", arg |-> arg,
     access |-> jar[b].access /\ kind \in Authenticated,
     token |-> IF kind = "logout" THEN jar[b].refresh ELSE None, on |-> None,
     retried |-> FALSE, status |-> 0, current |-> TRUE]

MayRetry(c) ==
    /\ call[c].status = 401 /\ ~call[c].retried
    /\ call[c].kind \in Authenticated

Answered(c) == ~Idle(c) /\ call[c].stage = "answered"

\* The answer, or the error, on which the continuation of the caller runs.
Final(c) == Answered(c) /\ ~MayRetry(c)

\* Variant: every call refreshes for itself.
OwnRefresh(c) == c

\* refreshPromise: the refresh this tab has under way, or one of c's own.
Refresher(c) ==
    IF \E d \in Of(BrowserOf[c]) : refresh[d] # None
    THEN CHOOSE d \in Of(BrowserOf[c]) : refresh[d] # None
    ELSE c

RefreshAccessToken(c) ==
    /\ Answered(c) /\ MayRetry(c)
    /\ LET d == Refresher(c) IN
       /\ call' = [call EXCEPT ![c] = [@ EXCEPT !.stage = "waiting", !.on = d]]
       /\ refresh' = IF refresh[d] # None THEN refresh
                     ELSE [refresh EXCEPT ![d] =
                        [stage |-> "sent", token |-> jar[BrowserOf[c]].refresh,
                         status |-> 0]]
    /\ UNCHANGED <<server, jar, page, ended>>

\* Variant: only the call that started the refresh goes on.
StarterOnly(d) == {d}

WaitsFor(d) ==
    {c \in Calls : ~Idle(c) /\ call[c].stage = "waiting" /\ call[c].on = d}

\* The promise settles and is forgotten; those who awaited it send their request
\* again with the new cookies, or fail with its error.
RefreshSettles(d) ==
    /\ refresh[d] # None /\ refresh[d].stage = "answered"
    /\ LET r == refresh[d] IN
       /\ jar' = IF r.status = 200
                 THEN [jar EXCEPT ![BrowserOf[d]] =
                          [access |-> TRUE, refresh |-> r.token]]
                 ELSE jar
       /\ call' = [c \in Calls |->
             IF c \notin WaitsFor(d) THEN call[c]
             ELSE IF r.status = 200
             THEN [call[c] EXCEPT !.stage = "sent", !.on = None, !.retried = TRUE,
                                  !.access = TRUE,
                                  !.token = IF call[c].kind = "logout" THEN r.token ELSE None]
             ELSE [call[c] EXCEPT !.stage = "answered", !.on = None, !.retried = TRUE,
                                  !.status = r.status]]
    /\ refresh' = [refresh EXCEPT ![d] = None]
    /\ UNCHANGED <<server, page, ended>>

----------------------------------------------------------------------------
(***************************************************************************)
(* What the client cannot help.                                            *)
(***************************************************************************)
\* fetch rejects: the request never came, or its answer is lost.
LoseCall(c) ==
    /\ c \in Lossy /\ ~Idle(c) /\ call[c].stage \in {"sent", "answered"}
    /\ call' = [call EXCEPT ![c] = [@ EXCEPT !.stage = "answered", !.status = 0,
                                             !.access = FALSE, !.token = None]]
    /\ UNCHANGED <<server, jar, refresh, page, ended>>

\* If the server has rotated, the client is left with a revoked token.
LoseRefresh(c) ==
    /\ c \in Lossy /\ refresh[c] # None /\ refresh[c].stage \in {"sent", "answered"}
    /\ refresh' = [refresh EXCEPT ![c] =
          [stage |-> "answered", token |-> None, status |-> 0]]
    /\ ended' = [ended EXCEPT ![BrowserOf[c]] = TRUE]
    /\ UNCHANGED <<server, jar, call, page>>

\* Cookies leave the jar when their max-age is over.
ExpireAccess(b) ==
    /\ jar[b].access
    /\ jar' = [jar EXCEPT ![b].access = FALSE]
    /\ UNCHANGED <<server, call, refresh, page, ended>>

ExpireRefresh(b) ==
    /\ jar[b].refresh # None
    /\ jar' = [jar EXCEPT ![b].refresh = None]
    /\ ended' = [ended EXCEPT ![b] = TRUE]
    /\ UNCHANGED <<server, call, refresh, page>>

Client(c) == RefreshAccessToken(c) \/ RefreshSettles(c)
Lose(c) == LoseCall(c) \/ LoseRefresh(c)
Expire(b) == ExpireAccess(b) \/ ExpireRefresh(b)
============================================================================
