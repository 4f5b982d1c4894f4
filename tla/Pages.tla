------------------------------- MODULE Pages -------------------------------
(***************************************************************************)
(* The pages of the web client: login and registration, the session        *)
(* provider every other page is wrapped in, and the list pages of projects *)
(* and clients.                                                            *)
(***************************************************************************)
EXTENDS ApiClient

Begin(c, kind, arg) ==
    /\ Idle(c)
    /\ call' = [call EXCEPT ![c] = Sent(BrowserOf[c], kind, arg)]

\* The calls whose component is no longer mounted when its page is left.
Unmounted(b, calls) ==
    [c \in Calls |-> IF c \in Of(b) \cap calls /\ ~Idle(c)
                     THEN [call[c] EXCEPT !.current = FALSE]
                     ELSE call[c]]

(***************************************************************************)
(* AuthSessionProvider: each page mounts it anew, and it asks who the user *)
(* is.  The page's content is mounted when the answer is there.            *)
(***************************************************************************)
OpenPage(c) ==
    LET b == BrowserOf[c] IN
    /\ c \in SessionCalls /\ view[b] # "login"
    /\ Idle(c)
    /\ call' = [Unmounted(b, Calls) EXCEPT ![c] = Sent(b, "me", None)]
    /\ view' = [view EXCEPT ![b] = "loading"]
    /\ list' = [list EXCEPT ![b] = NothingShown]
    /\ UNCHANGED <<server, jar, refresh, ended>>

\* Whoever asked, a 401 leads to the login page; the context is kept only by a
\* provider that is still mounted.
FinishMe(c) ==
    LET b == BrowserOf[c]
        next == CASE call[c].status = 401 -> "login"
                  [] call[c].status = 200 /\ call[c].current -> "app"
                  [] call[c].status \notin {200, 401} /\ call[c].current -> "loading"
                  [] OTHER -> view[b]
    IN
    /\ Final(c) /\ call[c].kind = "me"
    /\ view' = [view EXCEPT ![b] = IF @ = "login" THEN @ ELSE next]
    /\ IF view'[b] \in {view[b], "app"}     \* nothing that was shown goes
       THEN call' = [call EXCEPT ![c] = None] /\ UNCHANGED list
       ELSE /\ call' = [Unmounted(b, Calls) EXCEPT ![c] = None]
            /\ list' = [list EXCEPT ![b] = NothingShown]
    /\ UNCHANGED <<server, jar, refresh, ended>>

(***************************************************************************)
(* ProjectsContainer and ClientsContainer: another filter, or a retry,     *)
(* empties the list and asks again; only the latest request may show its   *)
(* answer.                                                                 *)
(***************************************************************************)
Refresh(c) ==
    LET b == BrowserOf[c]
        f == FilterOf[c]
    IN
    /\ c \in ListCalls /\ view[b] = "app"
    /\ Idle(c)
    /\ list' = [list EXCEPT ![b] = [asked |-> f, shown |-> None, loading |-> TRUE]]
    /\ call' = [Unmounted(b, ListCalls) EXCEPT ![c] = Sent(b, "list", f)]
    /\ UNCHANGED <<server, jar, refresh, view, ended>>

\* Variants: any answer is shown; loading ends with the older requests.
AnyAnswer(c) == TRUE
OlderAnswer(c) == ~call[c].current

\* currentRequestId === requestId.current
LatestAnswer(c) == call[c].current

FinishList(c) ==
    LET b == BrowserOf[c] IN
    /\ Final(c) /\ call[c].kind = "list"
    /\ list' = IF LatestAnswer(c)
               THEN [list EXCEPT ![b] =
                       [@ EXCEPT !.shown = IF call[c].status = 200 THEN call[c].arg
                                           ELSE None,
                                 !.loading = FALSE]]
               ELSE list
    /\ call' = [call EXCEPT ![c] = None]
    /\ UNCHANGED <<server, jar, refresh, view, ended>>

(***************************************************************************)
(* Login, registration and logout.  The answer's cookies are in the jar    *)
(* when the continuation runs, which leaves whatever page is open then.    *)
(***************************************************************************)
SignIn(c, kind, email) ==
    /\ c \in FormCalls /\ view[BrowserOf[c]] = "login"
    /\ ~ended[BrowserOf[c]]                     \* bound: one session each
    /\ Begin(c, kind, email)
    /\ UNCHANGED <<server, jar, refresh, page, ended>>

FinishSignIn(c) ==
    LET b == BrowserOf[c] IN
    /\ Final(c) /\ call[c].kind \in {"login", "register"}
    /\ IF call[c].status = 200
       THEN /\ jar' = [jar EXCEPT ![b] = [access |-> TRUE, refresh |-> call[c].token]]
            /\ view' = [view EXCEPT ![b] = "loading"]
            /\ list' = [list EXCEPT ![b] = NothingShown]
            /\ call' = [Unmounted(b, Calls) EXCEPT ![c] = None]
       ELSE /\ call' = [call EXCEPT ![c] = None]
            /\ UNCHANGED <<jar, view, list>>
    /\ UNCHANGED <<server, refresh, ended>>

Logout(c) ==
    /\ c \in FormCalls /\ view[BrowserOf[c]] = "app"
    /\ Begin(c, "logout", None)
    /\ ended' = [ended EXCEPT ![BrowserOf[c]] = TRUE]
    /\ UNCHANGED <<server, jar, refresh, page>>

FinishLogout(c) ==
    LET b == BrowserOf[c] IN
    /\ Final(c) /\ call[c].kind = "logout"
    /\ IF call[c].status = 200
       THEN /\ jar' = [jar EXCEPT ![b] = [access |-> FALSE, refresh |-> None]]
            /\ view' = [view EXCEPT ![b] = "login"]
            /\ list' = [list EXCEPT ![b] = NothingShown]
            /\ call' = [Unmounted(b, Calls) EXCEPT ![c] = None]
       ELSE /\ call' = [call EXCEPT ![c] = None]
            /\ UNCHANGED <<jar, view, list>>
    /\ UNCHANGED <<server, refresh, ended>>

Continue(c) == FinishMe(c) \/ FinishList(c) \/ FinishSignIn(c) \/ FinishLogout(c)
============================================================================
