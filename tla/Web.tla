-------------------------------- MODULE Web --------------------------------
(***************************************************************************)
(* Browsers, each with one tab of the web client, and the accounts service *)
(* of the API.                                                             *)
(***************************************************************************)
EXTENDS AuthService, Pages

ASSUME WebAssumption ==
    /\ BrowserOf \in [Calls -> Browsers]
    /\ SessionCalls \cap ListCalls = {} /\ SessionCalls \cap FormCalls = {}
    /\ ListCalls \cap FormCalls = {}
    /\ FilterOf \in [ListCalls -> Filters]
    /\ Lossy \subseteq Calls /\ MaxAccounts \in Nat
    /\ None \notin Tokens \cup Filters \cup Emails \cup Calls
                     \cup CallStates \cup RefreshStates

Init ==
    /\ accounts = <<>>
    /\ valid = {}
    /\ jar = [b \in Browsers |-> [access |-> FALSE, refresh |-> None]]
    /\ call = [c \in Calls |-> None]
    /\ refresh = [c \in Calls |-> None]
    /\ view = [b \in Browsers |-> "login"]
    /\ list = [b \in Browsers |-> NothingShown]
    /\ ended = [b \in Browsers |-> FALSE]

User(c) ==
    \/ OpenPage(c)
    \/ Refresh(c)
    \/ \E kind \in {"login", "register"}, e \in Emails : SignIn(c, kind, e)
    \/ Logout(c)

Progress(c) == Serve(c) \/ Client(c) \/ Continue(c)

Next ==
    \/ \E c \in Calls : User(c) \/ Progress(c) \/ Lose(c)
    \/ \E b \in Browsers : Expire(b)
    \/ RegisterElsewhere

Spec == Init /\ [][Next]_vars

\* The server answers every request, and the event loop runs what is due.
Fairness == \A c \in Calls : WF_vars(Progress(c))

FairSpec == Spec /\ Fairness

----------------------------------------------------------------------------
(***************************************************************************)
(* Type invariant.                                                         *)
(***************************************************************************)
\* Each kind of call has its own room, and a call waits exactly for a refresh of
\* its own browser.
CallTypeOK(c) ==
    /\ call[c] \in CallStates \cup {None}
    /\ refresh[c] \in RefreshStates \cup {None}
    /\ ~Idle(c) =>
          /\ call[c].kind = "me" <=> c \in SessionCalls
          /\ call[c].kind = "list" <=> c \in ListCalls
          /\ call[c].kind \in {"login", "register"} => call[c].arg \in Emails
          /\ IF call[c].stage = "waiting"
             THEN /\ call[c].on \in Of(BrowserOf[c])
                  /\ refresh[call[c].on] # None
             ELSE call[c].on = None

WebTypeOK ==
    /\ accounts \in Seq(Emails) /\ Len(accounts) <= MaxAccounts
    /\ valid \subseteq Tokens
    /\ jar \in [Browsers -> [access : BOOLEAN, refresh : Tokens \cup {None}]]
    /\ DOMAIN call = Calls /\ DOMAIN refresh = Calls
    /\ view \in [Browsers -> {"login", "loading", "app"}]
    /\ list \in [Browsers -> [asked : Filters \cup {None}, shown : Filters \cup {None},
                              loading : BOOLEAN]]
    /\ ended \in [Browsers -> BOOLEAN]
    /\ \A c \in Calls : CallTypeOK(c)
    /\ \A b \in Browsers : view[b] # "app" => list[b] = NothingShown

----------------------------------------------------------------------------
\* However many registrations look for an address at the same time, it gets one
\* account.
OneAccountPerEmail ==
    \A a, b \in DOMAIN accounts : accounts[a] = accounts[b] => a = b

\* The session of a tab is not lost while it is used: whatever calls meet an
\* expired access token together, the tab is not sent to the login page unless
\* the user logs out, the refresh token expires or a refresh's answer is lost.
SessionKept ==
    [][\A b \in Browsers :
          view[b] # "login" /\ view'[b] = "login" => ended'[b]]_vars

\* A list that is shown is the one asked for last, whatever order answers and
\* retries come in.
ListFitsFilter ==
    \A b \in Browsers : list[b].shown # None =>
        ~list[b].loading /\ list[b].shown = list[b].asked

\* A list page does not load for ever, unless its user asks again for ever.
ListSettles ==
    \A b \in Browsers :
        \/ []<>(~list[b].loading)
        \/ []<><<\E c \in Of(b) : Refresh(c)>>_vars
============================================================================
