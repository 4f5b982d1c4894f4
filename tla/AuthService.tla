---------------------------- MODULE AuthService ----------------------------
(***************************************************************************)
(* The accounts service of the API and its tokens.  An access token is     *)
(* valid as long as the browser keeps its cookie, since both have the same *)
(* lifetime; a refresh token also until it is on the blacklist.            *)
(***************************************************************************)
EXTENDS WebData

\* The call's answer; the client sees it when it runs the continuation.
Respond(c, status, token) ==
    call' = [call EXCEPT ![c] = [@ EXCEPT !.stage = "answered", !.status = status,
                                          !.access = FALSE, !.token = token]]

\* for_user or a rotation, which puts the token it was given on the blacklist.
Issue(blacklisted) == valid' = (valid \ blacklisted) \cup {NewToken}

Serving(c, kind, stage) ==
    ~Idle(c) /\ call[c].kind = kind /\ call[c].stage = stage

\* IsAuthenticated; the list's items are those that fit its filter.
ServeRead(c) ==
    /\ Serving(c, "me", "sent") \/ Serving(c, "list", "sent")
    /\ Respond(c, IF call[c].access THEN 200 ELSE 401, None)
    /\ UNCHANGED <<server, jar, refresh, page, ended>>

Registered(email) == \E a \in DOMAIN accounts : accounts[a] = email

ServeLogin(c) ==
    /\ Serving(c, "login", "sent")
    /\ IF Registered(call[c].arg)
       THEN /\ FreshTokens # {}
            /\ Respond(c, 200, NewToken) /\ Issue({})
       ELSE Respond(c, 401, None) /\ UNCHANGED valid
    /\ UNCHANGED <<accounts, jar, refresh, page, ended>>

ServeRegisterExists(c) ==
    /\ Serving(c, "register", "sent")
    /\ IF Registered(call[c].arg)
       THEN Respond(c, 409, None)
       ELSE call' = [call EXCEPT ![c].stage = "inserting"]
    /\ UNCHANGED <<server, jar, refresh, page, ended>>

\* Variant: the column normalized_email is not unique.
EmailNotConstrained(email) == FALSE

EmailTaken(email) == Registered(email)

Create(email) ==
    /\ Len(accounts) < MaxAccounts
    /\ accounts' = Append(accounts, email)

\* The unique column decides between two registrations that both looked before.
ServeRegisterInsert(c) ==
    /\ Serving(c, "register", "inserting")
    /\ IF EmailTaken(call[c].arg)
       THEN Respond(c, 500, None) /\ UNCHANGED server
       ELSE /\ FreshTokens # {}
            /\ Create(call[c].arg)
            /\ Respond(c, 200, NewToken) /\ Issue({})
    /\ UNCHANGED <<jar, refresh, page, ended>>

\* The insert of a registration sent by a browser outside the model.
RegisterElsewhere ==
    /\ \E e \in Emails : ~EmailTaken(e) /\ Create(e)
    /\ UNCHANGED <<valid, jar, call, refresh, page, ended>>

\* Logout is authenticated like a read; it revokes the refresh token it came
\* with, or answers TOKEN_INVALID.
ServeLogout(c) ==
    /\ Serving(c, "logout", "sent")
    /\ LET token == call[c].token IN
       IF call[c].access /\ token \in valid
       THEN valid' = valid \ {token} /\ Respond(c, 200, None)
       ELSE Respond(c, 401, None) /\ UNCHANGED valid
    /\ UNCHANGED <<accounts, jar, refresh, page, ended>>

----------------------------------------------------------------------------
(***************************************************************************)
(* POST /auth/token/refresh.  The serializer checks the blacklist, then    *)
(* puts the token on it and issues the next one.                           *)
(***************************************************************************)
RefreshCheck(c) ==
    /\ refresh[c] # None /\ refresh[c].stage = "sent"
    /\ refresh' = [refresh EXCEPT ![c] =
          IF @.token \in valid
          THEN [@ EXCEPT !.stage = "checked"]
          ELSE [stage |-> "answered", token |-> None, status |-> 401]]
    /\ UNCHANGED <<server, jar, call, page, ended>>

RefreshRotate(c) ==
    /\ refresh[c] # None /\ refresh[c].stage = "checked"
    /\ FreshTokens # {}
    /\ Issue({refresh[c].token})
    /\ refresh' = [refresh EXCEPT ![c] =
          [stage |-> "answered", token |-> NewToken, status |-> 200]]
    /\ UNCHANGED <<accounts, jar, call, page, ended>>

Serve(c) ==
    \/ ServeRead(c) \/ ServeLogin(c) \/ ServeRegisterExists(c)
    \/ ServeRegisterInsert(c) \/ ServeLogout(c)
    \/ RefreshCheck(c) \/ RefreshRotate(c)
============================================================================
