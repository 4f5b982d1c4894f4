----------------------------- MODULE WebProofs -----------------------------
(***************************************************************************)
(* Proofs about Web for any number of browsers, calls, accounts, tokens    *)
(* and filters, with any calls lost.                                       *)
(***************************************************************************)
EXTENDS Web, TLAPS

(***************************************************************************)
(* The type invariant, in parts, with what ties a page to its calls: the   *)
(* list calls that are current ask for what the page asks for.             *)
(***************************************************************************)
ServerOK ==
    /\ accounts \in Seq(Emails) /\ Len(accounts) <= MaxAccounts
    /\ valid \subseteq Tokens

TablesOK ==
    /\ jar \in [Browsers -> [access : BOOLEAN, refresh : Tokens \cup {None}]]
    /\ DOMAIN call = Calls /\ DOMAIN refresh = Calls
    /\ view \in [Browsers -> {"login", "loading", "app"}]
    /\ list \in [Browsers -> [asked : Filters \cup {None}, shown : Filters \cup {None},
                              loading : BOOLEAN]]
    /\ ended \in [Browsers -> BOOLEAN]

Asks(c) == ~Idle(c) /\ call[c].kind = "list" /\ call[c].current

PageOK(b) ==
    /\ view[b] # "app" => list[b] = NothingShown
    /\ list[b].shown # None => ~list[b].loading /\ list[b].shown = list[b].asked
    /\ \A c \in Of(b) :
          Asks(c) => view[b] = "app" /\ list[b].asked = call[c].arg

CallsOK == \A c \in Calls : CallTypeOK(c)
PagesOK == \A b \in Browsers : PageOK(b)

TypeInv == ServerOK /\ TablesOK /\ CallsOK /\ PagesOK

LEMMA NoneIsNone ==
    /\ None \notin Tokens /\ None \notin Filters /\ None \notin Emails
    /\ None \notin Calls /\ None \notin CallStates /\ None \notin RefreshStates
  BY WebAssumption

LEMMA CallsHaveBrowsers ==
    ASSUME NEW c \in Calls
    PROVE  BrowserOf[c] \in Browsers /\ c \in Of(BrowserOf[c])
  BY WebAssumption DEF Of

LEMMA NewTokenFresh ==
    ASSUME FreshTokens # {}
    PROVE  NewToken \in FreshTokens /\ NewToken \in Tokens
  BY DEF NewToken, FreshTokens

LEMMA CallKnown ==
    ASSUME TypeInv, NEW c \in Calls, ~Idle(c)
    PROVE  call[c] \in CallStates
  BY DEF TypeInv, CallsOK, CallTypeOK, Idle

(***************************************************************************)
(* Steps that give one call a new state.  The others stay as they are, but *)
(* for their component, which may be unmounted.                            *)
(***************************************************************************)
Same(d) ==
    /\ Idle(d) <=> call'[d] = None
    /\ ~Idle(d) =>
          /\ call'[d] \in CallStates
          /\ call'[d].kind = call[d].kind /\ call'[d].stage = call[d].stage
          /\ call'[d].arg = call[d].arg /\ call'[d].access = call[d].access
          /\ call'[d].token = call[d].token /\ call'[d].on = call[d].on
          /\ call'[d].retried = call[d].retried
          /\ call'[d].status = call[d].status
          /\ call'[d].current => call[d].current

OnlyCall(c) ==
    /\ DOMAIN call' = Calls
    /\ \A d \in Calls \ {c} : Same(d)

LEMMA SameTyped ==
    ASSUME TypeInv, NEW d \in Calls, Same(d),
           ~Idle(d) /\ call[d].stage = "waiting" => refresh'[call[d].on] # None,
           refresh'[d] \in RefreshStates \cup {None}
    PROVE  CallTypeOK(d)'
<1>1. CallTypeOK(d) BY DEF TypeInv, CallsOK
<1>2. QED BY <1>1 DEF CallTypeOK, Same, Idle

LEMMA CallsFrame ==
    ASSUME TypeInv, NEW c \in Calls, OnlyCall(c), UNCHANGED refresh, CallTypeOK(c)'
    PROVE  CallsOK'
<1>1. ASSUME NEW d \in Calls \ {c} PROVE CallTypeOK(d)'
  <2>1. CallTypeOK(d) /\ Same(d) BY DEF TypeInv, CallsOK, OnlyCall
  <2>2. QED BY <2>1, SameTyped DEF CallTypeOK
<1>2. QED BY <1>1 DEF CallsOK

LEMMA PagesFrame ==
    ASSUME TypeInv, UNCHANGED page,
           \A d \in Calls : Asks(d)' => Asks(d) /\ call'[d].arg = call[d].arg
    PROVE  PagesOK'
<1>1. ASSUME NEW b \in Browsers PROVE PageOK(b)'
  <2>1. PageOK(b) BY DEF TypeInv, PagesOK
  <2>2. QED BY <2>1 DEF PageOK, page, Of
<1>2. QED BY <1>1 DEF PagesOK

LEMMA SameAsks ==
    ASSUME NEW d \in Calls, Same(d), Asks(d)'
    PROVE  Asks(d) /\ call'[d].arg = call[d].arg
  BY DEF Same, Asks, Idle

LEMMA ChangedCallOnly ==
    ASSUME TypeInv, NEW c \in Calls, DOMAIN call' = Calls,
           \A d \in Calls \ {c} : call'[d] = call[d]
    PROVE  OnlyCall(c)
<1>1. ASSUME NEW d \in Calls \ {c} PROVE Same(d)
  <2>1. call'[d] = call[d] OBVIOUS
  <2>2. QED BY <2>1, CallKnown DEF Same, Idle
<1>2. QED BY <1>1 DEF OnlyCall

\* A call whose component is no longer mounted.
UnmountedCall(r) ==
    [kind |-> r.kind, stage |-> r.stage, arg |-> r.arg, access |-> r.access,
     token |-> r.token, on |-> r.on, retried |-> r.retried, status |-> r.status,
     current |-> FALSE]

LEMMA UnmountedTyped ==
    ASSUME NEW r \in CallStates
    PROVE  UnmountedCall(r) \in CallStates
  BY DEF CallStates, UnmountedCall

\* A step of call c unmounts components of browser b.
Unmounts(c, b, calls) ==
    /\ DOMAIN call' = Calls
    /\ \A d \in Calls \ {c} : call'[d] = Unmounted(b, calls)[d]

LEMMA UnmountedOnly ==
    ASSUME TypeInv, NEW c \in Calls, NEW b \in Browsers,
           NEW calls \in SUBSET Calls, Unmounts(c, b, calls)
    PROVE  /\ OnlyCall(c)
           /\ \A d \in (Of(b) \cap calls) \ {c} :
                 call'[d] # None => ~call'[d].current
<1>1. /\ DOMAIN call' = Calls
      /\ \A d \in Calls \ {c} :
            call'[d] = IF d \in Of(b) \cap calls /\ ~Idle(d)
                       THEN [call[d] EXCEPT !.current = FALSE] ELSE call[d]
  BY DEF Unmounts, Unmounted
<1>2. ASSUME NEW d \in Calls \ {c}, d \in Of(b) \cap calls, ~Idle(d)
      PROVE  Same(d) /\ ~call'[d].current
  <2>1. ASSUME NEW r \in CallStates, NEW q, r = call[d], q = call'[d]
        PROVE  q = UnmountedCall(r)
    <3>1. q = [r EXCEPT !.current = FALSE] BY <1>1, <1>2, <2>1
    <3>2. QED BY <3>1 DEF CallStates, UnmountedCall
  <2>2. call[d] \in CallStates BY <1>2, CallKnown
  <2>3. call'[d] = UnmountedCall(call[d]) BY <2>1, <2>2
  <2>4. call'[d] \in CallStates BY <2>2, <2>3, UnmountedTyped
  <2>5. ~call'[d].current BY <2>3 DEF UnmountedCall
  <2>6. call'[d] # None BY <2>4, NoneIsNone
  <2>7. Same(d) BY <1>2, <2>3, <2>4, <2>6 DEF Same, Idle, UnmountedCall
  <2>8. QED BY <2>5, <2>7
<1>3. ASSUME NEW d \in Calls \ {c}, ~(d \in Of(b) \cap calls /\ ~Idle(d))
      PROVE  Same(d) /\ call'[d] = call[d]
  <2>1. call'[d] = call[d] BY <1>1, <1>3
  <2>2. QED BY <2>1, CallKnown DEF Same, Idle
<1>4. QED BY <1>1, <1>2, <1>3 DEF OnlyCall, Idle, Of

\* A call is answered, or goes on, for what it was sent.
GoesOn(c) ==
    /\ ~Idle(c) /\ OnlyCall(c)
    /\ call'[c] \in CallStates
    /\ call'[c].kind = call[c].kind /\ call'[c].arg = call[c].arg
    /\ call'[c].current = call[c].current

LEMMA GoesOnTyped ==
    ASSUME TypeInv, NEW c \in Calls, GoesOn(c),
           call'[c].stage # "waiting", call'[c].on = None, UNCHANGED <<refresh, page>>
    PROVE  CallsOK' /\ PagesOK'
<1>1. CallTypeOK(c) BY DEF TypeInv, CallsOK
<1>2. CallTypeOK(c)' BY <1>1 DEF GoesOn, CallTypeOK, Idle
<1>3. ASSUME NEW d \in Calls, Asks(d)'
      PROVE  Asks(d) /\ call'[d].arg = call[d].arg
  <2>1. CASE d = c BY <1>3, <2>1 DEF GoesOn, Asks, Idle
  <2>2. CASE d # c BY <1>3, <2>2, SameAsks DEF GoesOn, OnlyCall
  <2>3. QED BY <2>1, <2>2
<1>4. QED BY <1>2, <1>3, CallsFrame, PagesFrame DEF GoesOn

\* What EXCEPT makes of a call that is answered.
AnsweredCall(r, status, token) ==
    [kind |-> r.kind, stage |-> "answered", arg |-> r.arg, access |-> FALSE,
     token |-> token, on |-> r.on, retried |-> r.retried, status |-> status,
     current |-> r.current]

LEMMA AnsweredTyped ==
    ASSUME NEW r \in CallStates, NEW status \in {0, 200, 401, 409, 500},
           NEW token \in Tokens \cup {None}
    PROVE  AnsweredCall(r, status, token) \in CallStates
  BY DEF CallStates, AnsweredCall

LEMMA RespondGoesOn ==
    ASSUME TypeInv, NEW c \in Calls, ~Idle(c), call[c].stage # "waiting",
           NEW status \in {0, 200, 401, 409, 500}, NEW token \in Tokens \cup {None},
           Respond(c, status, token)
    PROVE  /\ GoesOn(c)
           /\ call'[c].stage = "answered" /\ call'[c].on = None
           /\ call'[c].status = status /\ call'[c].token = token
           /\ call'[c].retried = call[c].retried
<1>1. call[c] \in CallStates /\ call[c].on = None /\ DOMAIN call = Calls
  BY CallKnown DEF TypeInv, CallsOK, CallTypeOK, TablesOK
<1>2. OnlyCall(c)
  <2>1. DOMAIN call' = Calls /\ \A d \in Calls \ {c} : call'[d] = call[d]
    BY <1>1 DEF Respond
  <2>2. QED BY <2>1, ChangedCallOnly
<1>3. ASSUME NEW r \in CallStates, NEW s, r = call[c], s = call'[c]
      PROVE  s = AnsweredCall(r, status, token)
  <2>1. s = [r EXCEPT !.stage = "answered", !.status = status,
                      !.access = FALSE, !.token = token]
    BY <1>1, <1>3 DEF Respond
  <2>2. QED BY <2>1 DEF AnsweredCall, CallStates
<1>4. call'[c] = AnsweredCall(call[c], status, token) BY <1>1, <1>3
<1>5. call'[c] \in CallStates BY <1>1, <1>4, AnsweredTyped
<1>6. QED BY <1>1, <1>2, <1>4, <1>5 DEF GoesOn, AnsweredCall

(***************************************************************************)
(* Type correctness: the server.                                           *)
(***************************************************************************)
LEMMA RespondTyped ==
    ASSUME TypeInv, NEW c \in Calls, ~Idle(c), call[c].stage # "waiting",
           NEW status \in {0, 200, 401, 409, 500}, NEW token \in Tokens \cup {None},
           Respond(c, status, token), UNCHANGED <<jar, refresh, page, ended>>
    PROVE  TablesOK' /\ CallsOK' /\ PagesOK'
<1>1. /\ GoesOn(c) /\ call'[c].stage = "answered" /\ call'[c].on = None
  BY RespondGoesOn
<1>2. CallsOK' /\ PagesOK' BY <1>1, GoesOnTyped DEF page
<1>3. TablesOK'
  BY <1>1 DEF TypeInv, TablesOK, GoesOn, OnlyCall, page
<1>4. QED BY <1>2, <1>3

LEMMA IssueTyped ==
    ASSUME valid \subseteq Tokens, FreshTokens # {}, NEW old, Issue(old)
    PROVE  valid' \subseteq Tokens
  BY NewTokenFresh DEF Issue

LEMMA CreateTyped ==
    ASSUME ServerOK, NEW e \in Emails, Create(e)
    PROVE  accounts' \in Seq(Emails) /\ Len(accounts') <= MaxAccounts
  BY WebAssumption DEF ServerOK, Create

LEMMA ServeReadTyped ==
    ASSUME TypeInv, NEW c \in Calls, ServeRead(c)
    PROVE  TypeInv'
<1>1. /\ ~Idle(c) /\ call[c].stage # "waiting"
      /\ UNCHANGED <<server, jar, refresh, page, ended>>
  BY DEF ServeRead, Serving
<1>2. PICK status \in {200, 401} : Respond(c, status, None)
  BY DEF ServeRead
<1>3. TablesOK' /\ CallsOK' /\ PagesOK' BY <1>1, <1>2, RespondTyped
<1>4. QED BY <1>1, <1>3 DEF TypeInv, ServerOK, server

LEMMA ServeLoginTyped ==
    ASSUME TypeInv, NEW c \in Calls, ServeLogin(c)
    PROVE  TypeInv'
<1>1. /\ ~Idle(c) /\ call[c].stage # "waiting"
      /\ UNCHANGED <<accounts, jar, refresh, page, ended>>
  BY DEF ServeLogin, Serving
<1>2. CASE Registered(call[c].arg)
  <2>1. FreshTokens # {} /\ Respond(c, 200, NewToken) /\ Issue({})
    BY <1>2 DEF ServeLogin
  <2>2. NewToken \in Tokens BY <2>1, NewTokenFresh
  <2>3. TablesOK' /\ CallsOK' /\ PagesOK' BY <1>1, <2>1, <2>2, RespondTyped
  <2>4. ServerOK' BY <1>1, <2>1, IssueTyped DEF TypeInv, ServerOK
  <2>5. QED BY <2>3, <2>4 DEF TypeInv
<1>3. CASE ~Registered(call[c].arg)
  <2>1. Respond(c, 401, None) /\ UNCHANGED valid BY <1>3 DEF ServeLogin
  <2>2. TablesOK' /\ CallsOK' /\ PagesOK' BY <1>1, <2>1, RespondTyped
  <2>3. QED BY <1>1, <2>1, <2>2 DEF TypeInv, ServerOK
<1>4. QED BY <1>2, <1>3

LEMMA ServeRegisterExistsTyped ==
    ASSUME TypeInv, NEW c \in Calls, ServeRegisterExists(c)
    PROVE  TypeInv'
<1>1. /\ ~Idle(c) /\ call[c].stage = "sent"
      /\ UNCHANGED <<server, jar, refresh, page, ended>>
  BY DEF ServeRegisterExists, Serving
<1>2. CASE Registered(call[c].arg)
  <2>1. Respond(c, 409, None) BY <1>2 DEF ServeRegisterExists
  <2>2. TablesOK' /\ CallsOK' /\ PagesOK' BY <1>1, <2>1, RespondTyped
  <2>3. QED BY <1>1, <2>2 DEF TypeInv, ServerOK, server
<1>3. CASE ~Registered(call[c].arg)
  <2>1. /\ call[c] \in CallStates /\ call[c].on = None /\ DOMAIN call = Calls
    BY <1>1, CallKnown DEF TypeInv, CallsOK, CallTypeOK, TablesOK
  <2>2. call' = [call EXCEPT ![c].stage = "inserting"]
    BY <1>3 DEF ServeRegisterExists
  <2>3. OnlyCall(c) BY <2>1, <2>2, ChangedCallOnly
  <2>4. /\ call'[c] \in CallStates /\ call'[c].kind = call[c].kind
        /\ call'[c].arg = call[c].arg /\ call'[c].current = call[c].current
        /\ call'[c].stage = "inserting" /\ call'[c].on = None
    BY <2>1, <2>2 DEF CallStates
  <2>5. GoesOn(c) BY <1>1, <2>3, <2>4 DEF GoesOn
  <2>6. CallsOK' /\ PagesOK' BY <1>1, <2>4, <2>5, GoesOnTyped
  <2>7. QED
    BY <1>1, <2>3, <2>6 DEF TypeInv, TablesOK, ServerOK, OnlyCall, server, page
<1>4. QED BY <1>2, <1>3

LEMMA ServeRegisterInsertTyped ==
    ASSUME TypeInv, NEW c \in Calls, ServeRegisterInsert(c)
    PROVE  TypeInv'
<1>1. /\ ~Idle(c) /\ call[c].stage = "inserting" /\ call[c].kind = "register"
      /\ UNCHANGED <<jar, refresh, page, ended>>
  BY DEF ServeRegisterInsert, Serving
<1>2. CASE EmailTaken(call[c].arg)
  <2>1. Respond(c, 500, None) /\ UNCHANGED server
    BY <1>2 DEF ServeRegisterInsert
  <2>2. TablesOK' /\ CallsOK' /\ PagesOK' BY <1>1, <2>1, RespondTyped
  <2>3. QED BY <2>1, <2>2 DEF TypeInv, ServerOK, server
<1>3. CASE ~EmailTaken(call[c].arg)
  <2>1. /\ FreshTokens # {} /\ Create(call[c].arg)
        /\ Respond(c, 200, NewToken) /\ Issue({})
    BY <1>3 DEF ServeRegisterInsert
  <2>2. NewToken \in Tokens BY <2>1, NewTokenFresh
  <2>3. TablesOK' /\ CallsOK' /\ PagesOK' BY <1>1, <2>1, <2>2, RespondTyped
  <2>4. call[c].arg \in Emails BY <1>1 DEF TypeInv, CallsOK, CallTypeOK
  <2>5. accounts' \in Seq(Emails) /\ Len(accounts') <= MaxAccounts
    BY <2>1, <2>4, CreateTyped DEF TypeInv
  <2>6. valid' \subseteq Tokens BY <2>1, IssueTyped DEF TypeInv, ServerOK
  <2>7. QED BY <2>3, <2>5, <2>6 DEF TypeInv, ServerOK
<1>4. QED BY <1>2, <1>3

\* Steps that leave calls and pages alone.
LEMMA CallsAlone ==
    ASSUME TypeInv, UNCHANGED <<call, refresh, page>>
    PROVE  CallsOK' /\ PagesOK'
  BY DEF TypeInv, CallsOK, PagesOK, CallTypeOK, PageOK, Asks, Idle, page

LEMMA RegisterElsewhereTyped ==
    ASSUME TypeInv, RegisterElsewhere
    PROVE  TypeInv'
<1>1. PICK e \in Emails : Create(e) BY DEF RegisterElsewhere
<1>2. UNCHANGED <<valid, jar, call, refresh, page, ended>> BY DEF RegisterElsewhere
<1>3. ServerOK' BY <1>1, <1>2, CreateTyped DEF TypeInv, ServerOK
<1>4. TablesOK' BY <1>2 DEF TypeInv, TablesOK, page
<1>5. QED BY <1>2, <1>3, <1>4, CallsAlone DEF TypeInv

LEMMA ServeLogoutTyped ==
    ASSUME TypeInv, NEW c \in Calls, ServeLogout(c)
    PROVE  TypeInv'
<1>1. /\ ~Idle(c) /\ call[c].stage # "waiting"
      /\ UNCHANGED <<accounts, jar, refresh, page, ended>>
  BY DEF ServeLogout, Serving
<1>2. PICK status \in {200, 401} : Respond(c, status, None)
  BY DEF ServeLogout
<1>3. TablesOK' /\ CallsOK' /\ PagesOK' BY <1>1, <1>2, RespondTyped
<1>4. valid' \subseteq valid BY DEF ServeLogout
<1>5. QED BY <1>1, <1>3, <1>4 DEF TypeInv, ServerOK

\* Steps of a refresh that is under way, and stays so.
LEMMA RefreshChanged ==
    ASSUME TypeInv, NEW c \in Calls, refresh[c] # None, NEW r \in RefreshStates,
           DOMAIN refresh' = Calls, refresh'[c] = r,
           \A d \in Calls \ {c} : refresh'[d] = refresh[d],
           UNCHANGED <<call, page>>
    PROVE  CallsOK' /\ PagesOK'
<1>1. ASSUME NEW d \in Calls PROVE CallTypeOK(d)'
  <2>1. CallTypeOK(d) BY DEF TypeInv, CallsOK
  <2>2. \A e \in Calls : refresh[e] # None => refresh'[e] # None
    BY NoneIsNone
  <2>3. refresh'[d] \in RefreshStates \cup {None}
    BY <2>1 DEF CallTypeOK
  <2>4. QED BY <2>1, <2>2, <2>3 DEF CallTypeOK, Idle, Of
<1>2. PagesOK' BY PagesFrame DEF Asks, Idle
<1>3. QED BY <1>1, <1>2 DEF CallsOK

LEMMA RefreshKnown ==
    ASSUME TypeInv, NEW c \in Calls, refresh[c] # None
    PROVE  refresh[c] \in RefreshStates
  BY DEF TypeInv, CallsOK, CallTypeOK

LEMMA RefreshCheckTyped ==
    ASSUME TypeInv, NEW c \in Calls, RefreshCheck(c)
    PROVE  TypeInv'
<1>1. /\ refresh[c] \in RefreshStates /\ DOMAIN refresh = Calls
      /\ refresh[c] # None /\ UNCHANGED <<server, jar, call, page, ended>>
  BY RefreshKnown DEF RefreshCheck, TypeInv, TablesOK
<1>2. /\ DOMAIN refresh' = Calls
      /\ \A d \in Calls \ {c} : refresh'[d] = refresh[d]
  BY <1>1 DEF RefreshCheck
<1>3. refresh'[c] \in RefreshStates
  BY <1>1 DEF RefreshCheck, RefreshStates
<1>4. CallsOK' /\ PagesOK' BY <1>1, <1>2, <1>3, RefreshChanged
<1>5. QED BY <1>1, <1>2, <1>4 DEF TypeInv, ServerOK, TablesOK, server, page

LEMMA RefreshRotateTyped ==
    ASSUME TypeInv, NEW c \in Calls, RefreshRotate(c)
    PROVE  TypeInv'
<1>1. /\ FreshTokens # {} /\ NewToken \in Tokens /\ DOMAIN refresh = Calls
      /\ refresh[c] # None /\ UNCHANGED <<accounts, jar, call, page, ended>>
      /\ Issue({refresh[c].token})
      /\ refresh' = [refresh EXCEPT ![c] =
            [stage |-> "answered", token |-> NewToken, status |-> 200]]
  BY NewTokenFresh DEF RefreshRotate, TypeInv, TablesOK
<1>2. /\ DOMAIN refresh' = Calls
      /\ \A d \in Calls \ {c} : refresh'[d] = refresh[d]
      /\ refresh'[c] = [stage |-> "answered", token |-> NewToken, status |-> 200]
  BY <1>1
<1>3. refresh'[c] \in RefreshStates BY <1>1, <1>2 DEF RefreshStates
<1>4. CallsOK' /\ PagesOK' BY <1>1, <1>2, <1>3, RefreshChanged
<1>5. valid' \subseteq Tokens BY <1>1, IssueTyped DEF TypeInv, ServerOK
<1>6. QED BY <1>1, <1>2, <1>4, <1>5 DEF TypeInv, ServerOK, TablesOK, page

LEMMA ServeTyped ==
    ASSUME TypeInv, NEW c \in Calls, Serve(c)
    PROVE  TypeInv'
  BY ServeReadTyped, ServeLoginTyped, ServeRegisterExistsTyped,
     ServeRegisterInsertTyped, ServeLogoutTyped, RefreshCheckTyped,
     RefreshRotateTyped DEF Serve

(***************************************************************************)
(* Type correctness: the client and what it cannot help.                   *)
(***************************************************************************)
LEMMA RefresherKnown ==
    ASSUME NEW c \in Calls
    PROVE  /\ Refresher(c) \in Of(BrowserOf[c])
           /\ \/ refresh[Refresher(c)] # None
              \/ /\ Refresher(c) = c
                 /\ \A d \in Of(BrowserOf[c]) : refresh[d] = None
  BY CallsHaveBrowsers DEF Refresher

WaitingCall(r, d) ==
    [kind |-> r.kind, stage |-> "waiting", arg |-> r.arg, access |-> r.access,
     token |-> r.token, on |-> d, retried |-> r.retried, status |-> r.status,
     current |-> r.current]

LEMMA WaitingTyped ==
    ASSUME NEW r \in CallStates, NEW d \in Calls
    PROVE  WaitingCall(r, d) \in CallStates
  BY DEF CallStates, WaitingCall

NewRefresh(c) ==
    [stage |-> "sent", token |-> jar[BrowserOf[c]].refresh, status |-> 0]

\* A call whose answer is a 401 waits for the refresh of its browser, which is
\* under way or starts now.
LEMMA StartsWaiting ==
    ASSUME TypeInv, NEW c \in Calls, RefreshAccessToken(c)
    PROVE  /\ ~Idle(c) /\ OnlyCall(c)
           /\ call'[c] = WaitingCall(call[c], Refresher(c)) /\ call'[c] \in CallStates
           /\ DOMAIN refresh' = Calls
           /\ \/ refresh[Refresher(c)] # None /\ refresh' = refresh
              \/ /\ refresh[c] = None /\ Refresher(c) = c
                 /\ \A d \in Of(BrowserOf[c]) : refresh[d] = None
                 /\ refresh'[c] = NewRefresh(c)
                 /\ \A d \in Calls \ {c} : refresh'[d] = refresh[d]
<1>1. /\ ~Idle(c) /\ call[c] \in CallStates
      /\ DOMAIN call = Calls /\ DOMAIN refresh = Calls
      /\ Refresher(c) \in Calls
  BY CallKnown, RefresherKnown
     DEF RefreshAccessToken, Answered, TypeInv, TablesOK, Of
<1>2. DOMAIN call' = Calls /\ \A d \in Calls \ {c} : call'[d] = call[d]
  BY <1>1 DEF RefreshAccessToken
<1>3. OnlyCall(c) BY <1>2, ChangedCallOnly
<1>4. ASSUME NEW r \in CallStates, NEW s, NEW d, r = call[c], s = call'[c],
             d = Refresher(c)
      PROVE  s = WaitingCall(r, d)
  <2>1. s = [r EXCEPT !.stage = "waiting", !.on = d]
    BY <1>1, <1>4 DEF RefreshAccessToken
  <2>2. QED BY <2>1 DEF WaitingCall, CallStates
<1>5. call'[c] = WaitingCall(call[c], Refresher(c)) BY <1>1, <1>4
<1>6. call'[c] \in CallStates BY <1>1, <1>5, WaitingTyped
<1>7. CASE refresh[Refresher(c)] # None
  <2>1. refresh' = refresh BY <1>7 DEF RefreshAccessToken
  <2>2. QED BY <1>1, <1>3, <1>5, <1>6, <1>7, <2>1
<1>8. CASE refresh[Refresher(c)] = None
  <2>1. Refresher(c) = c /\ \A d \in Of(BrowserOf[c]) : refresh[d] = None
    BY <1>8, RefresherKnown
  <2>2. refresh' = [refresh EXCEPT ![c] = NewRefresh(c)]
    BY <1>8, <2>1 DEF RefreshAccessToken, NewRefresh
  <2>3. QED BY <1>1, <1>3, <1>5, <1>6, <1>8, <2>1, <2>2
<1>9. QED BY <1>7, <1>8

LEMMA RefreshAccessTokenTyped ==
    ASSUME TypeInv, NEW c \in Calls, RefreshAccessToken(c)
    PROVE  TypeInv'
<1>1. UNCHANGED <<server, jar, page, ended>> BY DEF RefreshAccessToken
<1>2. NewRefresh(c) \in RefreshStates /\ NewRefresh(c) # None
  <2>1. jar[BrowserOf[c]].refresh \in Tokens \cup {None}
    BY CallsHaveBrowsers DEF TypeInv, TablesOK
  <2>2. NewRefresh(c) \in RefreshStates
    BY <2>1 DEF NewRefresh, RefreshStates
  <2>3. QED BY <2>2, NoneIsNone
<1>3. /\ \A d \in Calls : refresh[d] # None => refresh'[d] # None
      /\ \A d \in Calls : refresh[d] \in RefreshStates \cup {None}
                            => refresh'[d] \in RefreshStates \cup {None}
      /\ refresh'[Refresher(c)] # None
  BY <1>2, StartsWaiting
<1>4. CallTypeOK(c) BY DEF TypeInv, CallsOK
<1>5. CallTypeOK(c)'
  <2>1. /\ ~Idle(c) /\ call'[c] \in CallStates
        /\ call'[c] = WaitingCall(call[c], Refresher(c))
    BY StartsWaiting
  <2>2. /\ call'[c].kind = call[c].kind /\ call'[c].arg = call[c].arg
        /\ call'[c].stage = "waiting" /\ call'[c].on = Refresher(c)
    BY <2>1 DEF WaitingCall
  <2>3. Refresher(c) \in Of(BrowserOf[c]) BY RefresherKnown
  <2>4. QED BY <1>3, <1>4, <2>1, <2>2, <2>3 DEF CallTypeOK, Idle
<1>6. ASSUME NEW d \in Calls \ {c} PROVE CallTypeOK(d)'
  <2>1. CallTypeOK(d) /\ Same(d) BY StartsWaiting DEF TypeInv, CallsOK, OnlyCall
  <2>2. ~Idle(d) /\ call[d].stage = "waiting" => refresh'[call[d].on] # None
    BY <1>3, <2>1 DEF CallTypeOK, Of
  <2>3. refresh'[d] \in RefreshStates \cup {None} BY <1>3, <2>1 DEF CallTypeOK
  <2>4. QED BY <2>1, <2>2, <2>3, SameTyped
<1>7. PagesOK'
  <2>1. ASSUME NEW d \in Calls, Asks(d)'
        PROVE  Asks(d) /\ call'[d].arg = call[d].arg
    <3>1. CASE d = c
      <4>1. ~Idle(c) /\ call'[c] = WaitingCall(call[c], Refresher(c))
        BY StartsWaiting
      <4>2. QED BY <2>1, <3>1, <4>1 DEF WaitingCall, Asks, Idle
    <3>2. CASE d # c BY <2>1, <3>2, StartsWaiting, SameAsks DEF OnlyCall
    <3>3. QED BY <3>1, <3>2
  <2>2. QED BY <1>1, <2>1, PagesFrame
<1>8. QED
  BY <1>1, <1>5, <1>6, <1>7, StartsWaiting
     DEF TypeInv, CallsOK, ServerOK, TablesOK, OnlyCall, server, page

\* A call that waited is sent again with the new cookies, or fails.
ResentCall(r, token) ==
    [kind |-> r.kind, stage |-> "sent", arg |-> r.arg, access |-> TRUE,
     token |-> IF r.kind = "logout" THEN token ELSE None, on |-> None,
     retried |-> TRUE, status |-> r.status, current |-> r.current]
FailedCall(r, status) ==
    [kind |-> r.kind, stage |-> "answered", arg |-> r.arg, access |-> r.access,
     token |-> r.token, on |-> None, retried |-> TRUE, status |-> status,
     current |-> r.current]

LEMMA ResentTyped ==
    ASSUME NEW r \in CallStates, NEW token \in Tokens \cup {None}
    PROVE  ResentCall(r, token) \in CallStates
  BY DEF CallStates, ResentCall

LEMMA FailedTyped ==
    ASSUME NEW r \in CallStates, NEW status \in {0, 200, 401}
    PROVE  FailedCall(r, status) \in CallStates
  BY DEF CallStates, FailedCall

LEMMA Settled ==
    ASSUME TypeInv, NEW d \in Calls, RefreshSettles(d)
    PROVE  /\ refresh[d] # None /\ refresh[d].stage = "answered"
           /\ refresh[d].token \in Tokens \cup {None}
           /\ refresh[d].status \in {0, 200, 401}
           /\ DOMAIN refresh' = Calls /\ refresh'[d] = None
           /\ \A e \in Calls \ {d} : refresh'[e] = refresh[e]
           /\ DOMAIN call' = Calls
           /\ \A c \in WaitsFor(d) :
                 /\ c \in Of(BrowserOf[d]) /\ ~Idle(c)
                 /\ call'[c] \in CallStates
                 /\ call'[c] = IF refresh[d].status = 200
                               THEN ResentCall(call[c], refresh[d].token)
                               ELSE FailedCall(call[c], refresh[d].status)
           /\ \A c \in Calls \ WaitsFor(d) : Same(c) /\ call'[c] = call[c]
<1>1. /\ refresh[d] # None /\ refresh[d].stage = "answered"
      /\ refresh[d] \in RefreshStates /\ DOMAIN refresh = Calls
  BY RefreshKnown DEF RefreshSettles, TypeInv, TablesOK
<1>2. refresh[d].token \in Tokens \cup {None} /\ refresh[d].status \in {0, 200, 401}
  BY <1>1 DEF RefreshStates
<1>3. /\ DOMAIN refresh' = Calls /\ refresh'[d] = None
      /\ \A e \in Calls \ {d} : refresh'[e] = refresh[e]
  BY <1>1 DEF RefreshSettles
<1>4. DOMAIN call' = Calls BY DEF RefreshSettles
<1>5. ASSUME NEW c \in WaitsFor(d)
      PROVE  /\ c \in Of(BrowserOf[d]) /\ ~Idle(c)
             /\ call'[c] \in CallStates
             /\ call'[c] = IF refresh[d].status = 200
                           THEN ResentCall(call[c], refresh[d].token)
                           ELSE FailedCall(call[c], refresh[d].status)
  <2>1. c \in Calls /\ ~Idle(c) /\ call[c].stage = "waiting" /\ call[c].on = d
    BY DEF WaitsFor
  <2>2. call[c] \in CallStates BY <2>1, CallKnown
  <2>3. c \in Of(BrowserOf[d]) BY <2>1 DEF TypeInv, CallsOK, CallTypeOK, Of
  <2>4. CASE refresh[d].status = 200
    <3>1. ASSUME NEW r \in CallStates, NEW s, NEW token, r = call[c], s = call'[c],
                 token = refresh[d].token
          PROVE  s = ResentCall(r, token)
      <4>1. s = [r EXCEPT !.stage = "sent", !.on = None, !.retried = TRUE,
                          !.access = TRUE,
                          !.token = IF r.kind = "logout" THEN token ELSE None]
        BY <2>1, <2>4, <3>1 DEF RefreshSettles
      <4>2. QED BY <4>1 DEF ResentCall, CallStates
    <3>2. call'[c] = ResentCall(call[c], refresh[d].token) BY <2>2, <3>1
    <3>3. QED BY <1>2, <2>1, <2>2, <2>3, <2>4, <3>2, ResentTyped
  <2>5. CASE refresh[d].status # 200
    <3>1. ASSUME NEW r \in CallStates, NEW s, NEW status, r = call[c], s = call'[c],
                 status = refresh[d].status
          PROVE  s = FailedCall(r, status)
      <4>1. s = [r EXCEPT !.stage = "answered", !.on = None, !.retried = TRUE,
                          !.status = status]
        BY <2>1, <2>5, <3>1 DEF RefreshSettles
      <4>2. QED BY <4>1 DEF FailedCall, CallStates
    <3>2. call'[c] = FailedCall(call[c], refresh[d].status) BY <2>2, <3>1
    <3>3. QED BY <1>2, <2>1, <2>2, <2>3, <2>5, <3>2, FailedTyped
  <2>6. QED BY <2>4, <2>5
<1>6. ASSUME NEW c \in Calls \ WaitsFor(d)
      PROVE  Same(c) /\ call'[c] = call[c]
  <2>1. call'[c] = call[c] BY <1>6 DEF RefreshSettles
  <2>2. QED BY <2>1, CallKnown DEF Same, Idle
<1>7. QED BY <1>1, <1>2, <1>3, <1>4, <1>5, <1>6

LEMMA RefreshSettlesTyped ==
    ASSUME TypeInv, NEW d \in Calls, RefreshSettles(d)
    PROVE  TypeInv'
<1>1. UNCHANGED <<server, page, ended>> BY DEF RefreshSettles
<1>2. ASSUME NEW c \in WaitsFor(d)
      PROVE  /\ call'[c].kind = call[c].kind /\ call'[c].arg = call[c].arg
             /\ call'[c].current = call[c].current
             /\ call'[c].stage # "waiting" /\ call'[c].on = None
  <2>1. CASE refresh[d].status = 200
    <3>1. call'[c] = ResentCall(call[c], refresh[d].token) BY <2>1, Settled
    <3>2. QED BY <3>1 DEF ResentCall
  <2>2. CASE refresh[d].status # 200
    <3>1. call'[c] = FailedCall(call[c], refresh[d].status) BY <2>2, Settled
    <3>2. QED BY <3>1 DEF FailedCall
  <2>3. QED BY <2>1, <2>2
<1>3. \A e \in Calls : /\ refresh'[e] \in RefreshStates \cup {None}
                       /\ e # d => refresh'[e] = refresh[e]
  BY Settled DEF TypeInv, CallsOK, CallTypeOK
<1>4. ASSUME NEW c \in Calls PROVE CallTypeOK(c)'
  <2>1. CallTypeOK(c) BY DEF TypeInv, CallsOK
  <2>2. CASE c \in WaitsFor(d)
    <3>1. ~Idle(c) /\ call'[c] \in CallStates BY <2>2, Settled
    <3>2. QED BY <1>2, <1>3, <2>1, <2>2, <3>1 DEF CallTypeOK, Idle
  <2>3. CASE c \notin WaitsFor(d)
    <3>1. ~Idle(c) /\ call[c].stage = "waiting" => refresh'[call[c].on] # None
      BY <1>3, <2>1, <2>3 DEF CallTypeOK, WaitsFor, Of
    <3>2. Same(c) BY <2>3, Settled
    <3>3. QED BY <1>3, <3>1, <3>2, SameTyped
  <2>4. QED BY <2>2, <2>3
<1>5. PagesOK'
  <2>1. ASSUME NEW c \in Calls, Asks(c)'
        PROVE  Asks(c) /\ call'[c].arg = call[c].arg
    <3>1. CASE c \in WaitsFor(d) BY <1>2, <2>1, <3>1, Settled DEF Asks, Idle
    <3>2. CASE c \notin WaitsFor(d) BY <2>1, <3>2, Settled, SameAsks
    <3>3. QED BY <3>1, <3>2
  <2>2. QED BY <1>1, <2>1, PagesFrame
<1>6. jar' \in [Browsers -> [access : BOOLEAN, refresh : Tokens \cup {None}]]
  <2>1. jar \in [Browsers -> [access : BOOLEAN, refresh : Tokens \cup {None}]]
    BY DEF TypeInv, TablesOK
  <2>2. CASE refresh[d].status = 200
    <3>1. jar' = [jar EXCEPT ![BrowserOf[d]] =
                    [access |-> TRUE, refresh |-> refresh[d].token]]
      BY <2>2 DEF RefreshSettles
    <3>2. [access |-> TRUE, refresh |-> refresh[d].token]
             \in [access : BOOLEAN, refresh : Tokens \cup {None}]
      BY Settled
    <3>3. QED BY <2>1, <3>1, <3>2
  <2>3. CASE refresh[d].status # 200
    BY <2>1, <2>3 DEF RefreshSettles
  <2>4. QED BY <2>2, <2>3
<1>7. QED
  BY <1>1, <1>4, <1>5, <1>6, Settled DEF TypeInv, CallsOK, ServerOK, TablesOK,
     server, page

LEMMA LoseCallTyped ==
    ASSUME TypeInv, NEW c \in Calls, LoseCall(c)
    PROVE  TypeInv'
<1>1. /\ ~Idle(c) /\ call[c].stage # "waiting" /\ Respond(c, 0, None)
      /\ UNCHANGED <<server, jar, refresh, page, ended>>
  BY DEF LoseCall, Respond
<1>2. TablesOK' /\ CallsOK' /\ PagesOK' BY <1>1, RespondTyped
<1>3. QED BY <1>1, <1>2 DEF TypeInv, ServerOK, server

LEMMA LoseRefreshTyped ==
    ASSUME TypeInv, NEW c \in Calls, LoseRefresh(c)
    PROVE  TypeInv'
<1>1. /\ refresh[c] # None /\ DOMAIN refresh = Calls
      /\ UNCHANGED <<server, jar, call, page>>
      /\ refresh' = [refresh EXCEPT ![c] =
            [stage |-> "answered", token |-> None, status |-> 0]]
      /\ ended' = [ended EXCEPT ![BrowserOf[c]] = TRUE]
  BY DEF LoseRefresh, TypeInv, TablesOK
<1>2. /\ DOMAIN refresh' = Calls
      /\ \A d \in Calls \ {c} : refresh'[d] = refresh[d]
      /\ refresh'[c] = [stage |-> "answered", token |-> None, status |-> 0]
  BY <1>1
<1>3. refresh'[c] \in RefreshStates BY <1>2 DEF RefreshStates
<1>4. CallsOK' /\ PagesOK' BY <1>1, <1>2, <1>3, RefreshChanged
<1>5. ended' \in [Browsers -> BOOLEAN] BY <1>1 DEF TypeInv, TablesOK
<1>6. QED
  BY <1>1, <1>2, <1>4, <1>5 DEF TypeInv, ServerOK, TablesOK, server, page

LEMMA ExpireTyped ==
    ASSUME TypeInv, NEW b \in Browsers, Expire(b)
    PROVE  TypeInv'
<1>1. /\ UNCHANGED <<server, call, refresh, page>>
      /\ ended' = ended \/ ended' = [ended EXCEPT ![b] = TRUE]
      /\ \/ jar' = [jar EXCEPT ![b].access = FALSE]
         \/ jar' = [jar EXCEPT ![b].refresh = None]
  BY DEF Expire, ExpireAccess, ExpireRefresh
<1>2. ended' \in [Browsers -> BOOLEAN] BY <1>1 DEF TypeInv, TablesOK
<1>3. jar' \in [Browsers -> [access : BOOLEAN, refresh : Tokens \cup {None}]]
  <2>1. jar \in [Browsers -> [access : BOOLEAN, refresh : Tokens \cup {None}]]
    BY DEF TypeInv, TablesOK
  <2>2. ASSUME NEW cookies \in [access : BOOLEAN, refresh : Tokens \cup {None}],
               cookies = jar[b], NEW access \in BOOLEAN, access = FALSE
        PROVE  [cookies EXCEPT !.access = access]
                 \in [access : BOOLEAN, refresh : Tokens \cup {None}]
    OBVIOUS
  <2>3. CASE jar' = [jar EXCEPT ![b].access = FALSE]
    BY <2>1, <2>2, <2>3
  <2>4. CASE jar' = [jar EXCEPT ![b].refresh = None]
    BY <2>1, <2>4
  <2>5. QED BY <1>1, <2>3, <2>4
<1>4. CallsOK' /\ PagesOK' BY <1>1, CallsAlone
<1>5. QED
  BY <1>1, <1>2, <1>3, <1>4 DEF TypeInv, ServerOK, TablesOK, server, page

(***************************************************************************)
(* Type correctness: the pages.                                            *)
(***************************************************************************)
LEMMA SentTyped ==
    ASSUME TypeInv, NEW b \in Browsers,
           NEW kind \in {"me", "list", "login", "register", "logout"},
           NEW arg \in Filters \cup Emails \cup {None}
    PROVE  Sent(b, kind, arg) \in CallStates
<1>1. jar[b].refresh \in Tokens \cup {None} /\ jar[b].access \in BOOLEAN
  BY DEF TypeInv, TablesOK
<1>2. (jar[b].access /\ kind \in Authenticated) \in BOOLEAN OBVIOUS
<1>3. QED BY <1>1, <1>2 DEF Sent, CallStates

\* A call's continuation has run.
LEMMA DoneTyped ==
    ASSUME TypeInv, NEW c \in Calls, OnlyCall(c), call'[c] = None, UNCHANGED refresh
    PROVE  CallsOK'
<1>1. CallTypeOK(c)' BY DEF TypeInv, CallsOK, CallTypeOK, Idle
<1>2. QED BY <1>1, CallsFrame

LEMMA SendTyped ==
    ASSUME TypeInv, NEW c \in Calls, OnlyCall(c), UNCHANGED refresh,
           NEW kind \in {"me", "list", "login", "register", "logout"},
           NEW arg \in Filters \cup Emails \cup {None},
           call'[c] = Sent(BrowserOf[c], kind, arg),
           kind = "me" <=> c \in SessionCalls, kind = "list" <=> c \in ListCalls,
           kind \in {"login", "register"} => arg \in Emails
    PROVE  CallsOK' /\ call'[c] # None
<1>1. /\ call'[c] \in CallStates /\ call'[c].kind = kind /\ call'[c].arg = arg
      /\ call'[c].stage = "sent" /\ call'[c].on = None
  <2>1. BrowserOf[c] \in Browsers BY CallsHaveBrowsers
  <2>2. Sent(BrowserOf[c], kind, arg) \in CallStates BY <2>1, SentTyped
  <2>3. QED BY <2>2 DEF Sent
<1>2. CallTypeOK(c)'
  BY <1>1 DEF TypeInv, CallsOK, CallTypeOK, Idle
<1>3. QED BY <1>1, <1>2, CallsFrame, NoneIsNone

\* Pages of other browsers are not touched by a step of browser b.
LEMMA PagesOthers ==
    ASSUME TypeInv, NEW b \in Browsers, PageOK(b)',
           \A a \in Browsers \ {b} : view'[a] = view[a] /\ list'[a] = list[a],
           \A d \in Calls \ Of(b) : Asks(d)' => Asks(d) /\ call'[d].arg = call[d].arg
    PROVE  PagesOK'
<1>1. ASSUME NEW a \in Browsers \ {b} PROVE PageOK(a)'
  <2>1. PageOK(a) BY DEF TypeInv, PagesOK
  <2>2. Of(a) \subseteq Calls \ Of(b) BY DEF Of
  <2>3. QED BY <2>1, <2>2 DEF PageOK
<1>2. QED BY <1>1 DEF PagesOK

LEMMA NothingShownTyped ==
    /\ NothingShown \in [asked : Filters \cup {None}, shown : Filters \cup {None},
                         loading : BOOLEAN]
    /\ NothingShown.asked = None /\ NothingShown.shown = None
    /\ NothingShown.loading = FALSE
  BY DEF NothingShown

\* A page that is left, or entered, shows nothing and has no list call.
LEMMA LeftPage ==
    ASSUME TypeInv, NEW c \in Calls, OnlyCall(c), NEW v \in {"login", "loading"},
           \/ view' = [view EXCEPT ![BrowserOf[c]] = v]
           \/ view' = view /\ view[BrowserOf[c]] = v,
           list' = [list EXCEPT ![BrowserOf[c]] = NothingShown],
           \A d \in Of(BrowserOf[c]) \ {c} : call'[d] # None => ~call'[d].current,
           call'[c] = None \/ call'[c].kind # "list"
    PROVE  /\ PagesOK'
           /\ view' \in [Browsers -> {"login", "loading", "app"}]
           /\ list' \in [Browsers -> [asked : Filters \cup {None},
                                      shown : Filters \cup {None}, loading : BOOLEAN]]
<1>1. BrowserOf[c] \in Browsers /\ c \in Of(BrowserOf[c]) BY CallsHaveBrowsers
<1>2. /\ view \in [Browsers -> {"login", "loading", "app"}]
      /\ list \in [Browsers -> [asked : Filters \cup {None}, shown : Filters \cup {None},
                                loading : BOOLEAN]]
  BY DEF TypeInv, TablesOK
<1>3. view' \in [Browsers -> {"login", "loading", "app"}] BY <1>1, <1>2
<1>4. list' \in [Browsers -> [asked : Filters \cup {None}, shown : Filters \cup {None},
                              loading : BOOLEAN]]
  BY <1>1, <1>2, NothingShownTyped
<1>5. view'[BrowserOf[c]] = v /\ list'[BrowserOf[c]] = NothingShown
  BY <1>1, <1>2
<1>6. ASSUME NEW d \in Of(BrowserOf[c]) PROVE ~Asks(d)'
  BY <1>6 DEF Asks, Idle
<1>7. PageOK(BrowserOf[c])'
  BY <1>5, <1>6, NothingShownTyped DEF PageOK
<1>8. \A a \in Browsers \ {BrowserOf[c]} : view'[a] = view[a] /\ list'[a] = list[a]
  BY <1>2
<1>9. ASSUME NEW d \in Calls \ Of(BrowserOf[c]), Asks(d)'
      PROVE  Asks(d) /\ call'[d].arg = call[d].arg
  BY <1>1, <1>9, SameAsks DEF OnlyCall
<1>10. QED BY <1>1, <1>3, <1>4, <1>7, <1>8, <1>9, PagesOthers

LEMMA OpenPageTyped ==
    ASSUME TypeInv, NEW c \in Calls, OpenPage(c)
    PROVE  TypeInv'
<1> DEFINE b == BrowserOf[c]
<1>1. /\ c \in SessionCalls
      /\ call' = [Unmounted(b, Calls) EXCEPT ![c] = Sent(b, "me", None)]
      /\ view' = [view EXCEPT ![b] = "loading"]
      /\ list' = [list EXCEPT ![b] = NothingShown]
      /\ UNCHANGED <<server, jar, refresh, ended>>
  BY DEF OpenPage
<1>2. /\ OnlyCall(c) /\ call'[c] = Sent(b, "me", None)
      /\ \A d \in Of(b) \ {c} : call'[d] # None => ~call'[d].current
  <2>1. call'[c] = Sent(b, "me", None) /\ Unmounts(c, b, Calls)
    BY <1>1 DEF Unmounted, Unmounts
  <2>2. QED BY <2>1, UnmountedOnly, CallsHaveBrowsers DEF Of
<1>3. CallsOK' /\ call'[c] # None
  BY <1>1, <1>2, SendTyped, WebAssumption
<1>4. call'[c].kind = "me" BY <1>2 DEF Sent
<1>5. /\ PagesOK' /\ view' \in [Browsers -> {"login", "loading", "app"}]
      /\ list' \in [Browsers -> [asked : Filters \cup {None}, shown : Filters \cup {None},
                                 loading : BOOLEAN]]
  BY <1>1, <1>2, <1>4, LeftPage
<1>6. QED
  BY <1>1, <1>2, <1>3, <1>5 DEF TypeInv, ServerOK, TablesOK, OnlyCall, server

\* A continuation that leaves its page, or a page that leaves its session.
LEMMA LeaveTyped ==
    ASSUME TypeInv, NEW c \in Calls, NEW v \in {"login", "loading"},
           Unmounts(c, BrowserOf[c], Calls), call'[c] = None,
           view' = [view EXCEPT ![BrowserOf[c]] = v],
           list' = [list EXCEPT ![BrowserOf[c]] = NothingShown],
           UNCHANGED <<server, refresh, ended>>,
           jar' \in [Browsers -> [access : BOOLEAN, refresh : Tokens \cup {None}]]
    PROVE  TypeInv'
<1>1. /\ OnlyCall(c)
      /\ \A d \in Of(BrowserOf[c]) \ {c} : call'[d] # None => ~call'[d].current
  BY UnmountedOnly, CallsHaveBrowsers DEF Of
<1>2. CallsOK' BY <1>1, DoneTyped
<1>3. /\ PagesOK' /\ view' \in [Browsers -> {"login", "loading", "app"}]
      /\ list' \in [Browsers -> [asked : Filters \cup {None}, shown : Filters \cup {None},
                                 loading : BOOLEAN]]
  BY <1>1, LeftPage
<1>4. QED
  BY <1>1, <1>2, <1>3 DEF TypeInv, ServerOK, TablesOK, OnlyCall, server

\* A call is forgotten, or sent, and its page goes on.
LEMMA StayTyped ==
    ASSUME TypeInv, NEW c \in Calls, OnlyCall(c), CallsOK', ~Asks(c)',
           UNCHANGED <<server, jar, refresh, page>>,
           ended' \in [Browsers -> BOOLEAN]
    PROVE  TypeInv'
<1>1. ASSUME NEW d \in Calls, Asks(d)'
      PROVE  Asks(d) /\ call'[d].arg = call[d].arg
  BY <1>1, SameAsks DEF OnlyCall
<1>2. PagesOK' BY <1>1, PagesFrame
<1>3. QED BY <1>2 DEF TypeInv, ServerOK, TablesOK, OnlyCall, server, page

LEMMA ForgetOnly ==
    ASSUME TypeInv, NEW c \in Calls, call' = [call EXCEPT ![c] = None]
    PROVE  OnlyCall(c) /\ call'[c] = None /\ ~Asks(c)'
<1>1. /\ DOMAIN call' = Calls /\ call'[c] = None
      /\ \A d \in Calls \ {c} : call'[d] = call[d]
  BY DEF TypeInv, TablesOK
<1>2. QED BY <1>1, ChangedCallOnly DEF Asks, Idle

\* What a session page becomes when the answer is there.
LEMMA FinishMeView ==
    ASSUME TypeInv, NEW c \in Calls, FinishMe(c)
    PROVE  /\ ~Idle(c) /\ call[c].kind = "me" /\ call[c].stage = "answered"
           /\ \E v \in {"login", "loading", "app"} :
                view' = [view EXCEPT ![BrowserOf[c]] = v]
           /\ UNCHANGED <<server, jar, refresh, ended>>
<1>1. /\ view[BrowserOf[c]] \in {"login", "loading", "app"}
  BY CallsHaveBrowsers DEF TypeInv, TablesOK
<1>2. /\ ~Idle(c) /\ call[c].kind = "me" /\ call[c].stage = "answered"
      /\ UNCHANGED <<server, jar, refresh, ended>>
  BY DEF FinishMe, Final, Answered
<1>3. CASE view[BrowserOf[c]] = "login"
  BY <1>2, <1>3 DEF FinishMe
<1>4. CASE view[BrowserOf[c]] # "login"
  <2>1. CASE call[c].status = 401
    BY <1>2, <1>4, <2>1 DEF FinishMe
  <2>2. CASE call[c].status = 200 /\ call[c].current
    BY <1>2, <1>4, <2>2 DEF FinishMe
  <2>3. CASE call[c].status \notin {200, 401} /\ call[c].current
    BY <1>2, <1>4, <2>3 DEF FinishMe
  <2>4. CASE call[c].status # 401 /\ ~call[c].current
    BY <1>1, <1>2, <1>4, <2>4 DEF FinishMe
  <2>5. QED BY <2>1, <2>2, <2>3, <2>4
<1>5. QED BY <1>3, <1>4

LEMMA FinishMeTyped ==
    ASSUME TypeInv, NEW c \in Calls, FinishMe(c)
    PROVE  TypeInv'
<1> DEFINE b == BrowserOf[c]
<1>1. /\ ~Idle(c) /\ UNCHANGED <<server, jar, refresh, ended>>
  BY FinishMeView
<1>2. PICK v \in {"login", "loading", "app"} : view' = [view EXCEPT ![b] = v]
  BY FinishMeView
<1>3. /\ b \in Browsers
      /\ view \in [Browsers -> {"login", "loading", "app"}]
      /\ jar \in [Browsers -> [access : BOOLEAN, refresh : Tokens \cup {None}]]
  BY CallsHaveBrowsers DEF TypeInv, TablesOK
<1>4. view'[b] = v BY <1>2, <1>3
<1>5. CASE v \in {view[b], "app"}
  <2>1. call' = [call EXCEPT ![c] = None] /\ UNCHANGED list
    BY <1>4, <1>5 DEF FinishMe
  <2>2. OnlyCall(c) /\ call'[c] = None /\ ~Asks(c)' BY <2>1, ForgetOnly
  <2>3. CallsOK' BY <1>1, <2>2, DoneTyped
  <2>4. ASSUME NEW d \in Calls, Asks(d)'
        PROVE  Asks(d) /\ call'[d].arg = call[d].arg
    BY <2>2, <2>4, SameAsks DEF OnlyCall
  <2>5. PageOK(b)'
    <3>1. PageOK(b) BY <1>3 DEF TypeInv, PagesOK
    <3>2. list'[b] = list[b] /\ Of(b) \subseteq Calls BY <2>1 DEF Of
    <3>3. QED BY <1>4, <1>5, <2>4, <3>1, <3>2 DEF PageOK
  <2>6. \A a \in Browsers \ {b} : view'[a] = view[a] /\ list'[a] = list[a]
    BY <1>2, <1>3, <2>1
  <2>7. PagesOK' BY <1>3, <2>4, <2>5, <2>6, PagesOthers
  <2>8. view' \in [Browsers -> {"login", "loading", "app"}] BY <1>2, <1>3
  <2>9. QED
    BY <1>1, <2>1, <2>2, <2>3, <2>7, <2>8
       DEF TypeInv, ServerOK, TablesOK, OnlyCall, server
<1>6. CASE v \notin {view[b], "app"}
  <2>1. /\ call' = [Unmounted(b, Calls) EXCEPT ![c] = None]
        /\ list' = [list EXCEPT ![b] = NothingShown]
    BY <1>4, <1>6 DEF FinishMe
  <2>2. Unmounts(c, b, Calls) /\ call'[c] = None
    BY <2>1 DEF Unmounts, Unmounted
  <2>3. v \in {"login", "loading"} BY <1>6
  <2>4. QED BY <1>1, <1>2, <1>3, <2>1, <2>2, <2>3, LeaveTyped
<1>7. QED BY <1>5, <1>6

LEMMA RefreshListTyped ==
    ASSUME TypeInv, NEW c \in Calls, Refresh(c)
    PROVE  TypeInv'
<1> DEFINE b == BrowserOf[c]
           f == FilterOf[c]
<1>1. /\ c \in ListCalls /\ view[b] = "app" /\ f \in Filters
      /\ b \in Browsers /\ c \in Of(b)
      /\ list' = [list EXCEPT ![b] = [asked |-> f, shown |-> None, loading |-> TRUE]]
      /\ call' = [Unmounted(b, ListCalls) EXCEPT ![c] = Sent(b, "list", f)]
      /\ UNCHANGED <<server, jar, refresh, view, ended>>
  BY WebAssumption, CallsHaveBrowsers DEF Refresh
<1>2. call'[c] = Sent(b, "list", f) /\ Unmounts(c, b, ListCalls)
  BY <1>1 DEF Unmounted, Unmounts
<1>3. /\ OnlyCall(c)
      /\ \A d \in (Of(b) \cap ListCalls) \ {c} : call'[d] # None => ~call'[d].current
  BY <1>1, <1>2, UnmountedOnly DEF Calls
<1>4. CallsOK' /\ call'[c] # None
  BY <1>1, <1>2, <1>3, SendTyped, WebAssumption
<1>5. list \in [Browsers -> [asked : Filters \cup {None}, shown : Filters \cup {None},
                             loading : BOOLEAN]]
  BY DEF TypeInv, TablesOK
<1>6. list' \in [Browsers -> [asked : Filters \cup {None}, shown : Filters \cup {None},
                              loading : BOOLEAN]]
  <2>1. [asked |-> f, shown |-> None, loading |-> TRUE]
          \in [asked : Filters \cup {None}, shown : Filters \cup {None},
               loading : BOOLEAN]
    BY <1>1
  <2>2. QED BY <1>1, <1>5, <2>1
<1>7. /\ list'[b] = [asked |-> f, shown |-> None, loading |-> TRUE]
      /\ \A a \in Browsers \ {b} : list'[a] = list[a]
  BY <1>1, <1>5
<1>8. ASSUME NEW d \in Of(b), Asks(d)' PROVE call'[d].arg = f
  <2>1. CASE d = c BY <1>2, <2>1 DEF Sent
  <2>2. CASE d # c
    <3>1. d \in Calls /\ call'[d].kind = "list" /\ CallTypeOK(d)'
          /\ call'[d] # None /\ call'[d].current
      BY <1>4, <1>8 DEF CallsOK, Of, Asks, Idle
    <3>2. d \in ListCalls BY <3>1 DEF CallTypeOK, Idle
    <3>3. QED BY <1>3, <1>8, <2>2, <3>1, <3>2
  <2>3. QED BY <2>1, <2>2
<1>9. PageOK(b)'
  BY <1>1, <1>7, <1>8 DEF PageOK
<1>10. ASSUME NEW d \in Calls \ Of(b), Asks(d)'
       PROVE  Asks(d) /\ call'[d].arg = call[d].arg
  BY <1>1, <1>3, <1>10, SameAsks DEF OnlyCall
<1>11. PagesOK' BY <1>1, <1>7, <1>9, <1>10, PagesOthers
<1>12. QED
  BY <1>1, <1>3, <1>4, <1>6, <1>11 DEF TypeInv, ServerOK, TablesOK, OnlyCall, server

LEMMA FinishListTyped ==
    ASSUME TypeInv, NEW c \in Calls, FinishList(c)
    PROVE  TypeInv'
<1> DEFINE b == BrowserOf[c]
<1>1. /\ ~Idle(c) /\ call[c].kind = "list"
      /\ call' = [call EXCEPT ![c] = None]
      /\ UNCHANGED <<server, jar, refresh, view, ended>>
  BY DEF FinishList, Final, Answered
<1>2. OnlyCall(c) /\ call'[c] = None /\ ~Asks(c)' BY <1>1, ForgetOnly
<1>3. CallsOK' BY <1>1, <1>2, DoneTyped
<1>4. ASSUME NEW d \in Calls, Asks(d)'
      PROVE  Asks(d) /\ call'[d].arg = call[d].arg
  BY <1>2, <1>4, SameAsks DEF OnlyCall
<1>5. /\ b \in Browsers /\ c \in Of(b) /\ Of(b) \subseteq Calls /\ PageOK(b)
      /\ list \in [Browsers -> [asked : Filters \cup {None}, shown : Filters \cup {None},
                                loading : BOOLEAN]]
  BY CallsHaveBrowsers DEF TypeInv, TablesOK, PagesOK, Of
<1>6. CASE ~call[c].current
  <2>1. UNCHANGED list BY <1>6 DEF FinishList, LatestAnswer
  <2>2. QED BY <1>1, <1>2, <1>3, <2>1, StayTyped DEF page, TypeInv, TablesOK
<1>7. CASE call[c].current
  <2>1. view[b] = "app" /\ list[b].asked = call[c].arg
    BY <1>1, <1>5, <1>7 DEF PageOK, Asks
  <2> DEFINE shown == IF call[c].status = 200 THEN call[c].arg ELSE None
  <2>2. shown \in Filters \cup {None}
    BY <1>5, <2>1
  <2>3. list' = [list EXCEPT ![b] = [@ EXCEPT !.shown = shown, !.loading = FALSE]]
    BY <1>7 DEF FinishList, LatestAnswer
  <2>4. list'[b] = [list[b] EXCEPT !.shown = shown, !.loading = FALSE]
        /\ \A a \in Browsers \ {b} : list'[a] = list[a]
    BY <1>5, <2>3
  <2>5. list'[b] \in [asked : Filters \cup {None}, shown : Filters \cup {None},
                     loading : BOOLEAN]
        /\ list'[b].asked = list[b].asked /\ list'[b].shown = shown
        /\ ~list'[b].loading
    <3>1. ASSUME NEW r \in [asked : Filters \cup {None}, shown : Filters \cup {None},
                            loading : BOOLEAN],
                 NEW f \in Filters \cup {None}, NEW s,
                 s = [r EXCEPT !.shown = f, !.loading = FALSE]
          PROVE  s \in [asked : Filters \cup {None}, shown : Filters \cup {None},
                        loading : BOOLEAN]
                 /\ s.asked = r.asked /\ s.shown = f /\ ~s.loading
      BY <3>1
    <3>2. list[b] \in [asked : Filters \cup {None}, shown : Filters \cup {None},
                      loading : BOOLEAN]
      BY <1>5
    <3>3. QED BY <2>2, <2>4, <3>1, <3>2
  <2>6. list' \in [Browsers -> [asked : Filters \cup {None},
                                shown : Filters \cup {None}, loading : BOOLEAN]]
    BY <1>5, <2>3, <2>4, <2>5
  <2>7. PageOK(b)'
    BY <1>1, <1>4, <1>5, <2>1, <2>5 DEF PageOK
  <2>8. PagesOK' BY <1>1, <1>4, <1>5, <2>4, <2>7, PagesOthers
  <2>9. QED
    BY <1>1, <1>2, <1>3, <2>6, <2>8 DEF TypeInv, ServerOK, TablesOK, OnlyCall, server
<1>8. QED BY <1>6, <1>7

LEMMA SignInTyped ==
    ASSUME TypeInv, NEW c \in Calls, NEW kind \in {"login", "register"},
           NEW e \in Emails, SignIn(c, kind, e)
    PROVE  TypeInv'
<1>1. /\ c \in FormCalls /\ call' = [call EXCEPT ![c] = Sent(BrowserOf[c], kind, e)]
      /\ UNCHANGED <<server, jar, refresh, page, ended>>
  BY DEF SignIn, Begin
<1>2. /\ DOMAIN call' = Calls /\ call'[c] = Sent(BrowserOf[c], kind, e)
      /\ \A d \in Calls \ {c} : call'[d] = call[d]
  BY <1>1 DEF TypeInv, TablesOK
<1>3. OnlyCall(c) BY <1>2, ChangedCallOnly
<1>4. CallsOK' BY <1>1, <1>2, <1>3, SendTyped, WebAssumption
<1>5. ~Asks(c)' BY <1>2 DEF Sent, Asks
<1>6. QED BY <1>1, <1>3, <1>4, <1>5, StayTyped DEF TypeInv, TablesOK

LEMMA LogoutTyped ==
    ASSUME TypeInv, NEW c \in Calls, Logout(c)
    PROVE  TypeInv'
<1>1. /\ c \in FormCalls
      /\ call' = [call EXCEPT ![c] = Sent(BrowserOf[c], "logout", None)]
      /\ ended' = [ended EXCEPT ![BrowserOf[c]] = TRUE]
      /\ UNCHANGED <<server, jar, refresh, page>>
  BY DEF Logout, Begin
<1>2. /\ DOMAIN call' = Calls /\ call'[c] = Sent(BrowserOf[c], "logout", None)
      /\ \A d \in Calls \ {c} : call'[d] = call[d]
  BY <1>1 DEF TypeInv, TablesOK
<1>3. OnlyCall(c) BY <1>2, ChangedCallOnly
<1>4. CallsOK' BY <1>1, <1>2, <1>3, SendTyped, WebAssumption
<1>5. ~Asks(c)' BY <1>2 DEF Sent, Asks
<1>6. ended' \in [Browsers -> BOOLEAN] BY <1>1 DEF TypeInv, TablesOK
<1>7. QED BY <1>1, <1>3, <1>4, <1>5, <1>6, StayTyped

LEMMA FinishSignInTyped ==
    ASSUME TypeInv, NEW c \in Calls, FinishSignIn(c)
    PROVE  TypeInv'
<1> DEFINE b == BrowserOf[c]
<1>1. ~Idle(c) /\ UNCHANGED <<server, refresh, ended>>
  BY DEF FinishSignIn, Final, Answered
<1>2. CASE call[c].status = 200
  <2>1. /\ jar' = [jar EXCEPT ![b] = [access |-> TRUE, refresh |-> call[c].token]]
        /\ view' = [view EXCEPT ![b] = "loading"]
        /\ list' = [list EXCEPT ![b] = NothingShown]
        /\ call' = [Unmounted(b, Calls) EXCEPT ![c] = None]
    BY <1>2 DEF FinishSignIn
  <2>2. call[c].token \in Tokens \cup {None} BY <1>1, CallKnown DEF CallStates
  <2>3. [access |-> TRUE, refresh |-> call[c].token]
           \in [access : BOOLEAN, refresh : Tokens \cup {None}]
    BY <2>2
  <2>4. jar' \in [Browsers -> [access : BOOLEAN, refresh : Tokens \cup {None}]]
    BY <2>1, <2>3 DEF TypeInv, TablesOK
  <2>5. Unmounts(c, b, Calls) /\ call'[c] = None
    BY <2>1 DEF Unmounts, Unmounted
  <2>6. QED BY <1>1, <2>1, <2>4, <2>5, LeaveTyped
<1>3. CASE call[c].status # 200
  <2>1. call' = [call EXCEPT ![c] = None] /\ UNCHANGED <<jar, view, list>>
    BY <1>3 DEF FinishSignIn
  <2>2. OnlyCall(c) /\ call'[c] = None /\ ~Asks(c)' BY <2>1, ForgetOnly
  <2>3. CallsOK' BY <1>1, <2>2, DoneTyped
  <2>4. QED BY <1>1, <2>1, <2>2, <2>3, StayTyped DEF page, TypeInv, TablesOK
<1>4. QED BY <1>2, <1>3

LEMMA FinishLogoutTyped ==
    ASSUME TypeInv, NEW c \in Calls, FinishLogout(c)
    PROVE  TypeInv'
<1> DEFINE b == BrowserOf[c]
<1>1. ~Idle(c) /\ UNCHANGED <<server, refresh, ended>>
  BY DEF FinishLogout, Final, Answered
<1>2. CASE call[c].status = 200
  <2>1. /\ jar' = [jar EXCEPT ![b] = [access |-> FALSE, refresh |-> None]]
        /\ view' = [view EXCEPT ![b] = "login"]
        /\ list' = [list EXCEPT ![b] = NothingShown]
        /\ call' = [Unmounted(b, Calls) EXCEPT ![c] = None]
    BY <1>2 DEF FinishLogout
  <2>2. [access |-> FALSE, refresh |-> None]
           \in [access : BOOLEAN, refresh : Tokens \cup {None}]
    OBVIOUS
  <2>3. jar' \in [Browsers -> [access : BOOLEAN, refresh : Tokens \cup {None}]]
    BY <2>1, <2>2 DEF TypeInv, TablesOK
  <2>4. Unmounts(c, b, Calls) /\ call'[c] = None
    BY <2>1 DEF Unmounts, Unmounted
  <2>5. QED BY <1>1, <2>1, <2>3, <2>4, LeaveTyped
<1>3. CASE call[c].status # 200
  <2>1. call' = [call EXCEPT ![c] = None] /\ UNCHANGED <<jar, view, list>>
    BY <1>3 DEF FinishLogout
  <2>2. OnlyCall(c) /\ call'[c] = None /\ ~Asks(c)' BY <2>1, ForgetOnly
  <2>3. CallsOK' BY <1>1, <2>2, DoneTyped
  <2>4. QED BY <1>1, <2>1, <2>2, <2>3, StayTyped DEF page, TypeInv, TablesOK
<1>4. QED BY <1>2, <1>3

----------------------------------------------------------------------------
LEMMA InitTyped == Init => TypeInv
<1> SUFFICES ASSUME Init PROVE TypeInv
  OBVIOUS
<1>1. ServerOK BY WebAssumption DEF Init, ServerOK
<1>2. TablesOK BY NothingShownTyped DEF Init, TablesOK
<1>3. CallsOK BY DEF Init, CallsOK, CallTypeOK, Idle
<1>4. PagesOK
  <2>1. ASSUME NEW b \in Browsers PROVE PageOK(b)
    <3>1. list[b] = NothingShown BY DEF Init
    <3>2. \A c \in Of(b) : ~Asks(c) BY DEF Init, Asks, Idle, Of
    <3>3. QED BY <3>1, <3>2, NothingShownTyped DEF PageOK
  <2>2. QED BY <2>1 DEF PagesOK
<1>5. QED BY <1>1, <1>2, <1>3, <1>4 DEF TypeInv

LEMMA NextTyped ==
    ASSUME TypeInv, [Next]_vars
    PROVE  TypeInv'
<1>1. CASE UNCHANGED vars
  <2>1. CallsOK' /\ PagesOK' BY <1>1, CallsAlone DEF vars, page
  <2>2. QED BY <1>1, <2>1 DEF vars, TypeInv, ServerOK, TablesOK
<1>2. ASSUME NEW c \in Calls, User(c) \/ Progress(c) \/ Lose(c)
      PROVE  TypeInv'
  <2>1. CASE User(c)
    BY <2>1, OpenPageTyped, RefreshListTyped, SignInTyped, LogoutTyped DEF User
  <2>2. CASE Progress(c)
    BY <2>2, ServeTyped, RefreshAccessTokenTyped, RefreshSettlesTyped, FinishMeTyped,
       FinishListTyped, FinishSignInTyped, FinishLogoutTyped
       DEF Progress, Client, Continue
  <2>3. CASE Lose(c)
    BY <2>3, LoseCallTyped, LoseRefreshTyped DEF Lose
  <2>4. QED BY <1>2, <2>1, <2>2, <2>3
<1>3. QED BY <1>1, <1>2, ExpireTyped, RegisterElsewhereTyped DEF Next

\* Every state the web client and the accounts service can reach is well
\* formed: calls have answers of their kind, and wait for a refresh there is.
THEOREM WebTypeCorrect == Spec => []WebTypeOK
<1>1. TypeInv => WebTypeOK
  BY DEF TypeInv, ServerOK, TablesOK, CallsOK, PagesOK, PageOK, WebTypeOK
<1>2. QED BY <1>1, InitTyped, NextTyped, PTL DEF Spec

\* ProjectsContainer and ClientsContainer: a list that is shown is the one asked
\* for last, for any number of requests overtaking one another.
THEOREM ShownListAskedFor == Spec => []ListFitsFilter
<1>1. TypeInv => ListFitsFilter
  BY DEF TypeInv, PagesOK, PageOK, ListFitsFilter
<1>2. QED BY <1>1, InitTyped, NextTyped, PTL DEF Spec

(***************************************************************************)
(* An account is only appended, for an address that has none.              *)
(***************************************************************************)
LEMMA AccountsAppended ==
    ASSUME TypeInv, [Next]_vars
    PROVE  \/ UNCHANGED accounts
           \/ \E e \in Emails : ~Registered(e) /\ accounts' = Append(accounts, e)
<1>1. CASE UNCHANGED vars BY <1>1 DEF vars
<1>2. CASE RegisterElsewhere
  BY <1>2 DEF RegisterElsewhere, EmailTaken, Create
<1>3. ASSUME NEW c \in Calls, ServeRegisterInsert(c)
      PROVE  \/ UNCHANGED accounts
             \/ \E e \in Emails : ~Registered(e) /\ accounts' = Append(accounts, e)
  <2>1. call[c].arg \in Emails
    BY <1>3 DEF ServeRegisterInsert, Serving, TypeInv, CallsOK, CallTypeOK
  <2>2. QED BY <1>3, <2>1 DEF ServeRegisterInsert, EmailTaken, Create, server
<1>4. ASSUME NEW c \in Calls,
             User(c) \/ Client(c) \/ Continue(c) \/ Lose(c)
      PROVE  UNCHANGED accounts
  BY <1>4
     DEF User, OpenPage, Refresh, SignIn, Logout, Client, RefreshAccessToken,
         RefreshSettles, Continue, FinishMe, FinishList, FinishSignIn, FinishLogout,
         Lose, LoseCall, LoseRefresh, server
<1>5. ASSUME NEW c \in Calls, Serve(c), ~ServeRegisterInsert(c)
      PROVE  UNCHANGED accounts
  BY <1>5
     DEF Serve, ServeRead, ServeLogin, ServeRegisterExists, ServeLogout,
         RefreshCheck, RefreshRotate, server
<1>6. ASSUME NEW b \in Browsers, Expire(b)
      PROVE  UNCHANGED accounts
  BY <1>6 DEF Expire, ExpireAccess, ExpireRefresh, server
<1>7. QED BY <1>1, <1>2, <1>3, <1>4, <1>5, <1>6 DEF Next, Progress

\* AuthService.register and the unique column normalized_email: however many
\* registrations look for an address together, it gets one account.
THEOREM OneAccountEach == Spec => []OneAccountPerEmail
<1>1. Init => OneAccountPerEmail BY DEF Init, OneAccountPerEmail
<1>2. TypeInv /\ OneAccountPerEmail /\ [Next]_vars => OneAccountPerEmail'
  <2> SUFFICES ASSUME TypeInv, OneAccountPerEmail, [Next]_vars
               PROVE  OneAccountPerEmail'
    OBVIOUS
  <2>1. CASE UNCHANGED accounts BY <2>1 DEF OneAccountPerEmail
  <2>2. ASSUME NEW e \in Emails, ~Registered(e), accounts' = Append(accounts, e)
        PROVE  OneAccountPerEmail'
    <3>1. accounts \in Seq(Emails) BY DEF TypeInv, ServerOK
    <3>2. /\ DOMAIN accounts' = 1..(Len(accounts) + 1)
          /\ DOMAIN accounts = 1..Len(accounts)
          /\ accounts'[Len(accounts) + 1] = e
          /\ \A a \in DOMAIN accounts : accounts'[a] = accounts[a] /\ accounts[a] # e
      BY <2>2, <3>1 DEF Registered
    <3>3. ASSUME NEW a \in DOMAIN accounts', a \notin DOMAIN accounts
          PROVE  a = Len(accounts) + 1
      BY <3>1, <3>2, <3>3
    <3>4. QED BY <3>2, <3>3 DEF OneAccountPerEmail
  <2>3. QED BY <2>1, <2>2, AccountsAppended
<1>3. QED BY <1>1, <1>2, InitTyped, NextTyped, PTL DEF Spec

(***************************************************************************)
(* What keeps the session of a browser.                                    *)
(***************************************************************************)
SignIns == {"login", "register"}

\* A sign-in whose answer brings a token.
Signing(c) == ~Idle(c) /\ call[c].kind \in SignIns /\ call[c].token # None

Holds(b, t) ==
    \/ jar[b].refresh = t
    \/ \E c \in Of(b) : ~Idle(c) /\ call[c].token = t
    \/ \E c \in Of(b) : refresh[c] # None /\ refresh[c].token = t

\* No two browsers hold the same token.
HeldOnce ==
    \A a, b \in Browsers, t \in Tokens : Holds(a, t) /\ Holds(b, t) => a = b

OneRefresh(b) ==
    \A c, d \in Of(b) : refresh[c] # None /\ refresh[d] # None => c = d

\* The token of a sign-in is nobody else's until its answer is in the jar.
Apart(c) ==
    LET b == BrowserOf[c] IN
    Signing(c) =>
       /\ jar[b].refresh # call[c].token
       /\ \A d \in Of(b) :
             /\ refresh[d] # None => refresh[d].token # call[c].token
             /\ Signing(d) /\ call[d].token = call[c].token => c = d

\* A call that was sent again carries an access token, so no 401 is the last
\* answer to a call; and the tokens of sign-ins are valid.
CallKept(c) ==
    ~Idle(c) =>
       /\ call[c].kind # "logout"
       /\ view[BrowserOf[c]] = "login" => call[c].kind \in SignIns
       /\ call[c].kind \in Authenticated /\ call[c].retried =>
             /\ call[c].stage = "sent" => call[c].access
             /\ call[c].stage = "answered" => call[c].status # 401
       /\ call[c].kind \in SignIns /\ call[c].stage = "answered" /\ call[c].status = 200
             => call[c].token \in valid

RefreshKept(d) ==
    refresh[d] # None =>
       /\ view[BrowserOf[d]] # "login"
       /\ refresh[d].token \in valid
       /\ refresh[d].stage = "answered" => refresh[d].status = 200

\* The jar has a token that can be refreshed, or gets one.
TokenKept(b) ==
    \/ view[b] = "login"
    \/ jar[b].refresh \in valid
    \/ \E d \in Of(b) : refresh[d] # None /\ refresh[d].stage = "answered"

Kept(b) ==
    ~ended[b] =>
       /\ \A c \in Of(b) : CallKept(c) /\ RefreshKept(c)
       /\ TokenKept(b)

Safe(b) == OneRefresh(b) /\ (\A c \in Of(b) : Apart(c)) /\ Kept(b)

SessionInv == HeldOnce /\ \A b \in Browsers : Safe(b)

LEMMA OfKnown ==
    ASSUME NEW b \in Browsers, NEW c \in Of(b)
    PROVE  c \in Calls /\ BrowserOf[c] = b
  BY DEF Of

\* A fresh token is held by nobody.
LEMMA FreshNotHeld ==
    ASSUME NEW t \in FreshTokens, NEW b \in Browsers
    PROVE  ~Holds(b, t)
  BY DEF FreshTokens, HeldTokens, Holds, Of

(***************************************************************************)
(* A step of one browser leaves the others safe.                           *)
(***************************************************************************)
\* The browsers other than b do not notice.
Elsewhere(b) ==
    /\ \A a \in Browsers \ {b} : /\ jar'[a].refresh = jar[a].refresh
                                 /\ view'[a] = view[a] /\ ended'[a] = ended[a]
    /\ \A d \in Calls \ Of(b) : Same(d) /\ refresh'[d] = refresh[d]

\* Browser b revokes only tokens it holds, and takes only tokens nobody holds.
Proper(b) ==
    /\ \A t \in valid : t \in valid' \/ (t \in Tokens /\ Holds(b, t))
    /\ \A t \in Tokens : Holds(b, t)' => Holds(b, t) \/ t \in FreshTokens

LEMMA ElsewhereHolds ==
    ASSUME NEW b \in Browsers, NEW a \in Browsers \ {b}, Elsewhere(b), NEW t
    PROVE  Holds(a, t)' <=> Holds(a, t)
<1>1. jar'[a].refresh = jar[a].refresh BY DEF Elsewhere
<1>2. \A d \in Of(a) : Same(d) /\ refresh'[d] = refresh[d] BY DEF Elsewhere, Of
<1>3. \A d \in Of(a) : (~Idle(d) /\ call[d].token = t)
                          <=> (~Idle(d)' /\ call'[d].token = t)
  BY <1>2 DEF Same, Idle
<1>4. QED BY <1>1, <1>2, <1>3 DEF Holds

\* The condition of a call that only its component may have left.
LEMMA SameKept ==
    ASSUME NEW d \in Calls, Same(d), CallKept(d),
           view'[BrowserOf[d]] = "login" => view[BrowserOf[d]] = "login",
           ~Idle(d) /\ call[d].token \in valid => call[d].token \in valid'
    PROVE  CallKept(d)'
  BY DEF Same, CallKept, Idle

LEMMA SameSigning ==
    ASSUME NEW d \in Calls, Same(d)
    PROVE  /\ Signing(d)' <=> Signing(d)
           /\ Signing(d) => call'[d].token = call[d].token
  BY DEF Same, Signing, Idle

LEMMA ElsewhereSafe ==
    ASSUME TypeInv, SessionInv, NEW b \in Browsers, NEW a \in Browsers \ {b},
           Elsewhere(b), Proper(b)
    PROVE  Safe(a)'
<1>1. Safe(a) /\ HeldOnce BY DEF SessionInv
<1>2. /\ jar'[a].refresh = jar[a].refresh /\ view'[a] = view[a] /\ ended'[a] = ended[a]
      /\ \A d \in Of(a) : /\ d \in Calls /\ BrowserOf[d] = a
                          /\ Same(d) /\ refresh'[d] = refresh[d]
  BY DEF Elsewhere, Of
<1>3. ASSUME NEW t, Holds(a, t), t \in valid PROVE t \in valid'
  <2>1. CASE t \in Tokens /\ Holds(b, t) BY <1>1, <1>3, <2>1 DEF HeldOnce
  <2>2. QED BY <1>3, <2>1 DEF Proper
<1>4. OneRefresh(a)' BY <1>1, <1>2 DEF Safe, OneRefresh
<1>5. ASSUME NEW c \in Of(a) PROVE Apart(c)'
  <2>1. Apart(c) BY <1>1 DEF Safe
  <2>2. \A d \in Of(a) : /\ Signing(d)' <=> Signing(d)
                         /\ Signing(d) => call'[d].token = call[d].token
    BY <1>2, SameSigning
  <2>3. QED BY <1>2, <2>1, <2>2 DEF Apart
<1>6. ASSUME ~ended[a] PROVE Kept(a)'
  <2>1. /\ \A c \in Of(a) : CallKept(c) /\ RefreshKept(c)
        /\ TokenKept(a)
    BY <1>1, <1>6 DEF Safe, Kept
  <2>2. ASSUME NEW c \in Of(a) PROVE CallKept(c)'
    <3>1. ~Idle(c) /\ call[c].token \in valid => call[c].token \in valid'
      BY <1>3 DEF Holds
    <3>2. QED BY <1>2, <2>1, <3>1, SameKept
  <2>3. ASSUME NEW c \in Of(a) PROVE RefreshKept(c)'
    <3>1. refresh[c] # None /\ refresh[c].token \in valid => refresh[c].token \in valid'
      BY <1>3 DEF Holds
    <3>2. QED BY <1>2, <2>1, <3>1 DEF RefreshKept
  <2>4. TokenKept(a)'
    <3>1. jar[a].refresh \in valid => jar[a].refresh \in valid' BY <1>3 DEF Holds
    <3>2. QED BY <1>2, <2>1, <3>1 DEF TokenKept
  <2>5. QED BY <2>2, <2>3, <2>4 DEF Kept
<1>7. Kept(a)' BY <1>2, <1>6 DEF Kept
<1>8. QED BY <1>4, <1>5, <1>7 DEF Safe

LEMMA Combine ==
    ASSUME TypeInv, SessionInv, NEW b \in Browsers, Elsewhere(b), Proper(b), Safe(b)'
    PROVE  SessionInv'
<1>1. \A a \in Browsers : Safe(a)' BY ElsewhereSafe
<1>2. ASSUME NEW p \in Browsers, NEW q \in Browsers, NEW t \in Tokens,
             Holds(p, t)', Holds(q, t)'
      PROVE  p = q
  <2>1. CASE p # b /\ q # b
    BY <1>2, <2>1, ElsewhereHolds DEF SessionInv, HeldOnce
  <2>2. ASSUME NEW a \in Browsers \ {b}, Holds(a, t)' PROVE ~Holds(b, t)'
    <3>1. Holds(a, t) BY <2>2, ElsewhereHolds
    <3>2. t \notin FreshTokens BY <3>1, FreshNotHeld
    <3>3. ~Holds(b, t) BY <3>1 DEF SessionInv, HeldOnce
    <3>4. QED BY <3>2, <3>3 DEF Proper
  <2>3. QED BY <1>2, <2>1, <2>2
<1>3. HeldOnce' BY <1>2 DEF HeldOnce
<1>4. QED BY <1>1, <1>3 DEF SessionInv

(***************************************************************************)
(* Steps that move no token: the session of the browser stays as it is.    *)
(***************************************************************************)
Quiet(c) ==
    LET b == BrowserOf[c] IN
    /\ OnlyCall(c) /\ UNCHANGED <<valid, refresh>>
    /\ \A a \in Browsers : jar'[a].refresh = jar[a].refresh
    /\ \A a \in Browsers \ {b} : view'[a] = view[a] /\ ended'[a] = ended[a]
    /\ ~ended'[b] => /\ ~ended[b] /\ CallKept(c)'
                     /\ view'[b] = "login" <=> view[b] = "login"
    /\ Signing(c)' => Signing(c) /\ call'[c].token = call[c].token
    /\ ~Idle(c)' => \/ call'[c].token \in {None, jar[b].refresh}
                    \/ ~Idle(c) /\ call'[c].token = call[c].token

LEMMA QuietSafe ==
    ASSUME TypeInv, SessionInv, NEW c \in Calls, Quiet(c)
    PROVE  SessionInv'
<1>1. PICK b \in Browsers : b = BrowserOf[c] /\ c \in Of(b) BY CallsHaveBrowsers
<1>2. /\ OnlyCall(c) /\ UNCHANGED <<valid, refresh>>
      /\ \A a \in Browsers : jar'[a].refresh = jar[a].refresh
  BY DEF Quiet
<1>3. \A d \in Calls \ {c} : Same(d) BY <1>2 DEF OnlyCall
<1>4. Elsewhere(b)
  <2>1. \A a \in Browsers \ {b} : view'[a] = view[a] /\ ended'[a] = ended[a]
    BY <1>1 DEF Quiet
  <2>2. QED BY <1>1, <1>2, <1>3, <2>1 DEF Elsewhere
<1>5. Proper(b)
  <2>1. ASSUME NEW t \in Tokens, NEW d \in Of(b), ~Idle(d)', call'[d].token = t
        PROVE  Holds(b, t)
    <3>1. CASE d = c BY <1>1, <2>1, <3>1, NoneIsNone DEF Quiet, Holds
    <3>2. CASE d # c BY <1>3, <2>1, <3>2 DEF Same, Idle, Holds, Of
    <3>3. QED BY <3>1, <3>2
  <2>2. \A t \in Tokens : Holds(b, t)' => Holds(b, t)
    BY <1>2, <2>1 DEF Holds
  <2>3. QED BY <1>2, <2>2 DEF Proper
<1>6. Safe(b) BY DEF SessionInv
<1>7. \A d \in Of(b) : d \in Calls /\ BrowserOf[d] = b BY OfKnown
<1>8. OneRefresh(b)' BY <1>2, <1>6 DEF Safe, OneRefresh
<1>9. ASSUME NEW d \in Of(b) PROVE Apart(d)'
  <2>1. \A e \in Of(b) : Signing(e)' => Signing(e) /\ call'[e].token = call[e].token
    <3>1. ASSUME NEW e \in Of(b), e # c
          PROVE  Signing(e)' => Signing(e) /\ call'[e].token = call[e].token
      BY <1>3, <1>7, <3>1, SameSigning
    <3>2. QED BY <3>1 DEF Quiet
  <2>2. Apart(d) BY <1>6 DEF Safe
  <2>3. QED BY <1>2, <1>7, <2>1, <2>2 DEF Apart
<1>10. ASSUME ~ended'[b] PROVE Kept(b)'
  <2>1. /\ ~ended[b] /\ CallKept(c)'
        /\ view'[b] = "login" <=> view[b] = "login"
    BY <1>1, <1>10 DEF Quiet
  <2>2. /\ \A d \in Of(b) : CallKept(d) /\ RefreshKept(d)
        /\ TokenKept(b)
    BY <1>6, <2>1 DEF Safe, Kept
  <2>3. ASSUME NEW d \in Of(b) PROVE CallKept(d)'
    <3>1. CASE d = c BY <2>1, <3>1
    <3>2. CASE d # c BY <1>2, <1>3, <1>7, <2>1, <2>2, <3>2, SameKept
    <3>3. QED BY <3>1, <3>2
  <2>4. ASSUME NEW d \in Of(b) PROVE RefreshKept(d)'
    BY <1>2, <1>7, <2>1, <2>2 DEF RefreshKept
  <2>5. TokenKept(b)' BY <1>2, <2>1, <2>2 DEF TokenKept
  <2>6. QED BY <2>3, <2>4, <2>5 DEF Kept
<1>11. Kept(b)' BY <1>10 DEF Kept
<1>12. Safe(b)' BY <1>8, <1>9, <1>11 DEF Safe
<1>13. QED BY <1>4, <1>5, <1>12, Combine

\* What the invariant says of a call while its session has not ended.
LEMMA KeptCall ==
    ASSUME SessionInv, NEW c \in Calls, ~ended[BrowserOf[c]]
    PROVE  CallKept(c) /\ RefreshKept(c) /\ TokenKept(BrowserOf[c])
  BY CallsHaveBrowsers DEF SessionInv, Safe, Kept

\* An answer that brings no token.
LEMMA AnswerSafe ==
    ASSUME TypeInv, SessionInv, NEW c \in Calls, ~Idle(c), call[c].stage # "waiting",
           NEW status \in {0, 200, 401, 409, 500}, Respond(c, status, None),
           UNCHANGED <<valid, jar, refresh, page, ended>>,
           call[c].kind \in SignIns => status # 200,
           ~ended[BrowserOf[c]] =>
              (call[c].kind \in Authenticated /\ call[c].retried => status # 401)
    PROVE  SessionInv'
<1>1. /\ GoesOn(c) /\ call'[c].stage = "answered" /\ call'[c].status = status
      /\ call'[c].token = None /\ call'[c].retried = call[c].retried
  BY RespondGoesOn
<1>2. /\ OnlyCall(c) /\ call'[c].kind = call[c].kind BY <1>1 DEF GoesOn
<1>3. ~Signing(c)' BY <1>1 DEF Signing
<1>4. ASSUME ~ended[BrowserOf[c]] PROVE CallKept(c)'
  <2>1. CallKept(c) BY <1>4, KeptCall
  <2>2. QED BY <1>1, <1>2, <1>4, <2>1 DEF CallKept, page
<1>5. Quiet(c) BY <1>1, <1>2, <1>3, <1>4 DEF Quiet, page
<1>6. QED BY <1>5, QuietSafe

LEMMA ServeReadSafe ==
    ASSUME TypeInv, SessionInv, NEW c \in Calls, ServeRead(c)
    PROVE  SessionInv'
<1>1. /\ ~Idle(c) /\ call[c].kind \in {"me", "list"} /\ call[c].stage = "sent"
      /\ UNCHANGED <<valid, jar, refresh, page, ended>>
  BY DEF ServeRead, Serving, server
<1>2. CASE call[c].access
  <2>1. Respond(c, 200, None) BY <1>2 DEF ServeRead
  <2>2. QED BY <1>1, <2>1, AnswerSafe DEF SignIns
<1>3. CASE ~call[c].access
  <2>1. Respond(c, 401, None) BY <1>3 DEF ServeRead
  <2>2. ~ended[BrowserOf[c]] => ~(call[c].kind \in Authenticated /\ call[c].retried)
    BY <1>1, <1>3, KeptCall DEF CallKept
  <2>3. QED BY <1>1, <2>1, <2>2, AnswerSafe DEF SignIns
<1>4. QED BY <1>2, <1>3

LEMMA LoseCallSafe ==
    ASSUME TypeInv, SessionInv, NEW c \in Calls, LoseCall(c)
    PROVE  SessionInv'
<1>1. /\ ~Idle(c) /\ call[c].stage # "waiting" /\ Respond(c, 0, None)
      /\ UNCHANGED <<valid, jar, refresh, page, ended>>
  BY DEF LoseCall, Respond, server
<1>2. QED BY <1>1, AnswerSafe

LEMMA ServeRegisterExistsSafe ==
    ASSUME TypeInv, SessionInv, NEW c \in Calls, ServeRegisterExists(c)
    PROVE  SessionInv'
<1>1. /\ ~Idle(c) /\ call[c].kind = "register" /\ call[c].stage = "sent"
      /\ UNCHANGED <<valid, jar, refresh, page, ended>>
  BY DEF ServeRegisterExists, Serving, server
<1>2. CASE Registered(call[c].arg)
  <2>1. Respond(c, 409, None) BY <1>2 DEF ServeRegisterExists
  <2>2. QED BY <1>1, <2>1, AnswerSafe
<1>3. CASE ~Registered(call[c].arg)
  <2>1. call' = [call EXCEPT ![c].stage = "inserting"]
    BY <1>3 DEF ServeRegisterExists
  <2>2. call[c] \in CallStates /\ DOMAIN call = Calls
    BY <1>1, CallKnown DEF TypeInv, TablesOK
  <2>3. OnlyCall(c) BY <2>1, <2>2, ChangedCallOnly
  <2>4. /\ call'[c].kind = "register" /\ call'[c].stage = "inserting"
        /\ call'[c].token = call[c].token
    BY <1>1, <2>1, <2>2 DEF CallStates
  <2>5. Signing(c)' => Signing(c)
    BY <1>1, <2>4 DEF Signing, SignIns
  <2>6. CallKept(c)' BY <2>4 DEF CallKept, SignIns, Authenticated
  <2>7. Quiet(c) BY <1>1, <2>3, <2>4, <2>5, <2>6 DEF Quiet, page
  <2>8. QED BY <2>7, QuietSafe
<1>4. QED BY <1>2, <1>3

(***************************************************************************)
(* Steps that issue a token.                                               *)
(***************************************************************************)
LEMMA SignInSafe ==
    ASSUME TypeInv, SessionInv, NEW c \in Calls, ~Idle(c), call[c].kind \in SignIns,
           call[c].stage # "waiting", FreshTokens # {}, Respond(c, 200, NewToken),
           Issue({}), UNCHANGED <<jar, refresh, page, ended>>
    PROVE  SessionInv'
<1>1. PICK b \in Browsers : b = BrowserOf[c] /\ c \in Of(b) BY CallsHaveBrowsers
<1>2. PICK t \in FreshTokens : t = NewToken /\ t \in Tokens BY NewTokenFresh
<1>3. valid' = valid \cup {t} BY <1>2 DEF Issue
<1>4. /\ GoesOn(c) /\ call'[c].stage = "answered" /\ call'[c].status = 200
      /\ call'[c].token = t
  BY <1>2, RespondGoesOn
<1>5. /\ OnlyCall(c) /\ call'[c].kind = call[c].kind BY <1>4 DEF GoesOn
<1>6. \A d \in Calls \ {c} : Same(d) BY <1>5 DEF OnlyCall
<1>7. \A d \in Of(b) : d \in Calls /\ BrowserOf[d] = b BY OfKnown
<1>8. Safe(b) BY DEF SessionInv
<1>9. Elsewhere(b) BY <1>1, <1>6 DEF Elsewhere, page
<1>10. Proper(b)
  <2>1. ASSUME NEW s \in Tokens, NEW d \in Of(b), ~Idle(d)', call'[d].token = s
        PROVE  Holds(b, s) \/ s \in FreshTokens
    <3>1. CASE d = c BY <1>4, <2>1, <3>1
    <3>2. CASE d # c BY <1>6, <1>7, <2>1, <3>2 DEF Same, Idle, Holds
    <3>3. QED BY <3>1, <3>2
  <2>2. \A s \in Tokens : Holds(b, s)' => Holds(b, s) \/ s \in FreshTokens
    BY <2>1 DEF Holds
  <2>3. QED BY <1>3, <2>2 DEF Proper
<1>11. OneRefresh(b)' BY <1>8 DEF Safe, OneRefresh
<1>12. ASSUME NEW d \in Of(b) PROVE Apart(d)'
  <2>1. ~Holds(b, t) BY <1>2, FreshNotHeld
  <2>2. /\ jar[b].refresh # t
        /\ \A e \in Of(b) : refresh[e] # None => refresh[e].token # t
        /\ \A e \in Of(b) : Signing(e) => call[e].token # t
    BY <2>1 DEF Holds, Signing
  <2>3. \A e \in Of(b) : e # c =>
            /\ Signing(e)' <=> Signing(e)
            /\ Signing(e) => call'[e].token = call[e].token
    BY <1>6, <1>7, SameSigning
  <2>4. CASE d = c BY <1>4, <1>7, <2>2, <2>3, <2>4 DEF Apart
  <2>5. CASE d # c
    <3>1. Apart(d) BY <1>8 DEF Safe
    <3>2. QED BY <1>4, <1>7, <2>2, <2>3, <2>5, <3>1 DEF Apart
  <2>6. QED BY <2>4, <2>5
<1>13. ASSUME ~ended[b] PROVE Kept(b)'
  <2>1. /\ \A d \in Of(b) : CallKept(d) /\ RefreshKept(d)
        /\ TokenKept(b)
    BY <1>8, <1>13 DEF Safe, Kept
  <2>2. ASSUME NEW d \in Of(b) PROVE CallKept(d)'
    <3>1. CASE d = c
      BY <1>3, <1>4, <1>5, <3>1 DEF CallKept, SignIns, Authenticated
    <3>2. CASE d # c
      BY <1>3, <1>6, <1>7, <2>1, <3>2, SameKept DEF page
    <3>3. QED BY <3>1, <3>2
  <2>3. \A d \in Of(b) : RefreshKept(d)'
    BY <1>3, <2>1 DEF RefreshKept, page
  <2>4. TokenKept(b)' BY <1>3, <2>1 DEF TokenKept, page
  <2>5. QED BY <2>2, <2>3, <2>4 DEF Kept
<1>14. Kept(b)' BY <1>13 DEF Kept
<1>15. Safe(b)' BY <1>11, <1>12, <1>14 DEF Safe
<1>16. QED BY <1>9, <1>10, <1>15, Combine

LEMMA ServeLoginSafe ==
    ASSUME TypeInv, SessionInv, NEW c \in Calls, ServeLogin(c)
    PROVE  SessionInv'
<1>1. /\ ~Idle(c) /\ call[c].kind = "login" /\ call[c].stage # "waiting"
      /\ UNCHANGED <<jar, refresh, page, ended>>
  BY DEF ServeLogin, Serving
<1>2. CASE Registered(call[c].arg)
  <2>1. FreshTokens # {} /\ Respond(c, 200, NewToken) /\ Issue({})
    BY <1>2 DEF ServeLogin
  <2>2. QED BY <1>1, <2>1, SignInSafe DEF SignIns
<1>3. CASE ~Registered(call[c].arg)
  <2>1. Respond(c, 401, None) /\ UNCHANGED valid BY <1>3 DEF ServeLogin
  <2>2. QED BY <1>1, <2>1, AnswerSafe DEF Authenticated
<1>4. QED BY <1>2, <1>3

LEMMA ServeRegisterInsertSafe ==
    ASSUME TypeInv, SessionInv, NEW c \in Calls, ServeRegisterInsert(c)
    PROVE  SessionInv'
<1>1. /\ ~Idle(c) /\ call[c].kind = "register" /\ call[c].stage # "waiting"
      /\ UNCHANGED <<jar, refresh, page, ended>>
  BY DEF ServeRegisterInsert, Serving
<1>2. CASE EmailTaken(call[c].arg)
  <2>1. Respond(c, 500, None) /\ UNCHANGED valid
    BY <1>2 DEF ServeRegisterInsert, server
  <2>2. QED BY <1>1, <2>1, AnswerSafe
<1>3. CASE ~EmailTaken(call[c].arg)
  <2>1. FreshTokens # {} /\ Respond(c, 200, NewToken) /\ Issue({})
    BY <1>3 DEF ServeRegisterInsert
  <2>2. QED BY <1>1, <2>1, SignInSafe DEF SignIns
<1>4. QED BY <1>2, <1>3

(***************************************************************************)
(* Steps that change no token, no call and no page, and steps after which  *)
(* a session may end.                                                      *)
(***************************************************************************)
LEMMA UnchangedSafe ==
    ASSUME SessionInv, UNCHANGED <<valid, call, refresh, view, ended>>,
           \A b \in Browsers : jar'[b].refresh = jar[b].refresh
    PROVE  SessionInv'
<1>1. \A b \in Browsers, t \in Tokens : Holds(b, t)' <=> Holds(b, t)
  BY DEF Holds, Idle
<1>2. HeldOnce' BY <1>1 DEF SessionInv, HeldOnce
<1>3. ASSUME NEW b \in Browsers PROVE Safe(b)'
  <2>1. Safe(b) BY DEF SessionInv
  <2>2. OneRefresh(b)' BY <2>1 DEF Safe, OneRefresh
  <2>3. \A c \in Of(b) : Apart(c)'
    BY <2>1, OfKnown DEF Safe, Apart, Signing, Idle
  <2>4. Kept(b)'
    BY <2>1 DEF Safe, Kept, CallKept, RefreshKept, TokenKept, Idle
  <2>5. QED BY <2>2, <2>3, <2>4 DEF Safe
<1>4. QED BY <1>2, <1>3 DEF SessionInv

\* Browser b keeps some of its tokens, and drops others.
Shrinks(b) ==
    /\ jar'[b].refresh \in {jar[b].refresh, None}
    /\ \A d \in Of(b) :
          /\ refresh'[d] # None => /\ refresh[d] # None
                                   /\ refresh'[d].token \in {refresh[d].token, None}
          /\ ~Idle(d)' => ~Idle(d) /\ call'[d].token \in {call[d].token, None}
          /\ Signing(d)' => Signing(d) /\ call'[d].token = call[d].token

LEMMA EndedSafe ==
    ASSUME TypeInv, SessionInv, NEW b \in Browsers, ended'[b], Elsewhere(b), Shrinks(b),
           \A t \in valid : t \in valid' \/ (t \in Tokens /\ Holds(b, t))
    PROVE  SessionInv'
<1>1. Safe(b) BY DEF SessionInv
<1>2. \A t \in Tokens : Holds(b, t)' => Holds(b, t)
  BY NoneIsNone DEF Shrinks, Holds
<1>3. Proper(b) BY <1>2 DEF Proper
<1>4. OneRefresh(b)' BY <1>1 DEF Safe, OneRefresh, Shrinks
<1>5. ASSUME NEW c \in Of(b) PROVE Apart(c)'
  <2>1. Apart(c) /\ BrowserOf[c] = b BY <1>1, OfKnown DEF Safe
  <2>2. Signing(c)' => call'[c].token # None BY DEF Signing
  <2>3. QED BY <2>1, <2>2 DEF Apart, Shrinks
<1>6. Kept(b)' BY DEF Kept
<1>7. Safe(b)' BY <1>4, <1>5, <1>6 DEF Safe
<1>8. QED BY <1>3, <1>7, Combine

LEMMA ServeLogoutSafe ==
    ASSUME TypeInv, SessionInv, NEW c \in Calls, ServeLogout(c)
    PROVE  SessionInv'
<1>1. PICK b \in Browsers : b = BrowserOf[c] /\ c \in Of(b) BY CallsHaveBrowsers
<1>2. /\ ~Idle(c) /\ call[c].kind = "logout" /\ call[c].stage # "waiting"
      /\ UNCHANGED <<jar, refresh, page, ended>>
  BY DEF ServeLogout, Serving
<1>3. ended[b] BY <1>1, <1>2, KeptCall DEF CallKept
<1>4. PICK status \in {200, 401} : Respond(c, status, None) BY DEF ServeLogout
<1>5. /\ GoesOn(c) /\ call'[c].token = None BY <1>2, <1>4, RespondGoesOn
<1>6. \A d \in Calls \ {c} : Same(d) BY <1>5 DEF GoesOn, OnlyCall
<1>7. \A t \in valid : t \in valid' \/ (t \in Tokens /\ Holds(b, t))
  <2>1. \A t \in valid : t \in valid' \/ t = call[c].token BY DEF ServeLogout
  <2>2. valid \subseteq Tokens BY DEF TypeInv, ServerOK
  <2>3. QED BY <1>1, <1>2, <2>1, <2>2 DEF Holds
<1>8. Elsewhere(b) BY <1>1, <1>2, <1>6 DEF Elsewhere, page
<1>9. Shrinks(b)
  <2>1. ASSUME NEW d \in Of(b)
        PROVE  /\ ~Idle(d)' => ~Idle(d) /\ call'[d].token \in {call[d].token, None}
               /\ Signing(d)' => Signing(d) /\ call'[d].token = call[d].token
    <3>1. CASE d = c BY <1>2, <1>5, <3>1 DEF Signing, Idle
    <3>2. CASE d # c
      <4>1. Same(d) /\ d \in Calls BY <1>6, <3>2, OfKnown
      <4>2. QED BY <4>1, SameSigning DEF Same, Idle
    <3>3. QED BY <3>1, <3>2
  <2>2. QED BY <1>2, <2>1 DEF Shrinks
<1>10. ended'[b] BY <1>2, <1>3
<1>11. QED BY <1>7, <1>8, <1>9, <1>10, EndedSafe

LEMMA LoseRefreshSafe ==
    ASSUME TypeInv, SessionInv, NEW c \in Calls, LoseRefresh(c)
    PROVE  SessionInv'
<1>1. PICK b \in Browsers : b = BrowserOf[c] /\ c \in Of(b) BY CallsHaveBrowsers
<1>2. /\ refresh[c] # None /\ UNCHANGED <<valid, jar, call, view>>
      /\ \A d \in Calls \ {c} : refresh'[d] = refresh[d]
      /\ refresh'[c] = [stage |-> "answered", token |-> None, status |-> 0]
  BY DEF LoseRefresh, TypeInv, TablesOK, server, page
<1>3. ended'[b] /\ \A a \in Browsers \ {b} : ended'[a] = ended[a]
  BY <1>1 DEF LoseRefresh, TypeInv, TablesOK
<1>4. \A d \in Calls : Same(d) BY <1>2, CallKnown DEF Same, Idle
<1>5. Elsewhere(b) BY <1>1, <1>2, <1>3, <1>4 DEF Elsewhere
<1>6. refresh'[c].token = None BY <1>2
<1>7. Shrinks(b) BY <1>2, <1>6, OfKnown DEF Shrinks, Signing, Idle
<1>8. QED BY <1>2, <1>3, <1>5, <1>7, EndedSafe

LEMMA ExpireSafe ==
    ASSUME TypeInv, SessionInv, NEW b \in Browsers, Expire(b)
    PROVE  SessionInv'
<1>1. UNCHANGED <<valid, call, refresh, view>>
  BY DEF Expire, ExpireAccess, ExpireRefresh, server, page
<1>2. CASE ExpireAccess(b)
  <2>1. UNCHANGED ended BY <1>2 DEF ExpireAccess
  <2>2. \A a \in Browsers : jar'[a].refresh = jar[a].refresh
    BY <1>2 DEF ExpireAccess, TypeInv, TablesOK
  <2>3. QED BY <1>1, <2>1, <2>2, UnchangedSafe
<1>3. CASE ExpireRefresh(b)
  <2>1. ended'[b] /\ \A a \in Browsers \ {b} : ended'[a] = ended[a]
    BY <1>3 DEF ExpireRefresh, TypeInv, TablesOK
  <2>2. jar'[b].refresh = None /\ \A a \in Browsers \ {b} : jar'[a] = jar[a]
    BY <1>3 DEF ExpireRefresh, TypeInv, TablesOK
  <2>3. \A d \in Calls : Same(d) BY <1>1, CallKnown DEF Same, Idle
  <2>4. Elsewhere(b) BY <1>1, <2>1, <2>2, <2>3 DEF Elsewhere
  <2>5. Shrinks(b) BY <1>1, <2>2 DEF Shrinks, Signing, Idle
  <2>6. QED BY <1>1, <2>1, <2>4, <2>5, EndedSafe
<1>4. QED BY <1>2, <1>3 DEF Expire

(***************************************************************************)
(* The refresh of a token.                                                 *)
(***************************************************************************)
LEMMA RefreshCheckSafe ==
    ASSUME TypeInv, SessionInv, NEW c \in Calls, RefreshCheck(c)
    PROVE  SessionInv'
<1>1. PICK b \in Browsers : b = BrowserOf[c] /\ c \in Of(b) BY CallsHaveBrowsers
<1>2. /\ refresh[c] # None /\ refresh[c] \in RefreshStates
      /\ UNCHANGED <<valid, jar, call, page, ended>>
      /\ \A d \in Calls \ {c} : refresh'[d] = refresh[d]
  BY RefreshKnown DEF RefreshCheck, TypeInv, TablesOK, server
<1>3. \A d \in Calls : Same(d) BY <1>2, CallKnown DEF Same, Idle
<1>4. Elsewhere(b) BY <1>1, <1>2, <1>3 DEF Elsewhere, page
<1>5. /\ refresh[c].token \in valid =>
            /\ refresh'[c].token = refresh[c].token
            /\ refresh'[c].stage = "checked"
      /\ refresh'[c].token \in {refresh[c].token, None}
  BY <1>2 DEF RefreshCheck, RefreshStates, TypeInv, TablesOK
<1>6. CASE ended[b]
  <2>1. Shrinks(b) BY <1>2, <1>5, OfKnown DEF Shrinks, Signing, Idle
  <2>2. QED BY <1>2, <1>4, <1>6, <2>1, EndedSafe
<1>7. CASE ~ended[b]
  <2>1. Safe(b) BY DEF SessionInv
  <2>2. /\ \A d \in Of(b) : CallKept(d) /\ RefreshKept(d)
        /\ TokenKept(b)
    BY <1>7, <2>1 DEF Safe, Kept
  <2>3. refresh[c].token \in valid BY <1>1, <1>2, <2>2 DEF RefreshKept
  <2>4. refresh'[c].token = refresh[c].token /\ refresh'[c].stage = "checked"
    BY <1>5, <2>3
  <2>5. \A d \in Of(b) :
            /\ refresh'[d] # None => /\ refresh[d] # None
                                     /\ refresh'[d].token = refresh[d].token
            /\ d # c => refresh'[d] = refresh[d]
    BY <1>2, <2>4, OfKnown
  <2>6. Proper(b) BY <1>2, <2>5 DEF Proper, Holds, Idle
  <2>7. OneRefresh(b)' BY <2>1, <2>5 DEF Safe, OneRefresh
  <2>8. ASSUME NEW d \in Of(b) PROVE Apart(d)'
    <3>1. Apart(d) /\ BrowserOf[d] = b BY <2>1, OfKnown DEF Safe
    <3>2. QED BY <1>2, <2>5, <3>1 DEF Apart, Signing, Idle
  <2>9. ASSUME NEW d \in Of(b) PROVE CallKept(d)'
    BY <1>2, <2>2 DEF CallKept, Idle, page
  <2>10. ASSUME NEW d \in Of(b) PROVE RefreshKept(d)'
    <3>1. CASE d = c
      BY <1>2, <2>2, <2>3, <2>4, <3>1 DEF RefreshKept, page
    <3>2. CASE d # c
      BY <1>2, <2>2, <2>5, <3>2 DEF RefreshKept, page
    <3>3. QED BY <3>1, <3>2
  <2>11. TokenKept(b)'
    <3>1. CASE view[b] = "login" \/ jar[b].refresh \in valid
      BY <1>2, <3>1 DEF TokenKept, page
    <3>2. ASSUME NEW d \in Of(b), refresh[d] # None, refresh[d].stage = "answered"
          PROVE  TokenKept(b)'
      <4>1. d # c BY <3>2 DEF RefreshCheck
      <4>2. QED BY <2>5, <3>2, <4>1 DEF TokenKept
    <3>3. QED BY <2>2, <3>1, <3>2 DEF TokenKept
  <2>12. Safe(b)' BY <2>7, <2>8, <2>9, <2>10, <2>11 DEF Safe, Kept
  <2>13. QED BY <1>4, <2>6, <2>12, Combine
<1>8. QED BY <1>6, <1>7

LEMMA RefreshRotateSafe ==
    ASSUME TypeInv, SessionInv, NEW c \in Calls, RefreshRotate(c)
    PROVE  SessionInv'
<1>1. PICK b \in Browsers : b = BrowserOf[c] /\ c \in Of(b) BY CallsHaveBrowsers
<1>2. PICK t \in FreshTokens : t = NewToken /\ t \in Tokens
  BY NewTokenFresh DEF RefreshRotate
<1>3. /\ refresh[c] # None
      /\ valid' = (valid \ {refresh[c].token}) \cup {t}
      /\ UNCHANGED <<jar, call, page, ended>>
      /\ \A d \in Calls \ {c} : refresh'[d] = refresh[d]
      /\ refresh'[c] = [stage |-> "answered", token |-> t, status |-> 200]
  BY <1>2 DEF RefreshRotate, Issue, TypeInv, TablesOK
<1>4. /\ refresh'[c].stage = "answered" /\ refresh'[c].token = t
      /\ refresh'[c].status = 200 /\ refresh'[c] # None
  <2>1. refresh'[c] \in RefreshStates BY <1>2, <1>3 DEF RefreshStates
  <2>2. QED BY <1>3, <2>1, NoneIsNone
<1>5. \A d \in Calls : Same(d) BY <1>3, CallKnown DEF Same, Idle
<1>6. Elsewhere(b) BY <1>1, <1>3, <1>5 DEF Elsewhere, page
<1>7. \A d \in Of(b) : d \in Calls /\ BrowserOf[d] = b BY OfKnown
<1>8. Safe(b) BY DEF SessionInv
<1>9. \A d \in Of(b) : d # c => refresh[d] = None /\ refresh'[d] = None
  BY <1>1, <1>3, <1>7, <1>8 DEF Safe, OneRefresh
<1>10. Proper(b)
  <2>1. \A s \in valid : s \in valid' \/ (s \in Tokens /\ Holds(b, s))
    BY <1>1, <1>3 DEF Holds, TypeInv, ServerOK
  <2>2. \A s \in Tokens : Holds(b, s)' => Holds(b, s) \/ s \in FreshTokens
    BY <1>3, <1>4, <1>9 DEF Holds, Idle
  <2>3. QED BY <2>1, <2>2 DEF Proper
<1>11. OneRefresh(b)' BY <1>9 DEF OneRefresh
<1>12. ASSUME NEW d \in Of(b) PROVE Apart(d)'
  <2>1. ~Holds(b, t) BY <1>2, FreshNotHeld
  <2>2. ~Idle(d) => call[d].token # t BY <2>1 DEF Holds
  <2>3. Apart(d) /\ BrowserOf[d] = b BY <1>7, <1>8 DEF Safe
  <2>4. \A e \in Of(b) : refresh'[e] # None => refresh'[e].token = t
    BY <1>4, <1>9
  <2>5. QED BY <1>3, <2>2, <2>3, <2>4 DEF Apart, Signing, Idle
<1>13. ASSUME ~ended[b] PROVE Kept(b)'
  <2>1. \A d \in Of(b) : CallKept(d) /\ RefreshKept(d) /\ Apart(d)
    BY <1>8, <1>13 DEF Safe, Kept
  <2>2. ASSUME NEW d \in Of(b) PROVE CallKept(d)'
    <3>1. Signing(d) => call[d].token # refresh[c].token
      BY <1>1, <1>3, <1>7, <2>1 DEF Apart
    <3>2. ~Idle(d) /\ call[d].kind \in SignIns /\ call[d].token \in valid => Signing(d)
      <4>1. None \notin valid BY NoneIsNone DEF TypeInv, ServerOK
      <4>2. QED BY <4>1 DEF Signing
    <3>3. QED BY <1>3, <2>1, <3>1, <3>2 DEF CallKept, Idle, page
  <2>3. ASSUME NEW d \in Of(b) PROVE RefreshKept(d)'
    <3>1. CASE d = c
      BY <1>3, <1>4, <2>1, <3>1 DEF RefreshKept, page
    <3>2. CASE d # c BY <1>9, <3>2 DEF RefreshKept
    <3>3. QED BY <3>1, <3>2
  <2>4. TokenKept(b)' BY <1>1, <1>4 DEF TokenKept
  <2>5. QED BY <2>2, <2>3, <2>4 DEF Kept
<1>14. Kept(b)' BY <1>3, <1>13 DEF Kept
<1>15. Safe(b)' BY <1>11, <1>12, <1>14 DEF Safe
<1>16. QED BY <1>6, <1>10, <1>15, Combine

LEMMA RefreshAccessTokenSafe ==
    ASSUME TypeInv, SessionInv, NEW c \in Calls, RefreshAccessToken(c)
    PROVE  SessionInv'
<1>1. PICK b \in Browsers : b = BrowserOf[c] /\ c \in Of(b) BY CallsHaveBrowsers
<1>2. /\ ~Idle(c) /\ OnlyCall(c) /\ call'[c] # None
      /\ call'[c].kind = call[c].kind /\ call'[c].stage = "waiting"
      /\ call'[c].token = call[c].token
  <2>1. /\ ~Idle(c) /\ OnlyCall(c) /\ call'[c] \in CallStates
        /\ call'[c] = WaitingCall(call[c], Refresher(c))
    BY StartsWaiting
  <2>2. call'[c] # None BY <2>1, NoneIsNone
  <2>3. QED BY <2>1, <2>2 DEF WaitingCall
<1>3. /\ UNCHANGED <<valid, jar, page, ended>>
      /\ call[c].kind \in Authenticated /\ call[c].kind \notin SignIns
  BY DEF RefreshAccessToken, MayRetry, Authenticated, SignIns, server
<1>4. ~ended[b] => CallKept(c)'
  <2>1. ~ended[b] => CallKept(c) BY <1>1, KeptCall
  <2>2. QED BY <1>1, <1>2, <1>3, <2>1 DEF CallKept, Idle, page
<1>5. ~Signing(c) /\ ~Signing(c)' BY <1>2, <1>3 DEF Signing
<1>6. CASE refresh' = refresh
  <2>1. Quiet(c) BY <1>1, <1>2, <1>3, <1>4, <1>5, <1>6 DEF Quiet, page
  <2>2. QED BY <2>1, QuietSafe
<1>7. CASE refresh' # refresh
  <2>1. /\ \A d \in Of(b) : refresh[d] = None
        /\ refresh'[c] = NewRefresh(c)
        /\ \A d \in Calls \ {c} : refresh'[d] = refresh[d]
    BY <1>1, <1>7, StartsWaiting
  <2>2. refresh'[c].token = jar[b].refresh /\ refresh'[c].stage = "sent"
    BY <1>1, <2>1 DEF NewRefresh
  <2>3. \A d \in Of(b) : /\ d \in Calls /\ BrowserOf[d] = b
                         /\ d # c => refresh'[d] = None /\ Same(d)
    BY <1>2, <2>1, OfKnown DEF OnlyCall
  <2>4. Elsewhere(b) BY <1>1, <1>2, <1>3, <2>1 DEF Elsewhere, OnlyCall, page
  <2>5. Proper(b)
    <3>1. ASSUME NEW t \in Tokens, NEW d \in Of(b), ~Idle(d)', call'[d].token = t
          PROVE  Holds(b, t)
      <4>1. CASE d = c BY <1>2, <3>1, <4>1 DEF Holds
      <4>2. CASE d # c BY <2>3, <3>1, <4>2 DEF Same, Idle, Holds
      <4>3. QED BY <4>1, <4>2
    <3>2. \A t \in Tokens : Holds(b, t)' => Holds(b, t)
      BY <1>3, <2>2, <2>3, <3>1 DEF Holds
    <3>3. QED BY <1>3, <3>2 DEF Proper
  <2>6. Safe(b) BY DEF SessionInv
  <2>7. OneRefresh(b)' BY <2>3 DEF OneRefresh
  <2>8. ASSUME NEW d \in Of(b) PROVE Apart(d)'
    <3>1. Apart(d) BY <2>6 DEF Safe
    <3>2. \A e \in Of(b) : /\ Signing(e)' <=> Signing(e)
                           /\ Signing(e) => call'[e].token = call[e].token
      BY <1>5, <2>3, SameSigning
    <3>3. QED BY <1>3, <2>2, <2>3, <3>1, <3>2 DEF Apart
  <2>9. ASSUME ~ended[b] PROVE Kept(b)'
    <3>1. /\ \A d \in Of(b) : CallKept(d) /\ RefreshKept(d)
          /\ TokenKept(b)
      BY <2>6, <2>9 DEF Safe, Kept
    <3>2. ASSUME NEW d \in Of(b) PROVE CallKept(d)'
      <4>1. CASE d = c BY <1>4, <2>9, <4>1
      <4>2. CASE d # c BY <1>3, <2>3, <3>1, <4>2, SameKept DEF page
      <4>3. QED BY <4>1, <4>2
    <3>3. view[b] # "login"
      BY <1>1, <1>2, <1>3, <3>1 DEF CallKept, SignIns
    <3>4. jar[b].refresh \in valid BY <2>1, <3>1, <3>3 DEF TokenKept
    <3>5. ASSUME NEW d \in Of(b) PROVE RefreshKept(d)'
      <4>1. CASE d = c
        BY <1>3, <2>2, <2>3, <3>3, <3>4, <4>1 DEF RefreshKept, page
      <4>2. CASE d # c BY <2>3, <4>2 DEF RefreshKept
      <4>3. QED BY <4>1, <4>2
    <3>6. TokenKept(b)' BY <1>3, <3>4 DEF TokenKept
    <3>7. QED BY <3>2, <3>5, <3>6 DEF Kept
  <2>10. Kept(b)' BY <1>3, <2>9 DEF Kept
  <2>11. Safe(b)' BY <2>7, <2>8, <2>10 DEF Safe
  <2>12. QED BY <2>4, <2>5, <2>11, Combine
<1>8. QED BY <1>6, <1>7

\* What becomes of a call when a refresh has settled.
LEMMA SettledCall ==
    ASSUME TypeInv, NEW d \in Calls, RefreshSettles(d), NEW c \in WaitsFor(d)
    PROVE  /\ ~Idle(c) /\ ~Idle(c)' /\ call'[c].kind = call[c].kind
           /\ \/ /\ refresh[d].status = 200 /\ call'[c].stage = "sent"
                 /\ call'[c].access
                 /\ call'[c].token = IF call[c].kind = "logout"
                                     THEN refresh[d].token ELSE None
              \/ /\ refresh[d].status # 200
                 /\ call'[c].token = call[c].token
<1>1. /\ ~Idle(c) /\ call'[c] \in CallStates
      /\ call'[c] = IF refresh[d].status = 200
                    THEN ResentCall(call[c], refresh[d].token)
                    ELSE FailedCall(call[c], refresh[d].status)
  BY Settled
<1>2. ~Idle(c)' BY <1>1, NoneIsNone DEF Idle
<1>3. CASE refresh[d].status = 200
  BY <1>1, <1>2, <1>3 DEF ResentCall
<1>4. CASE refresh[d].status # 200
  BY <1>1, <1>2, <1>4 DEF FailedCall
<1>5. QED BY <1>3, <1>4

LEMMA RefreshSettlesSafe ==
    ASSUME TypeInv, SessionInv, NEW d \in Calls, RefreshSettles(d)
    PROVE  SessionInv'
<1>1. PICK b \in Browsers : b = BrowserOf[d] /\ d \in Of(b) BY CallsHaveBrowsers
<1>2. /\ refresh[d] # None /\ refresh[d].stage = "answered"
      /\ refresh[d].token \in Tokens \cup {None}
      /\ \A e \in Calls \ {d} : refresh'[e] = refresh[e]
      /\ refresh'[d] = None
      /\ \A c \in WaitsFor(d) : c \in Of(b)
      /\ \A c \in Calls \ WaitsFor(d) : Same(c)
  BY <1>1, Settled
<1>3. UNCHANGED <<valid, page, ended>> BY DEF RefreshSettles, server
<1>4. /\ \A a \in Browsers \ {b} : jar'[a] = jar[a]
      /\ jar'[b].refresh = IF refresh[d].status = 200
                           THEN refresh[d].token ELSE jar[b].refresh
  <2>1. b \in DOMAIN jar BY DEF TypeInv, TablesOK
  <2>2. CASE refresh[d].status = 200
    <3>1. jar' = [jar EXCEPT ![b] = [access |-> TRUE, refresh |-> refresh[d].token]]
      BY <1>1, <2>2 DEF RefreshSettles
    <3>2. DOMAIN jar = Browsers BY DEF TypeInv, TablesOK
    <3>3. jar'[b].refresh = refresh[d].token BY <2>1, <3>1
    <3>4. \A a \in Browsers \ {b} : jar'[a] = jar[a] BY <3>1, <3>2
    <3>5. QED BY <2>2, <3>3, <3>4
  <2>3. CASE refresh[d].status # 200
    <3>1. jar' = jar BY <2>3 DEF RefreshSettles
    <3>2. QED BY <2>3, <3>1
  <2>4. QED BY <2>2, <2>3
<1>5. Safe(b) BY DEF SessionInv
<1>6. \A e \in Of(b) : /\ e \in Calls /\ BrowserOf[e] = b
                       /\ refresh'[e] = None
  BY <1>1, <1>2, <1>5, OfKnown DEF Safe, OneRefresh
<1>7. Elsewhere(b) BY <1>1, <1>2, <1>3, <1>4 DEF Elsewhere, page
<1>8. ASSUME NEW c \in Of(b)
      PROVE  Signing(c)' => Signing(c) /\ call'[c].token = call[c].token
  <2>1. CASE c \in WaitsFor(d)
    BY <2>1, SettledCall DEF Signing, SignIns
  <2>2. CASE c \notin WaitsFor(d)
    BY <1>2, <1>6, <2>2, SameSigning
  <2>3. QED BY <2>1, <2>2
<1>9. Proper(b)
  <2>1. ASSUME NEW t \in Tokens, NEW c \in Of(b), ~Idle(c)', call'[c].token = t
        PROVE  Holds(b, t)
    <3>1. CASE c \in WaitsFor(d)
      BY <1>1, <1>2, <2>1, <3>1, SettledCall, NoneIsNone DEF Holds
    <3>2. CASE c \notin WaitsFor(d)
      BY <1>2, <1>6, <2>1, <3>2 DEF Same, Idle, Holds
    <3>3. QED BY <3>1, <3>2
  <2>2. \A t \in Tokens : Holds(b, t)' => Holds(b, t)
    BY <1>1, <1>2, <1>4, <1>6, <2>1 DEF Holds
  <2>3. QED BY <1>3, <2>2 DEF Proper
<1>10. OneRefresh(b)' BY <1>6 DEF OneRefresh
<1>11. ASSUME NEW c \in Of(b) PROVE Apart(c)'
  <2>1. Apart(c) BY <1>5 DEF Safe
  <2>2. QED BY <1>1, <1>2, <1>4, <1>6, <1>8, <2>1 DEF Apart
<1>12. ASSUME ~ended[b] PROVE Kept(b)'
  <2>1. /\ \A c \in Of(b) : CallKept(c) /\ RefreshKept(c)
        /\ TokenKept(b)
    BY <1>5, <1>12 DEF Safe, Kept
  <2>2. /\ refresh[d].status = 200 /\ refresh[d].token \in valid
        /\ view[b] # "login"
    BY <1>1, <1>2, <2>1 DEF RefreshKept
  <2>3. ASSUME NEW c \in Of(b) PROVE CallKept(c)'
    <3>1. CASE c \in WaitsFor(d)
      <4>1. CallKept(c) BY <2>1
      <4>2. QED
        BY <1>3, <1>6, <2>2, <3>1, <4>1, SettledCall DEF CallKept, page
    <3>2. CASE c \notin WaitsFor(d)
      BY <1>2, <1>3, <1>6, <2>1, <3>2, SameKept DEF page
    <3>3. QED BY <3>1, <3>2
  <2>4. \A c \in Of(b) : RefreshKept(c)' BY <1>6 DEF RefreshKept
  <2>5. TokenKept(b)' BY <1>3, <1>4, <2>2 DEF TokenKept
  <2>6. QED BY <2>3, <2>4, <2>5 DEF Kept
<1>13. Kept(b)' BY <1>3, <1>12 DEF Kept
<1>14. Safe(b)' BY <1>10, <1>11, <1>13 DEF Safe
<1>15. QED BY <1>7, <1>9, <1>14, Combine

(***************************************************************************)
(* The pages.  A call whose continuation has run, or that is sent, moves   *)
(* no token.                                                               *)
(***************************************************************************)
LEMMA ForgetSafe ==
    ASSUME TypeInv, SessionInv, NEW c \in Calls, OnlyCall(c), call'[c] = None,
           UNCHANGED <<valid, refresh, jar, ended>>,
           \A a \in Browsers \ {BrowserOf[c]} : view'[a] = view[a],
           ~ended[BrowserOf[c]] =>
              (view'[BrowserOf[c]] = "login" <=> view[BrowserOf[c]] = "login")
    PROVE  SessionInv'
<1>1. Idle(c)' BY DEF Idle
<1>2. CallKept(c)' /\ ~Signing(c)' BY <1>1 DEF CallKept, Signing
<1>3. Quiet(c) BY <1>1, <1>2 DEF Quiet
<1>4. QED BY <1>3, QuietSafe

LEMMA SendSafe ==
    ASSUME TypeInv, SessionInv, NEW c \in Calls, OnlyCall(c), Idle(c),
           NEW kind \in {"me", "list", "login", "register", "logout"}, NEW arg,
           call'[c] = Sent(BrowserOf[c], kind, arg),
           UNCHANGED <<valid, refresh, jar>>,
           \A a \in Browsers \ {BrowserOf[c]} :
              view'[a] = view[a] /\ ended'[a] = ended[a],
           ~ended'[BrowserOf[c]] =>
              /\ ~ended[BrowserOf[c]] /\ kind # "logout"
              /\ view'[BrowserOf[c]] = "login" <=> view[BrowserOf[c]] = "login"
              /\ view[BrowserOf[c]] = "login" => kind \in SignIns
    PROVE  SessionInv'
<1>1. /\ call'[c].kind = kind /\ call'[c].stage = "sent" /\ ~call'[c].retried
      /\ call'[c].token = IF kind = "logout" THEN jar[BrowserOf[c]].refresh ELSE None
  BY DEF Sent
<1>2. ~Signing(c)' BY <1>1 DEF Signing, SignIns
<1>3. ~ended'[BrowserOf[c]] => CallKept(c)' BY <1>1 DEF CallKept
<1>4. Quiet(c) BY <1>1, <1>2, <1>3 DEF Quiet
<1>5. QED BY <1>4, QuietSafe

LEMMA OpenPageSafe ==
    ASSUME TypeInv, SessionInv, NEW c \in Calls, OpenPage(c)
    PROVE  SessionInv'
<1> DEFINE b == BrowserOf[c]
<1>1. /\ Idle(c) /\ view[b] # "login"
      /\ call' = [Unmounted(b, Calls) EXCEPT ![c] = Sent(b, "me", None)]
      /\ UNCHANGED <<server, jar, refresh, ended>>
  BY DEF OpenPage
<1>2. call'[c] = Sent(b, "me", None) /\ Unmounts(c, b, Calls)
  BY <1>1 DEF Unmounted, Unmounts
<1>3. OnlyCall(c) BY <1>2, UnmountedOnly, CallsHaveBrowsers
<1>4. view'[b] = "loading" /\ \A a \in Browsers \ {b} : view'[a] = view[a]
  BY CallsHaveBrowsers DEF OpenPage, TypeInv, TablesOK
<1>5. QED BY <1>1, <1>2, <1>3, <1>4, SendSafe DEF server

LEMMA RefreshListSafe ==
    ASSUME TypeInv, SessionInv, NEW c \in Calls, Refresh(c)
    PROVE  SessionInv'
<1> DEFINE b == BrowserOf[c]
           f == FilterOf[c]
<1>1. /\ Idle(c) /\ view[b] = "app"
      /\ call' = [Unmounted(b, ListCalls) EXCEPT ![c] = Sent(b, "list", f)]
      /\ UNCHANGED <<server, jar, refresh, view, ended>>
  BY DEF Refresh
<1>2. call'[c] = Sent(b, "list", f) /\ Unmounts(c, b, ListCalls)
  BY <1>1 DEF Unmounted, Unmounts
<1>3. OnlyCall(c) BY <1>2, UnmountedOnly, CallsHaveBrowsers DEF Calls
<1>4. QED BY <1>1, <1>2, <1>3, SendSafe DEF server

LEMMA SendSignInSafe ==
    ASSUME TypeInv, SessionInv, NEW c \in Calls, NEW kind \in SignIns,
           NEW e \in Emails, SignIn(c, kind, e)
    PROVE  SessionInv'
<1>1. /\ Idle(c) /\ call' = [call EXCEPT ![c] = Sent(BrowserOf[c], kind, e)]
      /\ UNCHANGED <<server, jar, refresh, page, ended>>
  BY DEF SignIn, Begin
<1>2. /\ DOMAIN call' = Calls /\ call'[c] = Sent(BrowserOf[c], kind, e)
      /\ \A d \in Calls \ {c} : call'[d] = call[d]
  BY <1>1 DEF TypeInv, TablesOK
<1>3. OnlyCall(c) BY <1>2, ChangedCallOnly
<1>4. kind \in {"me", "list", "login", "register", "logout"} /\ kind # "logout"
  BY DEF SignIns
<1>5. QED BY <1>1, <1>2, <1>3, <1>4, SendSafe DEF server, page

LEMMA LogoutSafe ==
    ASSUME TypeInv, SessionInv, NEW c \in Calls, Logout(c)
    PROVE  SessionInv'
<1>1. /\ Idle(c) /\ call' = [call EXCEPT ![c] = Sent(BrowserOf[c], "logout", None)]
      /\ ended' = [ended EXCEPT ![BrowserOf[c]] = TRUE]
      /\ UNCHANGED <<server, jar, refresh, page>>
  BY DEF Logout, Begin
<1>2. /\ DOMAIN call' = Calls /\ call'[c] = Sent(BrowserOf[c], "logout", None)
      /\ \A d \in Calls \ {c} : call'[d] = call[d]
  BY <1>1 DEF TypeInv, TablesOK
<1>3. OnlyCall(c) BY <1>2, ChangedCallOnly
<1>4. /\ ended'[BrowserOf[c]]
      /\ \A a \in Browsers \ {BrowserOf[c]} : ended'[a] = ended[a]
  BY <1>1, CallsHaveBrowsers DEF TypeInv, TablesOK
<1>5. QED BY <1>1, <1>2, <1>3, <1>4, SendSafe DEF server, page

LEMMA FinishListSafe ==
    ASSUME TypeInv, SessionInv, NEW c \in Calls, FinishList(c)
    PROVE  SessionInv'
<1>1. /\ call' = [call EXCEPT ![c] = None]
      /\ UNCHANGED <<server, jar, refresh, view, ended>>
  BY DEF FinishList
<1>2. OnlyCall(c) /\ call'[c] = None BY <1>1, ForgetOnly
<1>3. QED BY <1>1, <1>2, ForgetSafe DEF server

\* Only a 401 that authentication was retried for leads to the login page.
LEMMA FinishMeLogin ==
    ASSUME TypeInv, SessionInv, NEW c \in Calls, FinishMe(c), ~ended[BrowserOf[c]]
    PROVE  view[BrowserOf[c]] # "login" /\ view'[BrowserOf[c]] # "login"
<1>1. /\ Final(c) /\ ~Idle(c) /\ call[c].kind = "me" /\ call[c].stage = "answered"
  BY FinishMeView DEF FinishMe
<1>2. CallKept(c) BY KeptCall
<1>3. view[BrowserOf[c]] # "login" BY <1>1, <1>2 DEF CallKept, SignIns
<1>4. call[c].status # 401
  BY <1>1, <1>2 DEF Final, MayRetry, Authenticated, CallKept
<1>5. view[BrowserOf[c]] \in {"login", "loading", "app"} /\ BrowserOf[c] \in DOMAIN view
  BY CallsHaveBrowsers DEF TypeInv, TablesOK
<1>6. view'[BrowserOf[c]] # "login"
  <2>1. CASE call[c].status = 200 /\ call[c].current
    BY <1>3, <1>5, <2>1 DEF FinishMe
  <2>2. CASE call[c].status # 200 /\ call[c].current
    BY <1>3, <1>4, <1>5, <2>2 DEF FinishMe
  <2>3. CASE ~call[c].current
    BY <1>3, <1>4, <1>5, <2>3 DEF FinishMe
  <2>4. QED BY <2>1, <2>2, <2>3
<1>7. QED BY <1>3, <1>6

LEMMA FinishMeSafe ==
    ASSUME TypeInv, SessionInv, NEW c \in Calls, FinishMe(c)
    PROVE  SessionInv'
<1> DEFINE b == BrowserOf[c]
<1>1. UNCHANGED <<server, jar, refresh, ended>> BY FinishMeView
<1>2. OnlyCall(c) /\ call'[c] = None
  <2>1. CASE call' = [call EXCEPT ![c] = None] BY <2>1, ForgetOnly
  <2>2. CASE call' = [Unmounted(b, Calls) EXCEPT ![c] = None]
    <3>1. Unmounts(c, b, Calls) /\ call'[c] = None
      BY <2>2 DEF Unmounts, Unmounted
    <3>2. QED BY <3>1, UnmountedOnly, CallsHaveBrowsers
  <2>3. QED BY <2>1, <2>2 DEF FinishMe
<1>3. \A a \in Browsers \ {b} : view'[a] = view[a]
  BY FinishMeView DEF TypeInv, TablesOK
<1>4. QED BY <1>1, <1>2, <1>3, FinishMeLogin, ForgetSafe DEF server

\* The page of a sign-in or a logout is left with the cookies of its answer.
Leaves(c, v, r) ==
    /\ call' = [Unmounted(BrowserOf[c], Calls) EXCEPT ![c] = None]
    /\ view' = [view EXCEPT ![BrowserOf[c]] = v]
    /\ jar' = [jar EXCEPT ![BrowserOf[c]] = r]

LEMMA LeaveOnly ==
    ASSUME TypeInv, NEW c \in Calls, NEW v, NEW r, Leaves(c, v, r)
    PROVE  /\ OnlyCall(c) /\ call'[c] = None
           /\ view'[BrowserOf[c]] = v /\ jar'[BrowserOf[c]] = r
           /\ \A a \in Browsers \ {BrowserOf[c]} : view'[a] = view[a] /\ jar'[a] = jar[a]
<1>1. Unmounts(c, BrowserOf[c], Calls) /\ call'[c] = None
  BY DEF Leaves, Unmounts, Unmounted
<1>2. OnlyCall(c) BY <1>1, UnmountedOnly, CallsHaveBrowsers
<1>3. BrowserOf[c] \in Browsers /\ DOMAIN view = Browsers /\ DOMAIN jar = Browsers
  BY CallsHaveBrowsers DEF TypeInv, TablesOK
<1>4. QED BY <1>1, <1>2, <1>3 DEF Leaves

LEMMA FinishSignInSafe ==
    ASSUME TypeInv, SessionInv, NEW c \in Calls, FinishSignIn(c)
    PROVE  SessionInv'
<1>1. PICK b \in Browsers : b = BrowserOf[c] /\ c \in Of(b) BY CallsHaveBrowsers
<1>2. /\ ~Idle(c) /\ call[c].kind \in SignIns /\ call[c].stage = "answered"
      /\ UNCHANGED <<valid, refresh, ended>>
  BY DEF FinishSignIn, Final, Answered, SignIns, server
<1>3. CASE call[c].status # 200
  <2>1. call' = [call EXCEPT ![c] = None] /\ UNCHANGED <<jar, view>>
    BY <1>3 DEF FinishSignIn
  <2>2. OnlyCall(c) /\ call'[c] = None BY <2>1, ForgetOnly
  <2>3. QED BY <1>2, <2>1, <2>2, ForgetSafe
<1>4. CASE call[c].status = 200
  <2>1. PICK v, r : /\ v = "loading" /\ Leaves(c, v, r)
                    /\ r = [access |-> TRUE, refresh |-> call[c].token]
    BY <1>4 DEF FinishSignIn, Leaves
  <2>2. /\ OnlyCall(c) /\ call'[c] = None
        /\ view'[b] = v /\ jar'[b] = r
        /\ \A a \in Browsers \ {b} : view'[a] = view[a] /\ jar'[a] = jar[a]
    BY <1>1, <2>1, LeaveOnly
  <2>3. jar'[b].refresh = call[c].token /\ view'[b] = "loading" BY <2>1, <2>2
  <2>4. \A d \in Of(b) : /\ d \in Calls /\ BrowserOf[d] = b
                         /\ d # c => Same(d)
    BY <2>2, OfKnown DEF OnlyCall
  <2>5. Idle(c)' /\ ~Signing(c)' BY <2>2 DEF Idle, Signing
  <2>6. Safe(b) BY DEF SessionInv
  <2>7. Elsewhere(b) BY <1>1, <1>2, <2>2 DEF Elsewhere, OnlyCall
  <2>8. Proper(b)
    <3>1. ASSUME NEW t \in Tokens, NEW d \in Of(b), ~Idle(d)', call'[d].token = t
          PROVE  Holds(b, t)
      <4>1. d # c BY <2>5, <3>1
      <4>2. QED BY <2>4, <3>1, <4>1 DEF Same, Idle, Holds
    <3>2. \A t \in Tokens : Holds(b, t)' => Holds(b, t)
      BY <1>1, <1>2, <2>3, <3>1 DEF Holds
    <3>3. QED BY <1>2, <3>2 DEF Proper
  <2>9. OneRefresh(b)' BY <1>2, <2>6 DEF Safe, OneRefresh
  <2>10. ASSUME NEW d \in Of(b) PROVE Apart(d)'
    <3>1. Apart(d) /\ Apart(c) BY <1>1, <2>6 DEF Safe
    <3>2. \A e \in Of(b) : Signing(e)' => /\ e # c /\ Signing(e)
                                          /\ call'[e].token = call[e].token
      BY <2>4, <2>5, SameSigning
    <3>3. Signing(d)' => call[d].token # call[c].token
      <4>1. CASE call[c].token = None BY <3>2, <4>1 DEF Signing
      <4>2. CASE call[c].token # None
        <5>1. Signing(c) BY <1>2, <4>2 DEF Signing
        <5>2. QED BY <1>1, <3>1, <3>2, <5>1 DEF Apart
      <4>3. QED BY <4>1, <4>2
    <3>4. QED BY <1>2, <2>3, <2>4, <3>1, <3>2, <3>3 DEF Apart
  <2>11. ASSUME ~ended[b] PROVE Kept(b)'
    <3>1. \A d \in Of(b) : CallKept(d) /\ RefreshKept(d)
      BY <2>6, <2>11 DEF Safe, Kept
    <3>2. ASSUME NEW d \in Of(b) PROVE CallKept(d)'
      <4>1. CASE d = c BY <2>5, <4>1 DEF CallKept
      <4>2. CASE d # c BY <1>2, <2>3, <2>4, <3>1, <4>2, SameKept
      <4>3. QED BY <4>1, <4>2
    <3>3. ASSUME NEW d \in Of(b) PROVE RefreshKept(d)'
      BY <1>2, <2>3, <2>4, <3>1 DEF RefreshKept
    <3>4. call[c].token \in valid BY <1>1, <1>2, <1>4, <3>1 DEF CallKept
    <3>5. TokenKept(b)' BY <1>2, <2>3, <3>4 DEF TokenKept
    <3>6. QED BY <3>2, <3>3, <3>5 DEF Kept
  <2>12. Kept(b)' BY <1>2, <2>11 DEF Kept
  <2>13. Safe(b)' BY <2>9, <2>10, <2>12 DEF Safe
  <2>14. QED BY <2>7, <2>8, <2>13, Combine
<1>5. QED BY <1>3, <1>4

LEMMA FinishLogoutSafe ==
    ASSUME TypeInv, SessionInv, NEW c \in Calls, FinishLogout(c)
    PROVE  SessionInv' /\ ended[BrowserOf[c]]
<1>1. PICK b \in Browsers : b = BrowserOf[c] /\ c \in Of(b) BY CallsHaveBrowsers
<1>2. /\ ~Idle(c) /\ call[c].kind = "logout"
      /\ UNCHANGED <<valid, refresh, ended>>
  BY DEF FinishLogout, Final, Answered, server
<1>3. ended[b] BY <1>1, <1>2, KeptCall DEF CallKept
<1>4. CASE call[c].status # 200
  <2>1. call' = [call EXCEPT ![c] = None] /\ UNCHANGED <<jar, view>>
    BY <1>4 DEF FinishLogout
  <2>2. OnlyCall(c) /\ call'[c] = None BY <2>1, ForgetOnly
  <2>3. QED BY <1>1, <1>2, <1>3, <2>1, <2>2, ForgetSafe
<1>5. CASE call[c].status = 200
  <2>1. PICK v, r : /\ v = "login" /\ Leaves(c, v, r)
                    /\ r = [access |-> FALSE, refresh |-> None]
    BY <1>5 DEF FinishLogout, Leaves
  <2>2. /\ OnlyCall(c) /\ call'[c] = None /\ jar'[b] = r
        /\ \A a \in Browsers \ {b} : view'[a] = view[a] /\ jar'[a] = jar[a]
    BY <1>1, <2>1, LeaveOnly
  <2>3. jar'[b].refresh = None BY <2>1, <2>2
  <2>4. \A d \in Of(b) : d # c => d \in Calls /\ Same(d)
    BY <2>2, OfKnown DEF OnlyCall
  <2>5. Elsewhere(b) BY <1>1, <1>2, <2>2 DEF Elsewhere, OnlyCall
  <2>6. Shrinks(b)
    <3>1. ASSUME NEW d \in Of(b)
          PROVE  /\ ~Idle(d)' => ~Idle(d) /\ call'[d].token \in {call[d].token, None}
                 /\ Signing(d)' => Signing(d) /\ call'[d].token = call[d].token
      <4>1. CASE d = c BY <2>2, <4>1 DEF Signing, Idle
      <4>2. CASE d # c BY <2>4, <4>2, SameSigning DEF Same, Idle
      <4>3. QED BY <4>1, <4>2
    <3>2. QED BY <1>2, <2>3, <3>1 DEF Shrinks
  <2>7. QED BY <1>1, <1>2, <1>3, <2>5, <2>6, EndedSafe
<1>6. QED BY <1>4, <1>5

LEMMA SessionInit == Init => SessionInv
<1> SUFFICES ASSUME Init PROVE SessionInv
  OBVIOUS
<1>1. /\ \A b \in Browsers : jar[b].refresh = None /\ view[b] = "login"
      /\ \A c \in Calls : Idle(c) /\ refresh[c] = None
  BY DEF Init, Idle
<1>2. HeldOnce BY <1>1, NoneIsNone DEF HeldOnce, Holds, Of
<1>3. ASSUME NEW b \in Browsers PROVE Safe(b)
  <2>1. OneRefresh(b) BY <1>1, OfKnown DEF OneRefresh
  <2>2. \A c \in Of(b) : Apart(c) BY <1>1, OfKnown DEF Apart, Signing
  <2>3. Kept(b)
    BY <1>1, OfKnown DEF Kept, CallKept, RefreshKept, TokenKept
  <2>4. QED BY <2>1, <2>2, <2>3 DEF Safe
<1>4. QED BY <1>2, <1>3 DEF SessionInv

LEMMA SessionNext ==
    ASSUME TypeInv, SessionInv, [Next]_vars
    PROVE  SessionInv'
<1>1. CASE UNCHANGED vars BY <1>1, UnchangedSafe DEF vars
<1>2. CASE RegisterElsewhere
  BY <1>2, UnchangedSafe DEF RegisterElsewhere, page
<1>3. ASSUME NEW c \in Calls, User(c) \/ Progress(c) \/ Lose(c)
      PROVE  SessionInv'
  <2>1. CASE User(c)
    BY <2>1, OpenPageSafe, RefreshListSafe, SendSignInSafe, LogoutSafe
       DEF User, SignIns
  <2>2. CASE Serve(c)
    BY <2>2, ServeReadSafe, ServeLoginSafe, ServeRegisterExistsSafe,
       ServeRegisterInsertSafe, ServeLogoutSafe, RefreshCheckSafe, RefreshRotateSafe
       DEF Serve
  <2>3. CASE Client(c) \/ Continue(c)
    BY <2>3, RefreshAccessTokenSafe, RefreshSettlesSafe, FinishMeSafe, FinishListSafe,
       FinishSignInSafe, FinishLogoutSafe DEF Client, Continue
  <2>4. CASE Lose(c)
    BY <2>4, LoseCallSafe, LoseRefreshSafe DEF Lose
  <2>5. QED BY <1>3, <2>1, <2>2, <2>3, <2>4 DEF Progress
<1>4. QED BY <1>1, <1>2, <1>3, ExpireSafe DEF Next

\* Only the answer to GET /auth/me and the answer to a logout lead to the login
\* page, and not while the session is kept.
LEMMA OnlyEndedSessionsLeave ==
    ASSUME TypeInv, SessionInv, [Next]_vars, NEW b \in Browsers,
           view[b] # "login", view'[b] = "login"
    PROVE  ended'[b]
<1>1. ASSUME NEW c \in Calls, FinishMe(c) PROVE ended'[b]
  <2>1. view'[BrowserOf[c]] = "login" /\ BrowserOf[c] = b
    BY <1>1, FinishMeView DEF TypeInv, TablesOK
  <2>2. QED BY <1>1, <2>1, FinishMeView, FinishMeLogin
<1>2. ASSUME NEW c \in Calls, FinishLogout(c) PROVE ended'[b]
  <2>1. BrowserOf[c] = b
    BY <1>2 DEF FinishLogout, TypeInv, TablesOK
  <2>2. QED BY <1>2, <2>1, FinishLogoutSafe DEF FinishLogout
<1>3. ASSUME NEW c \in Calls, OpenPage(c) \/ FinishSignIn(c) PROVE ended'[b]
  BY <1>3 DEF OpenPage, FinishSignIn, TypeInv, TablesOK
<1>4. ASSUME NEW c \in Calls,
             \/ Refresh(c) \/ Logout(c) \/ Client(c) \/ FinishList(c) \/ Lose(c)
             \/ \E kind \in {"login", "register"}, e \in Emails : SignIn(c, kind, e)
      PROVE  UNCHANGED view
  BY <1>4 DEF Refresh, Logout, SignIn, Client, RefreshAccessToken, RefreshSettles,
              FinishList, Lose, LoseCall, LoseRefresh, page
<1>5. ASSUME NEW c \in Calls, Serve(c) PROVE UNCHANGED view
  BY <1>5 DEF Serve, ServeRead, ServeLogin, ServeRegisterExists, ServeRegisterInsert,
              ServeLogout, RefreshCheck, RefreshRotate, page
<1>6. ASSUME NEW a \in Browsers, Expire(a) PROVE UNCHANGED view
  BY <1>6 DEF Expire, ExpireAccess, ExpireRefresh, page
<1>7. UNCHANGED vars \/ RegisterElsewhere => UNCHANGED view
  BY DEF vars, RegisterElsewhere, page
<1>8. QED
  BY <1>1, <1>2, <1>3, <1>4, <1>5, <1>6, <1>7 DEF Next, User, Progress, Continue

\* AuthSessionProvider and the shared refresh of ApiClient: however many calls
\* of however many browsers meet an expired access token together, no tab is
\* sent to the login page while its session is neither ended nor lost.
THEOREM SessionNeverLost == Spec => SessionKept
<1>1. TypeInv /\ SessionInv /\ [Next]_vars =>
        [\A b \in Browsers :
            view[b] # "login" /\ view'[b] = "login" => ended'[b]]_vars
  BY OnlyEndedSessionsLeave
<1>2. QED
  BY <1>1, InitTyped, NextTyped, SessionInit, SessionNext, PTL DEF Spec, SessionKept
============================================================================
