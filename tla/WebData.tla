------------------------------ MODULE WebData ------------------------------
(***************************************************************************)
(* Browsers of the web client and the sessions of the API: the cookies of  *)
(* each browser, the calls its one tab has under way, the page it shows,   *)
(* and the accounts and valid refresh tokens of the server.                *)
(*                                                                         *)
(* A call is a promise of the client: it is sent, served, answered, and    *)
(* its continuation runs.  JavaScript runs one continuation at a time, so  *)
(* each is a step; calls and the server interleave freely.                 *)
(***************************************************************************)
EXTENDS Integers, FiniteSets, Sequences

CONSTANTS
    Browsers,
    SessionCalls,     \* room for GET /auth/me of AuthSessionProvider
    ListCalls,        \* room for the loads of a list page
    FormCalls,        \* room for login, register and logout
    BrowserOf,        \* the browser of each call
    Emails,
    MaxAccounts,      \* bound: accounts of the server
    Tokens,           \* names for refresh tokens
    Filters,          \* what a list page can be asked for
    FilterOf,         \* bound: each list call asks for one of them
    Lossy,            \* bound: calls that may lose a request or an answer
    None              \* absence of a value

Calls == SessionCalls \cup ListCalls \cup FormCalls

VARIABLES
    accounts,         \* emails of the accounts, in the order of their creation
    valid,            \* refresh tokens issued and not on the blacklist
    jar,              \* cookies: is there an access token; the refresh token
    call,             \* the calls of the client
    refresh,          \* the token refresh a call has started
    view,             \* "login", "loading" (no session context yet) or "app"
    list,             \* the list page: what is asked for, what is shown
    ended             \* history: the session was ended, or its answer lost

vars == <<accounts, valid, jar, call, refresh, view, list, ended>>
server == <<accounts, valid>>
page == <<view, list>>

(***************************************************************************)
(* access and token are the cookies the request carried, as far as the     *)
(* server reads them, token later the one its answer brings; retried is    *)
(* set when authentication has been retried; current while the component   *)
(* of the continuation is mounted and, for a list, its request id is still *)
(* the latest.                                                             *)
(***************************************************************************)
CallStates ==
    [kind : {"me", "list", "login", "register", "logout"},
     stage : {"sent", "inserting", "answered", "waiting"},
     arg : Filters \cup Emails \cup {None},
     access : BOOLEAN, token : Tokens \cup {None}, on : Calls \cup {None},
     retried : BOOLEAN, status : {0, 200, 401, 409, 500}, current : BOOLEAN]

RefreshStates ==
    [stage : {"sent", "checked", "answered"},
     token : Tokens \cup {None}, status : {0, 200, 401}]

NothingShown == [asked |-> None, shown |-> None, loading |-> FALSE]

Idle(c) == call[c] = None
Of(b) == {c \in Calls : BrowserOf[c] = b}

\* A name that no cookie, call or refresh holds stands for a token not yet
\* issued.
HeldTokens ==
    {jar[b].refresh : b \in Browsers}
      \cup {call[c].token : c \in {d \in Calls : ~Idle(d)}}
      \cup {refresh[c].token : c \in {d \in Calls : refresh[d] # None}}
FreshTokens == Tokens \ HeldTokens
NewToken == CHOOSE t \in FreshTokens : TRUE
============================================================================
