------------------------------ MODULE Sessions ------------------------------
(***************************************************************************)
(* Accounts and their sessions: AuthService.register, login, refresh and   *)
(* logout with the cookie AuthController sets, UsersService.create and     *)
(* updateStatus.  refresh rotates the token in three statements without a  *)
(* transaction, a read, a delete and a create; register, create and login  *)
(* read first and write after the password has been hashed.  Any other     *)
(* call may come in between, and replies arrive in any order or not at     *)
(* all.  A session is the chain of tokens that starts with one login; the  *)
(* tabs of a browser share one cookie.                                     *)
(***************************************************************************)
EXTENDS Integers, Sequences, FiniteSets

CONSTANTS
    Request,        \* requests the server works on at a time
    Browser,
    User,           \* email addresses
    MaxTokens,      \* bound
    None

ASSUME BoundsAssumption == MaxTokens \in Nat /\ None \notin Nat \cup User

VARIABLES
    users,      \* User rows, by address
    merchants,  \* number of Merchant rows; each gets the next id
    tokens,     \* every refresh token issued; gone: it has no row any more
    cookie,     \* the refreshToken cookie of each browser
    calls,      \* what the requests remember
    ended,      \* sessions of which a logout deleted the token
    broken,     \* sessions that a crash left without a token
    lost        \* browsers that missed a reply and got no cookie since

vars == <<users, merchants, tokens, cookie, calls, ended, broken, lost>>

Account == [merchant : Nat, role : {"OWNER", "STAFF"}, active : BOOLEAN]
Token == [session : Nat, user : User, state : {"live", "expired", "gone"}]

Ids == DOMAIN tokens

\* token: what the cookie of the request said, and later the one it replies.
Call == [call : {"login", "refresh", "logout"}, browser : Browser, user : User \cup {None},
         token : Nat \cup {None}, step : {"find", "delete", "create", "reply"}]
   \cup [call : {"register"}, user : User, step : {"insert"}]
   \cup [call : {"create user"}, user : User, merchant : Nat, step : {"insert"}]

ASSUME NoneAssumption == None \notin Account \cup Call

Sessions == {tokens[t].session : t \in Ids}
HasRow(t) == tokens[t].state # "gone"
Live(s) == {t \in Ids : tokens[t].session = s /\ HasRow(t)}
Delete(t) == tokens' = [tokens EXCEPT ![t].state = "gone"]

At(r, call, step) ==
    calls[r] # None /\ calls[r].call \in call /\ calls[r].step = step
Goto(r, step) == calls' = [calls EXCEPT ![r].step = step]
Fail(r) == calls' = [calls EXCEPT ![r] = None]

Creating(s) ==
    {r \in Request : At(r, {"refresh"}, "create")
                     /\ tokens[calls[r].token].session = s}

\* Tokens issued, and those the requests under way may issue.
Room ==
    Len(tokens) + Cardinality({r \in Request :
        \E step \in {"find", "delete", "create"} :
            At(r, {"login", "refresh"}, step)}) < MaxTokens

Init ==
    /\ users = [u \in User |-> None]
    /\ merchants = 0
    /\ tokens = <<>>
    /\ cookie = [b \in Browser |-> None]
    /\ calls = [r \in Request |-> None]
    /\ ended = {} /\ broken = {} /\ lost = {}

Receive(r, call) ==
    /\ calls[r] = None
    /\ calls' = [calls EXCEPT ![r] = call]
    /\ UNCHANGED <<users, merchants, tokens, cookie, ended, broken, lost>>

-----------------------------------------------------------------------------
(* Accounts. *)

IsOwner(o) == users[o] # None /\ users[o].active /\ users[o].role = "OWNER"

\* register and UsersService.create look the address up first.
Register(r) == \E u \in User :
    /\ users[u] = None
    /\ Receive(r, [call |-> "register", user |-> u, step |-> "insert"])

CreateUser(r) == \E u, o \in User :
    /\ IsOwner(o)
    /\ users[u] = None
    /\ Receive(r, [call |-> "create user", user |-> u,
                   merchant |-> users[o].merchant, step |-> "insert"])

\* The row a call inserts: register's belongs to the merchant it creates.
NewAccount(call) ==
    IF call.call = "register"
    THEN [merchant |-> merchants + 1, role |-> "OWNER", active |-> TRUE]
    ELSE [merchant |-> call.merchant, role |-> "STAFF", active |-> TRUE]

\* Merchant and owner in one transaction: the unique index on the address
\* rolls both back.  A user of an owner is one insert.
InsertSeparately(r) ==
    LET q == calls[r] IN
    /\ At(r, {"register", "create user"}, "insert")
    /\ Fail(r)
    /\ users' = IF users[q.user] # None THEN users
                ELSE [users EXCEPT ![q.user] = NewAccount(q)]
    /\ merchants' = IF q.call = "register" THEN merchants + 1 ELSE merchants
    /\ UNCHANGED <<tokens, cookie, ended, broken, lost>>
Insert(r) ==
    LET q == calls[r] IN
    /\ At(r, {"register", "create user"}, "insert")
    /\ Fail(r)
    /\ IF users[q.user] # None
       THEN UNCHANGED <<users, merchants>>
       ELSE /\ users' = [users EXCEPT ![q.user] = NewAccount(q)]
            /\ merchants' = IF q.call = "register" THEN merchants + 1 ELSE merchants
    /\ UNCHANGED <<tokens, cookie, ended, broken, lost>>

\* An owner may lock users of the merchant out, himself among them.
UpdateStatus(o, u) ==
    /\ IsOwner(o)
    /\ users[u] # None /\ users[u].merchant = users[o].merchant
    /\ users' = [users EXCEPT ![u].active = ~@]
    /\ UNCHANGED <<merchants, tokens, cookie, calls, ended, broken, lost>>

-----------------------------------------------------------------------------
(* Sessions. *)

Login(r) == \E b \in Browser, u \in User :
    /\ Room
    /\ users[u] # None /\ users[u].active
    /\ Receive(r, [call |-> "login", browser |-> b, user |-> u,
                   token |-> None, step |-> "create"])

\* A request carries the cookie of the moment it is sent.  Without one, refresh
\* is refused and logout has nothing to delete.
Send(r) == \E b \in Browser, call \in {"refresh", "logout"} :
    /\ call = "refresh" => Room /\ cookie[b] # None
    /\ Receive(r, [call |-> call, browser |-> b, user |-> None, token |-> cookie[b],
                   step |-> IF call = "refresh" THEN "find"
                            ELSE IF cookie[b] = None THEN "reply" ELSE "delete"])

\* findUnique and the checks of refresh.
FindToken(r) ==
    LET t == calls[r].token IN
    /\ At(r, {"refresh"}, "find")
    /\ IF tokens[t].state = "live" /\ users[tokens[t].user].active
       THEN Goto(r, "delete")
       ELSE Fail(r)
    /\ UNCHANGED <<users, merchants, tokens, cookie, ended, broken, lost>>

\* delete throws when another refresh or a logout was faster.
DeleteManyOldToken(r) ==
    /\ At(r, {"refresh"}, "delete")
    /\ Delete(calls[r].token)
    /\ Goto(r, "create")
    /\ UNCHANGED <<users, merchants, cookie, ended, broken, lost>>
DeleteOldToken(r) ==
    LET t == calls[r].token IN
    /\ At(r, {"refresh"}, "delete")
    /\ IF HasRow(t) THEN Goto(r, "create") ELSE Fail(r)
    /\ Delete(t)
    /\ UNCHANGED <<users, merchants, cookie, ended, broken, lost>>

\* The last statement of login and of refresh.
Owner(r) ==
    IF calls[r].call = "login"
    THEN [session |-> Len(tokens) + 1, user |-> calls[r].user]
    ELSE [session |-> tokens[calls[r].token].session, user |-> tokens[calls[r].token].user]

CreateForActive(r) ==
    LET o == Owner(r) IN
    /\ At(r, {"login", "refresh"}, "create")
    /\ IF users[o.user].active
       THEN /\ tokens' = Append(tokens, [session |-> o.session, user |-> o.user,
                                          state |-> "live"])
            /\ calls' = [calls EXCEPT ![r].step = "reply", ![r].token = Len(tokens) + 1]
       ELSE Fail(r) /\ UNCHANGED tokens
    /\ UNCHANGED <<users, merchants, cookie, ended, broken, lost>>
CreateNewToken(r) ==
    /\ At(r, {"login", "refresh"}, "create")
    /\ tokens' = Append(tokens, [session |-> Owner(r).session, user |-> Owner(r).user,
                                 state |-> "live"])
    /\ calls' = [calls EXCEPT ![r].step = "reply", ![r].token = Len(tokens) + 1]
    /\ UNCHANGED <<users, merchants, cookie, ended, broken, lost>>

\* deleteMany: no error when the token is gone already, because a refresh has
\* replaced it or is about to.
Logout(r) ==
    LET t == calls[r].token IN
    /\ At(r, {"logout"}, "delete")
    /\ Delete(t)
    /\ ended' = IF HasRow(t) THEN ended \cup {tokens[t].session} ELSE ended
    /\ Goto(r, "reply")
    /\ UNCHANGED <<users, merchants, cookie, broken, lost>>

\* The reply arrives with its Set-Cookie header.
Replying(r) == At(r, {"login", "refresh", "logout"}, "reply")
CookieOnLoginOnly(r) ==
    /\ Replying(r)
    /\ Fail(r)
    /\ cookie' = CASE calls[r].call = "login" ->
                         [cookie EXCEPT ![calls[r].browser] = calls[r].token]
                   [] calls[r].call = "logout" ->
                         [cookie EXCEPT ![calls[r].browser] = None]
                   [] OTHER -> cookie
    /\ lost' = lost \ {calls[r].browser}
    /\ UNCHANGED <<users, merchants, tokens, ended, broken>>
Reply(r) ==
    /\ Replying(r)
    /\ Fail(r)
    /\ cookie' = [cookie EXCEPT ![calls[r].browser] =
          IF calls[r].call = "logout" THEN None ELSE calls[r].token]
    /\ lost' = lost \ {calls[r].browser}
    /\ UNCHANGED <<users, merchants, tokens, ended, broken>>

LoseReply(r) ==
    /\ Replying(r)
    /\ Fail(r)
    /\ lost' = lost \cup {calls[r].browser}
    /\ UNCHANGED <<users, merchants, tokens, cookie, ended, broken>>

\* Seven days pass.
Expire(t) ==
    /\ tokens[t].state = "live"
    /\ tokens' = [tokens EXCEPT ![t].state = "expired"]
    /\ UNCHANGED <<users, merchants, cookie, calls, ended, broken, lost>>

Waiting == {b \in Browser : \E r \in Request :
    calls[r] # None /\ "browser" \in DOMAIN calls[r] /\ calls[r].browser = b}

Crash ==
    /\ broken' = broken \cup {s \in Sessions : Creating(s) # {}}
    /\ calls' = [r \in Request |-> None]
    /\ lost' = lost \cup Waiting
    /\ UNCHANGED <<users, merchants, tokens, cookie, ended>>

Rotate(r) == FindToken(r) \/ DeleteOldToken(r) \/ CreateNewToken(r)

Next ==
    \/ \E r \in Request :
          \/ Register(r) \/ CreateUser(r) \/ Insert(r)
          \/ Login(r) \/ Send(r) \/ Rotate(r) \/ Logout(r)
          \/ Reply(r) \/ LoseReply(r)
    \/ \E o, u \in User : UpdateStatus(o, u)
    \/ \E t \in Ids : Expire(t)
    \/ Crash

Spec == Init /\ [][Next]_vars

\* Node and the database finish a refresh that has begun.
FairSpec == Spec /\ \A r \in Request : WF_vars(Rotate(r))

-----------------------------------------------------------------------------
(* Properties. *)

TypeOK ==
    /\ users \in [User -> Account \cup {None}]
    /\ merchants \in Nat
    /\ tokens \in Seq(Token)
    /\ cookie \in [Browser -> Ids \cup {None}]
    /\ calls \in [Request -> Call \cup {None}]
    /\ ended \subseteq Nat
    /\ broken \subseteq Nat
    /\ lost \subseteq Browser

Owners(m) ==
    {u \in User : users[u] # None /\ users[u].role = "OWNER" /\ users[u].merchant = m}

\* Every merchant row has exactly one owner: of overlapping registrations of
\* one address the first leaves a merchant and the others, refused, leave none.
NoOwnerlessMerchant ==
    \A m \in 1 .. merchants : \E u \in User : Owners(m) = {u}

\* However many refreshes of one token overlap, one of them gets the next
\* token: a session never has two tokens that work.
OneLiveToken ==
    \A s \in Sessions : Cardinality(Live(s)) + Cardinality(Creating(s)) <= 1

\* A session whose token a logout deleted never gets another one, whichever
\* refreshes have found that token before.
LogoutIsFinal == \A s \in ended : Live(s) = {} /\ Creating(s) = {}

\* A session nobody logged out of always gets back to a token, whichever of its
\* refreshes fail, unless the process dies between the delete and the create.
\* There is no room to refresh a session that begins with the last token.
SessionKept ==
    \A s \in 1 .. MaxTokens - 1 :
        []<>(s \in Sessions => Live(s) # {} \/ s \in ended \cup broken)

\* The cookie of a browser works: no order of replies, of several tabs that
\* refresh, log in and out at once, leaves it with a token that is gone.  Except
\* after a reply that never arrived, until the next one that does.
CookieWorks ==
    \A b \in Browser \ (lost \cup Waiting) :
        cookie[b] # None =>
            HasRow(cookie[b]) \/ tokens[cookie[b]].session \in ended
=============================================================================
