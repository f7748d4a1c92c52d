--------------------------- MODULE SessionsProofs ---------------------------
(***************************************************************************)
(* Proofs about Sessions, for any number of requests, browsers, users and  *)
(* tokens.                                                                 *)
(***************************************************************************)
EXTENDS Sessions, SequenceTheorems, FiniteSetTheorems, TLAPS

(* The calls that carry a token, the ones between the delete and the create *)
(* of a refresh, and the ones whose reply brings a new token.               *)
Visiting(r) == calls[r] # None /\ calls[r].call \in {"login", "refresh", "logout"}
Is(r, call, step) == Visiting(r) /\ calls[r].call = call /\ calls[r].step = step
Renewing(r) == Is(r, "refresh", "create")
Fresh(r) == Is(r, "login", "reply") \/ Is(r, "refresh", "reply")
SessionOf(r) == tokens[calls[r].token].session

(* What a call carries was issued; a refresh creates after it has deleted.  *)
CallsOK ==
    \A r \in Request : Visiting(r) =>
        /\ calls[r].token \in Ids \cup {None}
        /\ calls[r].call = "login" => calls[r].user \in User
        /\ calls[r].token = None => Is(r, "login", "create") \/ Is(r, "logout", "reply")
        /\ Renewing(r) => ~HasRow(calls[r].token)

(* The session of the next login is a new one.                              *)
Numbered ==
    /\ \A t \in Ids : tokens[t].session <= Len(tokens)
    /\ \A s \in ended : s <= Len(tokens)

(* A session has one token or one call that is about to create it, not both. *)
OneHolder ==
    /\ \A t, u \in Ids :
          HasRow(t) /\ HasRow(u) /\ tokens[t].session = tokens[u].session => t = u
    /\ \A r \in Request, t \in Ids :
          Renewing(r) /\ tokens[t].session = SessionOf(r) => ~HasRow(t)
    /\ \A r, q \in Request :
          Renewing(r) /\ Renewing(q) /\ SessionOf(r) = SessionOf(q) => r = q

EndedClosed ==
    /\ \A t \in Ids : tokens[t].session \in ended => ~HasRow(t)
    /\ \A r \in Request : Renewing(r) => SessionOf(r) \notin ended

(* Until the reply arrives nobody else has the new token.                   *)
FreshOK ==
    \A r \in Request : Fresh(r) =>
       /\ HasRow(calls[r].token)
       /\ \A b \in Browser : cookie[b] # calls[r].token
       /\ \A q \in Request \ {r} : Visiting(q) => calls[q].token # calls[r].token

(* A token is known to one browser only.                                    *)
SameBrowser ==
    /\ \A b, c \in Browser : cookie[b] # None /\ cookie[b] = cookie[c] => b = c
    /\ \A r \in Request, b \in Browser :
          Visiting(r) /\ calls[r].token = cookie[b] /\ cookie[b] # None
          => b = calls[r].browser
    /\ \A r, q \in Request :
          /\ Visiting(r) /\ Visiting(q)
          /\ calls[r].token = calls[q].token /\ calls[q].token # None
          => calls[r].browser = calls[q].browser

(* The refresh that made a cookie useless is going to replace it.           *)
CookieCovered ==
    \A b \in Browser \ lost : cookie[b] # None =>
       \/ HasRow(cookie[b])
       \/ tokens[cookie[b]].session \in ended
       \/ \E r \in Request : /\ Renewing(r) \/ Is(r, "refresh", "reply")
                             /\ calls[r].browser = b

TokensInductive ==
    /\ CallsOK
    /\ Numbered
    /\ OneHolder
    /\ EndedClosed
    /\ FreshOK
    /\ SameBrowser
    /\ CookieCovered

(* The merchant of the next registration is a new one.                      *)
MerchantsOK ==
    /\ NoOwnerlessMerchant
    /\ \A u \in User : users[u] # None /\ users[u].role = "OWNER" =>
          users[u].merchant \in 1 .. merchants

SessionsInductive == TypeOK /\ TokensInductive /\ MerchantsOK

-----------------------------------------------------------------------------
(* Types. *)

LEMMA CallTyped ==
    ASSUME TypeOK, NEW r \in Request, calls[r] # None
    PROVE  /\ calls[r] \in Call
           /\ Visiting(r) =>
                 /\ calls[r].browser \in Browser
                 /\ calls[r].token \in Nat \cup {None}
                 /\ calls[r].step \in {"find", "delete", "create", "reply"}
                 /\ \A step \in {"find", "delete", "create", "reply"} :
                       [calls[r] EXCEPT !.step = step] \in Call
                 /\ \A step \in {"find", "delete", "create", "reply"}, t \in Nat :
                       [calls[r] EXCEPT !.step = step, !.token = t] \in Call
           /\ ~Visiting(r) =>
                 /\ calls[r].call \in {"register", "create user"}
                 /\ calls[r].user \in User
                 /\ calls[r].call = "create user" => calls[r].merchant \in Nat
BY DEF TypeOK, Visiting, Call

LEMMA TokenTyped ==
    ASSUME TypeOK
    PROVE  /\ Ids = 1 .. Len(tokens)
           /\ Len(tokens) \in Nat
           /\ \A t \in Ids : tokens[t] \in Token /\ tokens[t].session \in Nat
                             /\ tokens[t].user \in User
<1>1. tokens \in Seq(Token)
  BY DEF TypeOK
<1>2. /\ Ids = 1 .. Len(tokens)
      /\ Len(tokens) \in Nat
      /\ \A t \in Ids : tokens[t] \in Token
  BY <1>1, LenProperties, ElementOfSeq DEF Ids
<1>3. QED
  BY <1>2 DEF Token

LEMMA InitSessions == Init => SessionsInductive
<1> SUFFICES ASSUME Init PROVE SessionsInductive
  OBVIOUS
<1>1. TypeOK
  BY EmptySeq DEF Init, TypeOK
<1>2. TokensInductive
  <2>1. /\ Ids = {}
        /\ ended = {}
        /\ \A b \in Browser : cookie[b] = None
        /\ \A r \in Request : ~Visiting(r)
    BY DEF Init, Ids, Visiting
  <2>2. Numbered /\ OneHolder /\ EndedClosed
    BY <2>1 DEF Numbered, OneHolder, EndedClosed, Renewing, Is
  <2>3. CallsOK /\ FreshOK /\ SameBrowser /\ CookieCovered
    BY <2>1 DEF CallsOK, FreshOK, SameBrowser, CookieCovered, Fresh, Is
  <2>4. QED
    BY <2>2, <2>3 DEF TokensInductive
<1>3. MerchantsOK
  BY DEF Init, MerchantsOK, NoOwnerlessMerchant
<1>4. QED
  BY <1>1, <1>2, <1>3 DEF SessionsInductive

-----------------------------------------------------------------------------
(* Steps that touch no token and no cookie: the calls of accounts, and those *)
(* that end a visit or only move it on.                                      *)

LEMMA Unmoved ==
    ASSUME TokensInductive,
           UNCHANGED <<tokens, cookie, ended>>,
           lost \subseteq lost',
           \A r \in Request : Visiting(r)' =>
               /\ Visiting(r)
               /\ calls'[r].call = calls[r].call
               /\ calls'[r].browser = calls[r].browser
               /\ calls'[r].user = calls[r].user
               /\ calls'[r].token = calls[r].token
               /\ calls'[r].step # calls[r].step =>
                     calls[r].step = "find" /\ calls'[r].step = "delete",
           \A r \in Request :
               (Renewing(r) \/ Is(r, "refresh", "reply")) =>
                   \/ (Renewing(r) \/ Is(r, "refresh", "reply"))' /\ UNCHANGED calls[r].browser
                   \/ calls[r].browser \in lost'
    PROVE  TokensInductive'
<1> USE DEF TokensInductive
<1>1. UNCHANGED Ids /\ \A t \in Ids : HasRow(t)' = HasRow(t)
  BY DEF Ids, HasRow
<1>2. ASSUME NEW r \in Request
      PROVE  /\ Renewing(r)' => Renewing(r) /\ UNCHANGED SessionOf(r)
             /\ Fresh(r)' => Fresh(r)
  BY DEF Renewing, Fresh, Is, SessionOf
<1>3. CallsOK'
  <2> SUFFICES ASSUME NEW r \in Request, Visiting(r)'
               PROVE  /\ calls'[r].token \in Ids \cup {None}
                      /\ calls'[r].call = "login" => calls'[r].user \in User
                      /\ calls'[r].token = None =>
                            (Is(r, "login", "create") \/ Is(r, "logout", "reply"))'
                      /\ Renewing(r)' => ~HasRow(calls[r].token)
    BY <1>1 DEF CallsOK, HasRow
  <2>1. QED
    BY <1>1, <1>2 DEF CallsOK, Is
<1>4. Numbered'
  BY <1>1 DEF Numbered
<1>5. OneHolder'
  BY <1>1, <1>2 DEF OneHolder
<1>6. EndedClosed'
  BY <1>1, <1>2 DEF EndedClosed
<1>7. FreshOK'
  BY <1>2 DEF FreshOK, HasRow, Fresh, Is
<1>8. SameBrowser'
  BY DEF SameBrowser
<1>9. CookieCovered'
  <2> SUFFICES ASSUME NEW b \in Browser \ lost', cookie[b] # None,
                      ~HasRow(cookie[b]), tokens[cookie[b]].session \notin ended
               PROVE  \E r \in Request : /\ (Renewing(r) \/ Is(r, "refresh", "reply"))'
                                         /\ calls'[r].browser = b
    BY DEF CookieCovered, HasRow
  <2>1. PICK r \in Request : /\ Renewing(r) \/ Is(r, "refresh", "reply")
                             /\ calls[r].browser = b
    BY DEF CookieCovered
  <2>2. QED
    BY <2>1
<1>10. QED
  BY <1>3, <1>4, <1>5, <1>6, <1>7, <1>8, <1>9

(* Request r is the only one whose call changes.                            *)
LEMMA OthersSame ==
    ASSUME TypeOK, NEW r \in Request, NEW c, calls' = [calls EXCEPT ![r] = c]
    PROVE  /\ calls'[r] = c
           /\ \A q \in Request \ {r} :
                 /\ calls'[q] = calls[q]
                 /\ Visiting(q)' = Visiting(q)
                 /\ Renewing(q)' = Renewing(q)
                 /\ Fresh(q)' = Fresh(q)
                 /\ Is(q, "refresh", "reply")' = Is(q, "refresh", "reply")
<1>1. calls'[r] = c /\ \A q \in Request \ {r} : calls'[q] = calls[q]
  BY DEF TypeOK
<1>2. QED
  BY <1>1 DEF Visiting, Is, Renewing, Fresh

(* A visit of r ends, or r was not about tokens at all.                     *)
LEMMA EndOfCall ==
    ASSUME TypeOK, TokensInductive, NEW r \in Request, NEW c,
           calls' = [calls EXCEPT ![r] = c],
           c = None \/ c.call \in {"register", "create user"},
           Renewing(r) \/ Is(r, "refresh", "reply") => calls[r].browser \in lost',
           UNCHANGED <<tokens, cookie, ended>>,
           lost \subseteq lost'
    PROVE  TokensInductive'
<1>1. ~Visiting(r)'
  BY OthersSame DEF Visiting
<1>2. \A q \in Request : Visiting(q)' => Visiting(q) /\ calls'[q] = calls[q]
  BY <1>1, OthersSame
<1>3. \A q \in Request : Renewing(q) \/ Is(q, "refresh", "reply") =>
         \/ (Renewing(q) \/ Is(q, "refresh", "reply"))' /\ UNCHANGED calls[q].browser
         \/ calls[q].browser \in lost'
  BY OthersSame
<1>4. QED
  BY <1>2, <1>3, Unmoved

(* r goes on from find to delete.                                           *)
LEMMA MoveOn ==
    ASSUME TypeOK, TokensInductive, NEW r \in Request, Is(r, "refresh", "find"),
           calls' = [calls EXCEPT ![r].step = "delete"],
           UNCHANGED <<tokens, cookie, ended, lost>>
    PROVE  TokensInductive'
<1> DEFINE c == [calls[r] EXCEPT !.step = "delete"]
<1>1. calls[r] \in Call
  BY CallTyped DEF Is, Visiting
<1>2. calls' = [calls EXCEPT ![r] = c]
  OBVIOUS
<1>3. /\ c.call = calls[r].call
      /\ c.browser = calls[r].browser
      /\ c.user = calls[r].user
      /\ c.token = calls[r].token
      /\ c.step = "delete"
  BY <1>1 DEF Call, Is, Visiting
<1> HIDE DEF c
<1>4. \A q \in Request : Visiting(q)' =>
               /\ Visiting(q)
               /\ calls'[q].call = calls[q].call
               /\ calls'[q].browser = calls[q].browser
               /\ calls'[q].user = calls[q].user
               /\ calls'[q].token = calls[q].token
               /\ calls'[q].step # calls[q].step =>
                     calls[q].step = "find" /\ calls'[q].step = "delete"
  <2>1. /\ calls'[r] = c
        /\ \A q \in Request \ {r} : calls'[q] = calls[q] /\ Visiting(q)' = Visiting(q)
    BY <1>2, OthersSame
  <2>2. Visiting(r) /\ calls[r].step = "find"
    BY DEF Is
  <2>3. QED
    BY <1>3, <2>1, <2>2
<1>5. ~Renewing(r) /\ ~Is(r, "refresh", "reply")
  BY DEF Renewing, Is
<1>6. \A q \in Request : Renewing(q) \/ Is(q, "refresh", "reply") =>
         (Renewing(q) \/ Is(q, "refresh", "reply"))' /\ UNCHANGED calls[q].browser
  BY <1>2, <1>5, OthersSame
<1>7. QED
  BY <1>4, <1>6, Unmoved

-----------------------------------------------------------------------------
(* Accounts. *)

LEMMA RegisterSessions ==
    ASSUME SessionsInductive, NEW r \in Request, Register(r) \/ CreateUser(r)
    PROVE  SessionsInductive'
<1> USE DEF SessionsInductive
<1>1. PICK c \in Call : Receive(r, c) /\ c.call \in {"register", "create user"}
  <2>1. CASE Register(r)
    <3>1. PICK u \in User :
             Receive(r, [call |-> "register", user |-> u, step |-> "insert"])
      BY <2>1 DEF Register
    <3> DEFINE c == [call |-> "register", user |-> u, step |-> "insert"]
    <3>2. c \in Call /\ c.call = "register"
      BY DEF Call
    <3> HIDE DEF c
    <3>3. QED
      BY <3>1, <3>2 DEF c
  <2>2. CASE CreateUser(r)
    <3>1. PICK u \in User, o \in User :
             /\ users[o] # None
             /\ Receive(r, [call |-> "create user", user |-> u,
                            merchant |-> users[o].merchant, step |-> "insert"])
      BY <2>2 DEF CreateUser, IsOwner
    <3>2. users[o].merchant \in Nat
      BY <3>1 DEF TypeOK, Account
    <3> DEFINE c == [call |-> "create user", user |-> u,
                     merchant |-> users[o].merchant, step |-> "insert"]
    <3>3. c \in Call /\ c.call = "create user"
      BY <3>2 DEF Call
    <3> HIDE DEF c
    <3>4. QED
      BY <3>1, <3>3 DEF c
  <2>3. QED
    BY <2>1, <2>2
<1>2. TypeOK'
  BY <1>1 DEF TypeOK, Receive, Ids
<1>3. ~Visiting(r)
  BY <1>1 DEF Receive, Visiting
<1>4. TokensInductive'
  BY <1>1, <1>3, EndOfCall DEF Receive, Renewing, Is
<1>5. MerchantsOK'
  BY <1>1 DEF Receive, MerchantsOK, NoOwnerlessMerchant, Owners
<1>6. QED
  BY <1>2, <1>4, <1>5

LEMMA InsertSessions ==
    ASSUME SessionsInductive, NEW r \in Request, Insert(r)
    PROVE  SessionsInductive'
<1> DEFINE u == calls[r].user
           row == NewAccount(calls[r])
<1> USE DEF SessionsInductive
<1>1. /\ ~Visiting(r)
      /\ u \in User
      /\ calls[r].call = "create user" => calls[r].merchant \in Nat
      /\ calls[r].call \in {"register", "create user"}
  BY CallTyped DEF Insert, At, Visiting
<1>2. merchants \in Nat
  BY DEF TypeOK
<1>3. row \in Account /\ row # None
  <2>1. PICK m \in Nat, role \in {"OWNER", "STAFF"} :
           row = [merchant |-> m, role |-> role, active |-> TRUE]
    <3>1. CASE calls[r].call = "register"
      <4>1. row = [merchant |-> merchants + 1, role |-> "OWNER", active |-> TRUE]
        BY <3>1 DEF NewAccount
      <4>2. merchants + 1 \in Nat
        BY <1>2
      <4>3. QED
        BY <4>1, <4>2
    <3>2. CASE calls[r].call = "create user"
      BY <1>1, <3>2 DEF NewAccount
    <3>3. QED
      BY <1>1, <3>1, <3>2
  <2>2. TRUE \in BOOLEAN
    OBVIOUS
  <2> HIDE DEF row
  <2>3. row \in Account
    BY <2>1, <2>2 DEF Account
  <2>4. QED
    BY <2>3, NoneAssumption
<1>4. /\ UNCHANGED <<tokens, cookie, ended, broken, lost>>
      /\ calls' = [calls EXCEPT ![r] = None]
  BY DEF Insert, Fail
<1>5. \/ UNCHANGED <<users, merchants>>
      \/ /\ users[u] = None
         /\ users' = [users EXCEPT ![u] = row]
         /\ \/ row.role = "OWNER" /\ row.merchant = merchants + 1 /\ merchants' = merchants + 1
            \/ row.role # "OWNER" /\ merchants' = merchants
  BY DEF Insert, NewAccount
<1> HIDE DEF row, u
<1>6. TypeOK'
  <2>1. users' \in [User -> Account \cup {None}] /\ merchants' \in Nat
    BY <1>2, <1>3, <1>5 DEF TypeOK
  <2>2. QED
    BY <1>4, <2>1 DEF TypeOK, Ids
<1>7. TokensInductive'
  BY <1>1, <1>4, EndOfCall DEF Renewing, Is
<1>8. MerchantsOK'
  <2>1. CASE UNCHANGED <<users, merchants>>
    BY <2>1 DEF MerchantsOK, NoOwnerlessMerchant, Owners
  <2>2. CASE /\ users[u] = None
             /\ users' = [users EXCEPT ![u] = row]
             /\ \/ row.role = "OWNER" /\ row.merchant = merchants + 1 /\ merchants' = merchants + 1
                \/ row.role # "OWNER" /\ merchants' = merchants
    <3>1. users'[u] = row /\ \A v \in User \ {u} : users'[v] = users[v]
      BY <1>1, <2>2 DEF TypeOK
    <3>2. ASSUME NEW m \in 1 .. merchants PROVE Owners(m)' = Owners(m)
      <4>1. ASSUME row.role = "OWNER" PROVE row.merchant # m
        BY <1>2, <2>2, <4>1
      <4>2. u \notin Owners(m) /\ u \notin Owners(m)'
        BY <2>2, <3>1, <4>1 DEF Owners
      <4>3. \A v \in User \ {u} : v \in Owners(m)' <=> v \in Owners(m)
        BY <3>1 DEF Owners
      <4>4. QED
        BY <4>2, <4>3 DEF Owners
    <3>3. ASSUME row.role = "OWNER", NEW m, m = merchants + 1 PROVE Owners(m)' = {u}
      <4>1. row.merchant = m
        BY <2>2, <3>3
      <4>2. \A v \in User \ {u} : v \notin Owners(m)'
        BY <1>2, <3>1, <3>3 DEF Owners, MerchantsOK
      <4>3. u \in Owners(m)'
        BY <1>1, <1>3, <3>1, <3>3, <4>1 DEF Owners
      <4>4. QED
        BY <4>2, <4>3 DEF Owners
    <3>4. ASSUME NEW m \in 1 .. merchants' PROVE \E v \in User : Owners(m)' = {v}
      <4>1. CASE m \in 1 .. merchants
        BY <3>2, <4>1 DEF MerchantsOK, NoOwnerlessMerchant
      <4>2. CASE m \notin 1 .. merchants
        <5>1. row.role = "OWNER" /\ m = merchants + 1
          BY <1>2, <2>2, <3>4, <4>2
        <5>2. Owners(m)' = {u}
          BY <3>3, <5>1
        <5>3. QED
          BY <1>1, <5>2
      <4>3. QED
        BY <4>1, <4>2
    <3>5. \A v \in User : users'[v] # None /\ users'[v].role = "OWNER" =>
             users'[v].merchant \in 1 .. merchants'
      BY <1>2, <2>2, <3>1 DEF MerchantsOK
    <3>6. QED
      BY <3>4, <3>5 DEF MerchantsOK, NoOwnerlessMerchant
  <2>3. QED
    BY <1>5, <2>1, <2>2
<1>9. QED
  BY <1>6, <1>7, <1>8

LEMMA UpdateStatusSessions ==
    ASSUME SessionsInductive, NEW o \in User, NEW u \in User, UpdateStatus(o, u)
    PROVE  SessionsInductive'
<1> USE DEF SessionsInductive
<1>1. /\ UNCHANGED <<merchants, tokens, cookie, calls, ended, broken, lost>>
      /\ users[u] # None
      /\ users' = [users EXCEPT ![u] = [users[u] EXCEPT !.active = ~users[u].active]]
  BY DEF UpdateStatus
<1>2. users[u] \in Account
  BY <1>1 DEF TypeOK
<1>3. /\ users'[u] \in Account
      /\ users'[u].role = users[u].role
      /\ users'[u].merchant = users[u].merchant
  BY <1>1, <1>2 DEF Account, TypeOK
<1>4. TypeOK'
  BY <1>1, <1>3 DEF TypeOK, Ids
<1>5. TokensInductive'
  BY <1>1, Unmoved DEF Renewing, Is, Visiting
<1>6. MerchantsOK'
  <2>1. users'[u] # None /\ \A v \in User \ {u} : users'[v] = users[v]
    BY <1>1, <1>3, NoneAssumption DEF TypeOK
  <2>2. \A m : Owners(m)' = Owners(m)
    BY <1>1, <1>3, <2>1 DEF Owners
  <2>3. QED
    BY <1>1, <1>3, <2>1, <2>2 DEF MerchantsOK, NoOwnerlessMerchant
<1>7. QED
  BY <1>4, <1>5, <1>6

-----------------------------------------------------------------------------
(* Sessions: calls that begin and calls that end. *)

(* A call begins with a token of its browser, or a login with none.         *)
LEMMA BeginVisit ==
    ASSUME SessionsInductive, NEW r \in Request, NEW c \in Call, Receive(r, c),
           c.call \in {"login", "refresh", "logout"}, c.browser \in Browser,
           c.call = "login" => c.step = "create" /\ c.token = None /\ c.user \in User,
           c.call = "refresh" => c.step = "find" /\ c.token # None,
           c.token = None => c.step # "delete",
           c.call = "logout" => c.step \in {"reply", "delete"},
           c.token \in {None, cookie[c.browser]}
    PROVE  SessionsInductive'
<1> USE DEF SessionsInductive, TokensInductive
<1>1. /\ UNCHANGED <<users, merchants, tokens, cookie, ended, broken, lost>>
      /\ calls' = [calls EXCEPT ![r] = c]
      /\ calls[r] = None
  BY DEF Receive
<1>2. /\ calls'[r] = c
      /\ \A q \in Request \ {r} : /\ calls'[q] = calls[q]
                                  /\ Visiting(q)' = Visiting(q)
                                  /\ Renewing(q)' = Renewing(q)
                                  /\ Fresh(q)' = Fresh(q)
                                  /\ Is(q, "refresh", "reply")' = Is(q, "refresh", "reply")
  BY <1>1, OthersSame
<1>3. ~Renewing(r)' /\ ~Fresh(r)' /\ ~Visiting(r)
  BY <1>1, <1>2 DEF Renewing, Fresh, Is, Visiting
<1>4. cookie[c.browser] \in Ids \cup {None}
  BY DEF TypeOK
<1>5. TypeOK'
  BY <1>1 DEF TypeOK, Ids
<1>6. \A t \in Ids : HasRow(t)' = HasRow(t)
  BY <1>1 DEF HasRow
<1>7. CallsOK'
  <2>1. ASSUME NEW q \in Request \ {r}, Visiting(q)'
        PROVE  /\ calls'[q].token \in Ids \cup {None}
               /\ calls'[q].call = "login" => calls'[q].user \in User
               /\ calls'[q].token = None =>
                     \/ calls'[q].call = "login" /\ calls'[q].step = "create"
                     \/ calls'[q].call = "logout" /\ calls'[q].step = "reply"
               /\ Renewing(q)' => ~HasRow(calls'[q].token)
    BY <1>2, <2>1 DEF CallsOK, Is
  <2>2. /\ calls'[r].token \in Ids \cup {None}
        /\ calls'[r].call = "login" => calls'[r].user \in User
        /\ calls'[r].token = None =>
                     \/ calls'[r].call = "login" /\ calls'[r].step = "create"
                     \/ calls'[r].call = "logout" /\ calls'[r].step = "reply"
    BY <1>2, <1>4
  <2>3. ASSUME NEW q \in Request, Visiting(q)'
        PROVE  /\ calls'[q].token \in Ids' \cup {None}
               /\ calls'[q].call = "login" => calls'[q].user \in User
               /\ calls'[q].token = None =>
                     (Is(q, "login", "create") \/ Is(q, "logout", "reply"))'
               /\ Renewing(q)' => ~HasRow(calls[q].token)'
    <3>1. Ids' = Ids
      BY <1>1 DEF Ids
    <3>2. Renewing(q)' => ~HasRow(calls[q].token)'
      BY <1>1, <1>2, <1>3, <2>1, <2>3 DEF HasRow
    <3>3. QED
      BY <2>1, <2>2, <2>3, <3>1, <3>2 DEF Is
  <2>4. QED
    BY <2>3 DEF CallsOK
<1>8. Numbered'
  BY <1>1 DEF Numbered, Ids
<1>9. OneHolder' /\ EndedClosed'
  BY <1>1, <1>2, <1>3 DEF OneHolder, EndedClosed, Ids, HasRow, SessionOf
<1>10. FreshOK'
  <2> SUFFICES ASSUME NEW q \in Request, Fresh(q)'
               PROVE  /\ HasRow(calls[q].token)
                      /\ \A b \in Browser : cookie[b] # calls[q].token
                      /\ \A x \in Request \ {q} :
                            Visiting(x)' => calls'[x].token # calls[q].token
    BY <1>1, <1>2, <1>3 DEF FreshOK, HasRow
  <2>1. Fresh(q) /\ q # r
    BY <1>2, <1>3
  <2>2. calls[q].token # None
    BY <2>1 DEF CallsOK, Fresh, Is
  <2>3. QED
    BY <1>2, <2>1, <2>2 DEF FreshOK
<1>11. SameBrowser'
  <2>1. ASSUME NEW q \in Request \ {r}, Visiting(q), calls[q].token = c.token, c.token # None
        PROVE  calls[q].browser = c.browser
    BY <2>1 DEF SameBrowser
  <2>2. ASSUME NEW b \in Browser, c.token = cookie[b], c.token # None
        PROVE  b = c.browser
    BY <2>2 DEF SameBrowser
  <2>3. QED
    BY <1>1, <1>2, <2>1, <2>2 DEF SameBrowser
<1>12. CookieCovered'
  BY <1>1, <1>2, <1>3 DEF CookieCovered, HasRow, Renewing, Is
<1>13. MerchantsOK'
  BY <1>1 DEF MerchantsOK, NoOwnerlessMerchant, Owners
<1>14. QED
  BY <1>5, <1>7, <1>8, <1>9, <1>10, <1>11, <1>12, <1>13

LEMMA LoginSessions ==
    ASSUME SessionsInductive, NEW r \in Request, Login(r)
    PROVE  SessionsInductive'
<1>1. PICK b \in Browser, u \in User :
         Receive(r, [call |-> "login", browser |-> b, user |-> u,
                     token |-> None, step |-> "create"])
  BY DEF Login
<1> DEFINE c == [call |-> "login", browser |-> b, user |-> u,
                 token |-> None, step |-> "create"]
<1>2. /\ c \in Call /\ c.call = "login" /\ c.browser \in Browser
      /\ c.step = "create" /\ c.token = None /\ c.user \in User
  BY DEF Call
<1> HIDE DEF c
<1>3. Receive(r, c)
  BY <1>1 DEF c
<1>4. QED
  BY <1>2, <1>3, BeginVisit

LEMMA SendSessions ==
    ASSUME SessionsInductive, NEW r \in Request, Send(r)
    PROVE  SessionsInductive'
<1>1. PICK b \in Browser, call \in {"refresh", "logout"} :
         /\ call = "refresh" => cookie[b] # None
         /\ Receive(r, [call |-> call, browser |-> b, user |-> None, token |-> cookie[b],
                        step |-> IF call = "refresh" THEN "find"
                                 ELSE IF cookie[b] = None THEN "reply" ELSE "delete"])
  BY DEF Send
<1> DEFINE c == [call |-> call, browser |-> b, user |-> None, token |-> cookie[b],
                 step |-> IF call = "refresh" THEN "find"
                          ELSE IF cookie[b] = None THEN "reply" ELSE "delete"]
<1>2. cookie[b] \in Nat \cup {None}
  BY DEF SessionsInductive, TypeOK, Ids
<1>3. /\ c \in Call /\ c.call = call /\ c.browser = b /\ c.token = cookie[b]
      /\ c.step = IF call = "refresh" THEN "find"
                  ELSE IF cookie[b] = None THEN "reply" ELSE "delete"
  BY <1>2 DEF Call
<1> HIDE DEF c
<1>4. Receive(r, c)
  BY <1>1 DEF c
<1>5. QED
  BY <1>1, <1>3, <1>4, BeginVisit

LEMMA AtIs ==
    ASSUME NEW r \in Request, NEW call \in {"login", "refresh", "logout"}, NEW step
    PROVE  At(r, {call}, step) = Is(r, call, step)
BY DEF At, Is, Visiting

LEMMA FindTokenSessions ==
    ASSUME SessionsInductive, NEW r \in Request, FindToken(r)
    PROVE  SessionsInductive'
<1> USE DEF SessionsInductive
<1>1. /\ Is(r, "refresh", "find")
      /\ UNCHANGED <<users, merchants, tokens, cookie, ended, broken, lost>>
      /\ \/ calls' = [calls EXCEPT ![r].step = "delete"]
         \/ calls' = [calls EXCEPT ![r] = None]
  BY AtIs DEF FindToken, Goto, Fail
<1>2. [calls[r] EXCEPT !.step = "delete"] \in Call
  BY <1>1, CallTyped DEF Is, Visiting
<1>3. TypeOK'
  BY <1>1, <1>2 DEF TypeOK, Ids
<1>4. TokensInductive'
  <2>1. ~Renewing(r) /\ ~Is(r, "refresh", "reply")
    BY <1>1 DEF Renewing, Is
  <2>2. QED
    BY <1>1, <2>1, EndOfCall, MoveOn
<1>5. MerchantsOK'
  BY <1>1 DEF MerchantsOK, NoOwnerlessMerchant, Owners
<1>6. QED
  BY <1>3, <1>4, <1>5

LEMMA LoseReplySessions ==
    ASSUME SessionsInductive, NEW r \in Request, LoseReply(r)
    PROVE  SessionsInductive'
<1> USE DEF SessionsInductive
<1>1. /\ Visiting(r)
      /\ UNCHANGED <<users, merchants, tokens, cookie, ended, broken>>
      /\ calls' = [calls EXCEPT ![r] = None]
      /\ lost' = lost \cup {calls[r].browser}
  BY DEF LoseReply, Replying, At, Visiting, Fail
<1>2. TypeOK'
  <2>1. calls[r].browser \in Browser
    BY <1>1, CallTyped DEF Visiting
  <2>2. QED
    BY <1>1, <2>1 DEF TypeOK, Ids
<1>3. TokensInductive'
  BY <1>1, EndOfCall
<1>4. MerchantsOK'
  BY <1>1 DEF MerchantsOK, NoOwnerlessMerchant, Owners
<1>5. QED
  BY <1>2, <1>3, <1>4

LEMMA CrashSessions ==
    ASSUME SessionsInductive, Crash
    PROVE  SessionsInductive'
<1> USE DEF SessionsInductive
<1>1. /\ UNCHANGED <<users, merchants, tokens, cookie, ended>>
      /\ calls' = [r \in Request |-> None]
      /\ lost' = lost \cup Waiting
      /\ broken' = broken \cup {s \in Sessions : Creating(s) # {}}
  BY DEF Crash
<1>2. TypeOK'
  <2>1. Waiting \subseteq Browser
    BY DEF Waiting
  <2>2. Sessions \subseteq Nat
    BY TokenTyped DEF Sessions
  <2>3. QED
    BY <1>1, <2>1, <2>2 DEF TypeOK, Ids
<1>3. \A r \in Request : Visiting(r) => calls[r].browser \in lost'
  <2>1. SUFFICES ASSUME NEW r \in Request, Visiting(r)
                 PROVE  calls[r].browser \in Waiting
    BY <1>1
  <2>2. calls[r] \in Call /\ calls[r].browser \in Browser
    BY <2>1, CallTyped DEF Visiting
  <2>3. "browser" \in DOMAIN calls[r]
    BY <2>1, <2>2 DEF Call, Visiting
  <2>4. QED
    BY <2>1, <2>2, <2>3 DEF Waiting, Visiting
<1>4. TokensInductive'
  <2>1. \A r \in Request : ~Visiting(r)'
    BY <1>1 DEF Visiting
  <2>2. \A r \in Request :
           Renewing(r) \/ Is(r, "refresh", "reply") => calls[r].browser \in lost'
    BY <1>3 DEF Renewing, Is
  <2>3. QED
    BY <1>1, <2>1, <2>2, Unmoved
<1>5. MerchantsOK'
  BY <1>1 DEF MerchantsOK, NoOwnerlessMerchant, Owners
<1>6. QED
  BY <1>2, <1>4, <1>5
-----------------------------------------------------------------------------
(* Sessions: the statements that change tokens and cookies. *)

(* A token changes its state and nothing else.                              *)
LEMMA StateChange ==
    ASSUME TypeOK, NEW t \in Ids, NEW x \in {"live", "expired", "gone"},
           tokens' = [tokens EXCEPT ![t].state = x]
    PROVE  /\ tokens' \in Seq(Token)
           /\ Ids' = Ids
           /\ Len(tokens') = Len(tokens)
           /\ \A u \in Ids : /\ tokens'[u].session = tokens[u].session
                             /\ HasRow(u)' = IF u = t THEN x # "gone" ELSE HasRow(u)
           /\ tokens[t].state = x => tokens' = tokens
<1> DEFINE row == [tokens[t] EXCEPT !.state = x]
<1>1. /\ tokens \in Seq(Token)
      /\ tokens[t] \in Token
      /\ t \in 1 .. Len(tokens)
  BY TokenTyped DEF TypeOK
<1>2. tokens' = [tokens EXCEPT ![t] = row]
  OBVIOUS
<1>3. /\ row \in Token
      /\ row.session = tokens[t].session
      /\ row.state = x
      /\ tokens[t].state = x => row = tokens[t]
  BY <1>1 DEF Token
<1> HIDE DEF row
<1>4. /\ tokens' \in Seq(Token)
      /\ Len(tokens') = Len(tokens)
      /\ Ids' = Ids
  BY <1>1, <1>2, <1>3, ExceptSeq DEF Ids
<1>5. \A u \in Ids : tokens'[u] = IF u = t THEN row ELSE tokens[u]
  BY <1>2 DEF Ids
<1>6. ASSUME tokens[t].state = x
      PROVE  tokens' = tokens
  <2>1. row = tokens[t]
    BY <1>3, <1>6
  <2>2. \A u \in 1 .. Len(tokens) : tokens'[u] = tokens[u]
    BY <1>1, <1>5, <2>1 DEF Ids
  <2>3. QED
    BY <1>1, <1>4, <2>2, SeqEqual
<1>7. QED
  BY <1>3, <1>4, <1>5, <1>6 DEF HasRow

LEMMA DeleteOldTokenSessions ==
    ASSUME SessionsInductive, NEW r \in Request, DeleteOldToken(r)
    PROVE  SessionsInductive'
<1> DEFINE t == calls[r].token
           c == [calls[r] EXCEPT !.step = "create"]
<1> USE DEF SessionsInductive, TokensInductive
<1>1. /\ Is(r, "refresh", "delete") /\ Visiting(r)
      /\ UNCHANGED <<users, merchants, cookie, ended, broken, lost>>
      /\ tokens' = [tokens EXCEPT ![t].state = "gone"]
      /\ \/ HasRow(t) /\ calls' = [calls EXCEPT ![r] = c]
         \/ ~HasRow(t) /\ calls' = [calls EXCEPT ![r] = None]
  BY AtIs DEF DeleteOldToken, Delete, Goto, Fail, Is
<1>2. t \in Ids
  BY <1>1 DEF CallsOK, Is
<1>3. /\ c \in Call
      /\ c.call = "refresh" /\ c.step = "create"
      /\ c.token = t /\ c.browser = calls[r].browser
  <2>1. calls[r] \in Call /\ calls[r].call = "refresh"
    BY <1>1, CallTyped DEF Is, Visiting
  <2>2. QED
    BY <2>1 DEF Call
<1> HIDE DEF t, c
<1>4. /\ tokens' \in Seq(Token)
      /\ Ids' = Ids
      /\ Len(tokens') = Len(tokens)
      /\ \A u \in Ids : /\ tokens'[u].session = tokens[u].session
                        /\ HasRow(u)' = (u # t /\ HasRow(u))
      /\ ~HasRow(t) => tokens' = tokens
  <2>1. ("gone" # "gone") = FALSE
    OBVIOUS
  <2>2. QED
    BY <1>1, <1>2, <2>1, StateChange DEF HasRow
<1>5. TypeOK'
  BY <1>1, <1>3, <1>4 DEF TypeOK
<1>6. MerchantsOK'
  BY <1>1 DEF MerchantsOK, NoOwnerlessMerchant, Owners
<1>7. ~Renewing(r) /\ ~Is(r, "refresh", "reply") /\ ~Fresh(r)
  BY <1>1 DEF Renewing, Fresh, Is
<1>8. CASE ~HasRow(t)
  <2>1. tokens' = tokens
    BY <1>1, <1>2, <1>8, StateChange DEF HasRow
  <2>2. QED
    <3>1. calls' = [calls EXCEPT ![r] = None]
      BY <1>1, <1>8
    <3>2. TokensInductive'
      BY <1>1, <1>7, <2>1, <3>1, EndOfCall
    <3>3. QED
      BY <1>5, <1>6, <3>2
<1>9. CASE HasRow(t)
  <2>1. calls' = [calls EXCEPT ![r] = c]
    BY <1>1, <1>9
  <2>2. /\ calls'[r] = c
        /\ \A q \in Request \ {r} :
              /\ calls'[q] = calls[q]
              /\ Visiting(q)' = Visiting(q)
              /\ Renewing(q)' = Renewing(q)
              /\ Fresh(q)' = Fresh(q)
              /\ Is(q, "refresh", "reply")' = Is(q, "refresh", "reply")
    BY <2>1, OthersSame
  <2>3. /\ Visiting(r)' /\ Renewing(r)' /\ ~Fresh(r)'
        /\ calls'[r].token = t /\ calls'[r].browser = calls[r].browser
    BY <1>3, <2>2, NoneAssumption DEF Visiting, Renewing, Fresh, Is
  <2>4. /\ Ids' = Ids
        /\ Len(tokens') = Len(tokens)
        /\ \A u \in Ids : /\ tokens'[u].session = tokens[u].session
                          /\ HasRow(u)' = (u # t /\ HasRow(u))
    BY <1>4
  <2>5. \A q \in Request : Visiting(q)' => calls'[q].token = calls[q].token
    BY <2>2, <2>3 DEF t
  <2>6. CallsOK'
    <3>1. ASSUME NEW q \in Request \ {r}, Visiting(q)'
          PROVE  /\ calls'[q].token \in Ids' \cup {None}
                 /\ calls'[q].call = "login" => calls'[q].user \in User
                 /\ calls'[q].token = None =>
                       (Is(q, "login", "create") \/ Is(q, "logout", "reply"))'
                 /\ Renewing(q)' => ~HasRow(calls[q].token)'
      <4>1. Visiting(q) /\ calls'[q] = calls[q] /\ Renewing(q)' = Renewing(q)
        BY <2>2, <3>1
      <4>2. Renewing(q) => calls[q].token # None
        BY DEF Renewing, Is, CallsOK
      <4>3. Renewing(q)' => ~HasRow(calls[q].token)'
        BY <2>4, <4>1, <4>2 DEF CallsOK, HasRow
      <4>4. QED
        BY <2>4, <3>1, <4>1, <4>3 DEF CallsOK, Is
    <3>2. /\ calls'[r].token \in Ids'
          /\ calls'[r].call = "refresh"
          /\ ~HasRow(calls[r].token)'
      BY <1>2, <1>3, <2>2, <2>3, <2>4 DEF HasRow
    <3>3. calls'[r].token # None /\ calls'[r].call # "login"
      BY <1>2, <1>3, <2>2, <2>3, BoundsAssumption, TokenTyped
    <3>4. QED
      BY <3>1, <3>2, <3>3 DEF CallsOK
  <2>7. Numbered'
    BY <1>1, <2>4 DEF Numbered
  <2>8. OneHolder'
    <3>1. \A u, v \in Ids :
             HasRow(u)' /\ HasRow(v)' /\ tokens'[u].session = tokens'[v].session => u = v
      BY <2>4 DEF OneHolder
    <3>2. ASSUME NEW q \in Request, Renewing(q)'
          PROVE  /\ SessionOf(q)' = SessionOf(q)
                 /\ q # r => Renewing(q)
                 /\ q = r => SessionOf(q) = tokens[t].session
      BY <1>2, <2>2, <2>3, <2>4, <3>2 DEF CallsOK, Renewing, Is, SessionOf, t
    <3>3. ASSUME NEW q \in Request, Renewing(q)', NEW u \in Ids,
                 tokens'[u].session = SessionOf(q)'
          PROVE  ~HasRow(u)'
      BY <1>2, <1>9, <2>4, <3>2, <3>3 DEF OneHolder
    <3>4. ASSUME NEW q \in Request, NEW x \in Request, Renewing(q)', Renewing(x)',
                 SessionOf(q)' = SessionOf(x)'
          PROVE  q = x
      BY <1>2, <1>9, <3>2, <3>4 DEF OneHolder
    <3>5. QED
      BY <2>4, <3>1, <3>3, <3>4 DEF OneHolder
  <2>9. EndedClosed'
    BY <1>1, <1>2, <1>9, <2>2, <2>3, <2>4 DEF EndedClosed, SessionOf, HasRow, OneHolder, t
  <2>10. FreshOK'
    BY <1>1, <1>2, <2>2, <2>3, <2>4 DEF FreshOK, HasRow, CallsOK, t
  <2>11. SameBrowser'
    BY <1>1, <2>2, <2>3 DEF SameBrowser, t
  <2>12. CookieCovered'
    BY <1>1, <1>2, <1>7, <2>2, <2>3, <2>4 DEF CookieCovered, SameBrowser, TypeOK, HasRow, t
  <2>13. QED
    BY <1>5, <1>6, <2>6, <2>7, <2>8, <2>9, <2>10, <2>11, <2>12
<1>10. QED
  BY <1>8, <1>9

LEMMA LogoutSessions ==
    ASSUME SessionsInductive, NEW r \in Request, Logout(r)
    PROVE  SessionsInductive'
<1> DEFINE t == calls[r].token
           c == [calls[r] EXCEPT !.step = "reply"]
<1> USE DEF SessionsInductive, TokensInductive
<1>1. /\ Is(r, "logout", "delete") /\ Visiting(r)
      /\ UNCHANGED <<users, merchants, cookie, broken, lost>>
      /\ tokens' = [tokens EXCEPT ![t].state = "gone"]
      /\ calls' = [calls EXCEPT ![r] = c]
      /\ ended' = IF HasRow(t) THEN ended \cup {tokens[t].session} ELSE ended
  BY AtIs DEF Logout, Delete, Goto, Is
<1>2. t \in Ids
  BY <1>1 DEF CallsOK, Is
<1>3. /\ c \in Call
      /\ c.call = "logout" /\ c.step = "reply"
      /\ c.token = t /\ c.browser = calls[r].browser
  <2>1. calls[r] \in Call /\ calls[r].call = "logout"
    BY <1>1, CallTyped DEF Is, Visiting
  <2>2. QED
    BY <2>1 DEF Call
<1> HIDE DEF t, c
<1>4. /\ tokens' \in Seq(Token)
      /\ Ids' = Ids
      /\ Len(tokens') = Len(tokens)
      /\ \A u \in Ids : /\ tokens'[u].session = tokens[u].session
                        /\ HasRow(u)' = (u # t /\ HasRow(u))
  <2>1. ("gone" # "gone") = FALSE
    OBVIOUS
  <2>2. QED
    BY <1>1, <1>2, <2>1, StateChange DEF HasRow
<1>5. tokens[t].session \in Nat /\ tokens[t].session <= Len(tokens)
  BY <1>2, TokenTyped DEF Numbered
<1>6. TypeOK'
  BY <1>1, <1>3, <1>4, <1>5 DEF TypeOK
<1>7. /\ calls'[r] = c
      /\ \A q \in Request \ {r} :
            /\ calls'[q] = calls[q]
            /\ Visiting(q)' = Visiting(q)
            /\ Renewing(q)' = Renewing(q)
            /\ Fresh(q)' = Fresh(q)
            /\ Is(q, "refresh", "reply")' = Is(q, "refresh", "reply")
  BY <1>1, OthersSame
<1>8. /\ Visiting(r)' /\ ~Renewing(r)' /\ ~Fresh(r)'
      /\ ~Renewing(r) /\ ~Is(r, "refresh", "reply")
      /\ calls'[r].token = t /\ calls'[r].browser = calls[r].browser
  BY <1>1, <1>3, <1>7, NoneAssumption DEF Visiting, Renewing, Fresh, Is
<1>9. ASSUME NEW q \in Request, Renewing(q)'
      PROVE  /\ q # r /\ Renewing(q)
             /\ calls[q].token \in Ids
             /\ SessionOf(q)' = SessionOf(q)
  BY <1>4, <1>7, <1>8, <1>9 DEF CallsOK, Renewing, Is, SessionOf
<1>10. CallsOK'
  <2>1. ASSUME NEW q \in Request \ {r}, Visiting(q)'
        PROVE  /\ calls'[q].token \in Ids' \cup {None}
               /\ calls'[q].call = "login" => calls'[q].user \in User
               /\ calls'[q].token = None =>
                     (Is(q, "login", "create") \/ Is(q, "logout", "reply"))'
               /\ Renewing(q)' => ~HasRow(calls[q].token)'
    <3>1. Visiting(q) /\ calls'[q] = calls[q]
      BY <1>7, <2>1
    <3>2. Renewing(q)' => ~HasRow(calls[q].token)'
      BY <1>4, <1>9, <3>1 DEF CallsOK, HasRow
    <3>3. QED
      BY <1>4, <2>1, <3>1, <3>2 DEF CallsOK, Is
  <2>2. calls'[r].token \in Ids' /\ calls'[r].call = "logout"
    BY <1>2, <1>3, <1>4, <1>7, <1>8
  <2>3. calls'[r].token # None /\ calls'[r].call # "login"
    BY <1>4, <2>2, BoundsAssumption, TokenTyped
  <2>4. QED
    BY <1>8, <2>1, <2>2, <2>3 DEF CallsOK
<1>11. Numbered'
  BY <1>1, <1>4, <1>5 DEF Numbered
<1>12. OneHolder'
  BY <1>4, <1>9 DEF OneHolder
<1>13. EndedClosed'
  <2>1. ASSUME NEW u \in Ids, tokens[u].session \in ended'
        PROVE  ~HasRow(u)'
    BY <1>1, <1>2, <1>4, <2>1 DEF EndedClosed, OneHolder
  <2>2. ASSUME NEW q \in Request, Renewing(q)'
        PROVE  SessionOf(q)' \notin ended'
    BY <1>1, <1>2, <1>9, <2>2 DEF EndedClosed, OneHolder
  <2>3. QED
    BY <1>4, <2>1, <2>2 DEF EndedClosed
<1>14. FreshOK'
  BY <1>1, <1>2, <1>4, <1>7, <1>8 DEF FreshOK, HasRow, CallsOK, t
<1>15. SameBrowser'
  BY <1>1, <1>7, <1>8 DEF SameBrowser, t
<1>16. CookieCovered'
  BY <1>1, <1>2, <1>4, <1>7, <1>8 DEF CookieCovered, TypeOK, HasRow
<1>17. MerchantsOK'
  BY <1>1 DEF MerchantsOK, NoOwnerlessMerchant, Owners
<1>18. QED
  BY <1>6, <1>10, <1>11, <1>12, <1>13, <1>14, <1>15, <1>16, <1>17

LEMMA CreateNewTokenSessions ==
    ASSUME SessionsInductive, NEW r \in Request, CreateNewToken(r)
    PROVE  SessionsInductive'
<1> DEFINE n == Len(tokens) + 1
           row == [session |-> Owner(r).session, user |-> Owner(r).user, state |-> "live"]
           c == [calls[r] EXCEPT !.step = "reply", !.token = n]
           s == Owner(r).session
<1> USE DEF SessionsInductive, TokensInductive
<1>1. /\ Visiting(r) /\ calls[r].step = "create"
      /\ calls[r].call \in {"login", "refresh"}
      /\ UNCHANGED <<users, merchants, cookie, ended, broken, lost>>
      /\ tokens' = Append(tokens, row)
      /\ calls' = [calls EXCEPT ![r].step = "reply", ![r].token = n]
  BY DEF CreateNewToken, At, Visiting
<1>2. calls' = [calls EXCEPT ![r] = c]
  BY <1>1, CallTyped DEF TypeOK
<1>3. n \in Nat /\ n \notin Ids /\ n # None
  BY TokenTyped, BoundsAssumption
<1>4. /\ c \in Call
      /\ c.call = calls[r].call /\ c.step = "reply"
      /\ c.token = n /\ c.browser = calls[r].browser
      /\ c.call = "login" => c.user \in User
  <2>1. calls[r] \in Call
    BY <1>1, CallTyped DEF Visiting
  <2>2. calls[r].call = "login" => calls[r].user \in User
    BY <1>1 DEF CallsOK
  <2>3. QED
    BY <1>1, <1>3, <2>1, <2>2 DEF Call
<1>5. /\ row \in Token /\ row.session = s /\ row.state # "gone"
      /\ s <= n
      /\ \A t \in Ids : tokens[t].session = s => ~HasRow(t)
      /\ s \notin ended
      /\ \A q \in Request : Renewing(q) => SessionOf(q) # s \/ q = r
  <2>1. CASE calls[r].call = "login"
    <3>1. s = n /\ Owner(r).user \in User
      BY <1>1, <2>1 DEF Owner, CallsOK
    <3>2. row \in Token /\ row.session = s /\ row.state # "gone"
      BY <1>3, <3>1 DEF Token
    <3>3. \A t \in Ids : tokens[t].session # n
      BY TokenTyped DEF Numbered
    <3>4. n \notin ended
      BY TokenTyped DEF Numbered, TypeOK
    <3>5. \A q \in Request : Renewing(q) => SessionOf(q) # n
      BY <3>3 DEF CallsOK, SessionOf, Renewing, Is
    <3>6. QED
      BY <1>3, <3>1, <3>2, <3>3, <3>4, <3>5
  <2>2. CASE calls[r].call = "refresh"
    <3>1. Renewing(r) /\ calls[r].token \in Ids
      BY <1>1, <2>2 DEF Renewing, Is, CallsOK
    <3>2. s = SessionOf(r) /\ s \in Nat /\ Owner(r).user \in User /\ s <= Len(tokens)
      BY <2>2, <3>1, TokenTyped DEF Owner, SessionOf, Numbered
    <3>3. row \in Token /\ row.session = s /\ row.state # "gone"
      BY <3>2 DEF Token
    <3>4. QED
      BY <3>1, <3>2, <3>3, TokenTyped DEF OneHolder, EndedClosed
  <2>3. QED
    BY <1>1, <2>1, <2>2
<1> HIDE DEF n, row, c, s
<1>6. /\ tokens' \in Seq(Token)
      /\ Ids' = Ids \cup {n}
      /\ Len(tokens') = n
      /\ \A t \in Ids : tokens'[t] = tokens[t] /\ HasRow(t)' = HasRow(t)
      /\ tokens'[n] = row /\ tokens'[n].state # "gone"
  <2>1. tokens \in Seq(Token)
    BY DEF TypeOK
  <2>2. /\ tokens' \in Seq(Token)
        /\ Len(tokens') = n
        /\ \A t \in 1 .. Len(tokens) : tokens'[t] = tokens[t]
        /\ tokens'[n] = row
    BY <1>1, <1>5, <2>1, AppendProperties DEF n
  <2>3. Ids' = 1 .. n
    BY <2>2, LenProperties DEF Ids
  <2>4. QED
    <3>1. Ids' = Ids \cup {n} /\ n \notin Ids
      BY <2>3, TokenTyped DEF n
    <3>2. \A t \in Ids : tokens'[t] = tokens[t]
      BY <2>2, TokenTyped
    <3>3. QED
      BY <1>5, <2>2, <3>1, <3>2 DEF HasRow
<1>7. TypeOK'
  BY <1>1, <1>2, <1>4, <1>6 DEF TypeOK
<1>8. /\ calls'[r] = c
      /\ \A q \in Request \ {r} :
            /\ calls'[q] = calls[q]
            /\ Visiting(q)' = Visiting(q)
            /\ Renewing(q)' = Renewing(q)
            /\ Fresh(q)' = Fresh(q)
            /\ Is(q, "refresh", "reply")' = Is(q, "refresh", "reply")
  BY <1>2, OthersSame
<1>9. /\ Visiting(r)' /\ ~Renewing(r)'
      /\ ~Fresh(r)
      /\ calls'[r].token = n /\ calls'[r].browser = calls[r].browser
      /\ Renewing(r) => Is(r, "refresh", "reply")'
  BY <1>1, <1>4, <1>8, NoneAssumption DEF Visiting, Renewing, Fresh, Is
<1>10. ASSUME NEW q \in Request, Renewing(q)'
       PROVE  /\ q # r /\ Renewing(q)
              /\ calls[q].token \in Ids
              /\ SessionOf(q)' = SessionOf(q)
  BY <1>6, <1>8, <1>9, <1>10 DEF CallsOK, Renewing, Is, SessionOf
<1>11. CallsOK'
  <2>1. ASSUME NEW q \in Request \ {r}, Visiting(q)'
        PROVE  /\ calls'[q].token \in Ids' \cup {None}
               /\ calls'[q].call = "login" => calls'[q].user \in User
               /\ calls'[q].token = None =>
                     (Is(q, "login", "create") \/ Is(q, "logout", "reply"))'
               /\ Renewing(q)' => ~HasRow(calls[q].token)'
    <3>1. Visiting(q) /\ calls'[q] = calls[q]
      BY <1>8, <2>1
    <3>2. Renewing(q)' => ~HasRow(calls[q].token)'
      BY <1>6, <1>10, <3>1 DEF CallsOK, HasRow
    <3>3. QED
      BY <1>6, <2>1, <3>1, <3>2 DEF CallsOK, Is
  <2>2. /\ calls'[r].token \in Ids' /\ calls'[r].token # None
        /\ calls'[r].call = "login" => calls'[r].user \in User
    BY <1>3, <1>4, <1>6, <1>8, <1>9
  <2>3. QED
    BY <1>9, <2>1, <2>2 DEF CallsOK
<1>12. Numbered'
  <2>1. \A t \in Ids : tokens[t].session <= Len(tokens) /\ tokens[t].session \in Nat
    BY TokenTyped DEF Numbered
  <2>2. \A x \in ended : x \in Nat /\ x <= Len(tokens)
    BY DEF Numbered, TypeOK
  <2>3. QED
    BY <1>1, <1>5, <1>6, <2>1, <2>2, TokenTyped DEF Numbered, n
<1>13. OneHolder'
  <2>1. \A t, u \in Ids' : HasRow(t)' /\ HasRow(u)' /\ tokens'[t].session = tokens'[u].session
                           => t = u
    BY <1>5, <1>6 DEF OneHolder
  <2>2. ASSUME NEW q \in Request, Renewing(q)', NEW t \in Ids',
               tokens'[t].session = SessionOf(q)'
        PROVE  ~HasRow(t)'
    BY <1>5, <1>6, <1>10, <2>2 DEF OneHolder
  <2>3. QED
    BY <1>10, <2>1, <2>2 DEF OneHolder
<1>14. EndedClosed'
  BY <1>1, <1>5, <1>6, <1>10 DEF EndedClosed
<1>15. FreshOK'
  <2>1. ASSUME NEW q \in Request \ {r}, Fresh(q)'
        PROVE  /\ HasRow(calls[q].token)'
               /\ \A b \in Browser : cookie[b] # calls'[q].token
               /\ \A x \in Request \ {q} : Visiting(x)' => calls'[x].token # calls'[q].token
    <3>1. Fresh(q) /\ calls'[q] = calls[q]
      BY <1>8, <2>1
    <3>2. calls[q].token \in Ids
      BY <3>1 DEF CallsOK, Fresh, Is
    <3>3. HasRow(calls[q].token)'
      BY <1>6, <3>1, <3>2 DEF FreshOK, HasRow
    <3>4. \A x \in Request \ {q} : Visiting(x)' => calls'[x].token # calls[q].token
      BY <1>3, <1>8, <1>9, <3>1, <3>2 DEF FreshOK
    <3>5. QED
      <4>1. \A b \in Browser : cookie[b] # calls[q].token
        BY <3>1 DEF FreshOK
      <4>2. QED
        BY <3>1, <3>3, <3>4, <4>1
  <2>2. /\ HasRow(calls[r].token)'
        /\ \A b \in Browser : cookie[b] # calls'[r].token
        /\ \A x \in Request \ {r} : Visiting(x)' => calls'[x].token # calls'[r].token
    <3>1. HasRow(calls[r].token)'
      BY <1>6, <1>9 DEF HasRow
    <3>2. \A b \in Browser : cookie[b] # n
      BY <1>3 DEF TypeOK
    <3>3. \A x \in Request \ {r} : Visiting(x)' => calls'[x].token # n
      BY <1>3, <1>8 DEF CallsOK
    <3>4. QED
      BY <1>9, <3>1, <3>2, <3>3
  <2>3. QED
    <3>1. \A q \in Request : Fresh(q)' =>
             /\ HasRow(calls[q].token)'
             /\ \A b \in Browser : cookie[b] # calls'[q].token
             /\ \A x \in Request \ {q} : Visiting(x)' => calls'[x].token # calls'[q].token
      BY <2>1, <2>2
    <3>2. QED
      BY <1>1, <3>1 DEF FreshOK
<1>16. SameBrowser'
  <2>1. \A q \in Request \ {r} : Visiting(q) => calls[q].token # n
    BY <1>3 DEF CallsOK
  <2>2. \A b \in Browser : cookie[b] # n
    BY <1>3 DEF TypeOK
  <2>3. QED
    <3>1. cookie' = cookie
      BY <1>1
    <3>2. \A b, x \in Browser : cookie'[b] # None /\ cookie'[b] = cookie'[x] => b = x
      BY <3>1 DEF SameBrowser
    <3>3. \A q \in Request, b \in Browser :
             Visiting(q)' /\ calls'[q].token = cookie'[b] /\ cookie'[b] # None
             => b = calls'[q].browser
      BY <1>8, <1>9, <2>2, <3>1 DEF SameBrowser
    <3>4. \A q, x \in Request :
             /\ Visiting(q)' /\ Visiting(x)'
             /\ calls'[q].token = calls'[x].token /\ calls'[x].token # None
             => calls'[q].browser = calls'[x].browser
      BY <1>8, <1>9, <2>1 DEF SameBrowser
    <3>5. QED
      BY <3>2, <3>3, <3>4 DEF SameBrowser
<1>17. CookieCovered'
  <2> SUFFICES ASSUME NEW b \in Browser \ lost, cookie[b] # None,
                      ~HasRow(cookie[b]), tokens[cookie[b]].session \notin ended
               PROVE  \E q \in Request : /\ (Renewing(q) \/ Is(q, "refresh", "reply"))'
                                         /\ calls'[q].browser = b
    <3>1. \A b \in Browser : cookie[b] \in Ids \cup {None}
      BY DEF TypeOK
    <3>2. \A b \in Browser : cookie[b] # None =>
             /\ tokens'[cookie[b]] = tokens[cookie[b]]
             /\ HasRow(cookie[b]) <=> tokens'[cookie[b]].state # "gone"
      BY <1>6, <3>1 DEF HasRow
    <3>3. UNCHANGED <<cookie, lost, ended>>
      BY <1>1
    <3>4. \A b \in Browser \ lost : cookie[b] # None =>
             \/ tokens'[cookie[b]].state # "gone"
             \/ tokens'[cookie[b]].session \in ended
             \/ \E q \in Request : /\ (Renewing(q) \/ Is(q, "refresh", "reply"))'
                                   /\ calls'[q].browser = b
      BY <3>2
    <3>5. QED
      BY <3>3, <3>4 DEF CookieCovered, HasRow
  <2>1. PICK q \in Request : /\ Renewing(q) \/ Is(q, "refresh", "reply")
                             /\ calls[q].browser = b
    BY DEF CookieCovered
  <2>2. q = r => Renewing(r)
    BY <1>9, <2>1 DEF Fresh
  <2>3. QED
    BY <1>8, <1>9, <2>1, <2>2
<1>18. MerchantsOK'
  BY <1>1 DEF MerchantsOK, NoOwnerlessMerchant, Owners
<1>19. QED
  BY <1>7, <1>11, <1>12, <1>13, <1>14, <1>15, <1>16, <1>17, <1>18

LEMMA ReplySessions ==
    ASSUME SessionsInductive, NEW r \in Request, Reply(r)
    PROVE  SessionsInductive'
<1> DEFINE b == calls[r].browser
           x == IF calls[r].call = "logout" THEN None ELSE calls[r].token
<1> USE DEF SessionsInductive, TokensInductive
<1>1. /\ Visiting(r) /\ calls[r].step = "reply"
      /\ UNCHANGED <<users, merchants, tokens, ended, broken>>
      /\ calls' = [calls EXCEPT ![r] = None]
      /\ cookie' = [cookie EXCEPT ![b] = x]
      /\ lost' = lost \ {b}
  BY DEF Reply, Replying, At, Visiting, Fail
<1>2. b \in Browser
  BY <1>1, CallTyped DEF Visiting
<1>3. /\ x \in Ids \cup {None}
      /\ x # None => Fresh(r) /\ x = calls[r].token
  BY <1>1 DEF Fresh, CallsOK, Is, Visiting
<1> HIDE DEF b, x
<1>4. /\ cookie'[b] = x
      /\ \A a \in Browser \ {b} : cookie'[a] = cookie[a]
  BY <1>1, <1>2 DEF TypeOK
<1>5. TypeOK'
  BY <1>1, <1>2, <1>3 DEF TypeOK, Ids
<1>6. /\ calls'[r] = None /\ ~Visiting(r)' /\ ~Renewing(r)' /\ ~Fresh(r)'
      /\ \A q \in Request \ {r} :
            /\ calls'[q] = calls[q]
            /\ Visiting(q)' = Visiting(q)
            /\ Renewing(q)' = Renewing(q)
            /\ Fresh(q)' = Fresh(q)
            /\ Is(q, "refresh", "reply")' = Is(q, "refresh", "reply")
  BY <1>1, OthersSame DEF Visiting, Renewing, Fresh, Is
<1>7. Ids' = Ids /\ \A t \in Ids : HasRow(t)' = HasRow(t)
  BY <1>1 DEF Ids, HasRow
<1>8. CallsOK'
  <2> SUFFICES ASSUME NEW q \in Request \ {r}, Visiting(q)'
               PROVE  /\ calls'[q].token \in Ids \cup {None}
                      /\ calls'[q].call = "login" => calls'[q].user \in User
                      /\ calls'[q].token = None =>
                            (Is(q, "login", "create") \/ Is(q, "logout", "reply"))'
                      /\ Renewing(q)' => ~HasRow(calls[q].token)
    BY <1>1, <1>6, <1>7 DEF CallsOK, HasRow
  <2>1. QED
    BY <1>6 DEF CallsOK, Is
<1>9. Numbered'
  BY <1>1, <1>7 DEF Numbered
<1>10. \A q \in Request : Renewing(q)' => Renewing(q) /\ SessionOf(q)' = SessionOf(q)
  BY <1>1, <1>6 DEF SessionOf
<1>11. OneHolder' /\ EndedClosed'
  BY <1>1, <1>7, <1>10 DEF OneHolder, EndedClosed
<1>12. FreshOK'
  <2> SUFFICES ASSUME NEW q \in Request \ {r}, Fresh(q)'
               PROVE  /\ HasRow(calls[q].token)
                      /\ \A a \in Browser : cookie'[a] # calls[q].token
                      /\ \A z \in Request \ {q} : Visiting(z)' => calls[z].token # calls[q].token
    BY <1>1, <1>6 DEF FreshOK, HasRow
  <2>1. Fresh(q) /\ calls[q].token # None
    BY <1>6 DEF CallsOK, Fresh, Is
  <2>2. QED
    BY <1>1, <1>3, <1>4, <1>6, <2>1 DEF FreshOK
<1>13. SameBrowser'
  <2>1. /\ \A a \in Browser : x # None => cookie[a] # x
        /\ \A q \in Request \ {r} : x # None /\ Visiting(q) => calls[q].token # x
    BY <1>3 DEF FreshOK
  <2>2. QED
    BY <1>4, <1>6, <2>1 DEF SameBrowser
<1>14. CookieCovered'
  <2> SUFFICES ASSUME NEW a \in Browser \ lost', cookie'[a] # None,
                      ~HasRow(cookie'[a]), tokens[cookie'[a]].session \notin ended
               PROVE  \E q \in Request : /\ (Renewing(q) \/ Is(q, "refresh", "reply"))'
                                         /\ calls'[q].browser = a
    BY <1>1 DEF CookieCovered, HasRow
  <2>1. a # b
    BY <1>3, <1>4 DEF FreshOK
  <2>2. a \in Browser \ lost /\ cookie'[a] = cookie[a]
    BY <1>1, <1>4, <2>1
  <2>3. PICK q \in Request : /\ Renewing(q) \/ Is(q, "refresh", "reply")
                             /\ calls[q].browser = a
    BY <2>2 DEF CookieCovered
  <2>4. QED
    BY <1>6, <2>1, <2>3 DEF b
<1>15. MerchantsOK'
  BY <1>1 DEF MerchantsOK, NoOwnerlessMerchant, Owners
<1>16. QED
  BY <1>5, <1>8, <1>9, <1>11, <1>12, <1>13, <1>14, <1>15

LEMMA ExpireSessions ==
    ASSUME SessionsInductive, NEW t \in Ids, Expire(t)
    PROVE  SessionsInductive'
<1> USE DEF SessionsInductive, TokensInductive
<1>1. /\ UNCHANGED <<users, merchants, cookie, calls, ended, broken, lost>>
      /\ tokens' = [tokens EXCEPT ![t].state = "expired"]
      /\ HasRow(t)
  BY DEF Expire, HasRow
<1>2. /\ tokens' \in Seq(Token)
      /\ Ids' = Ids
      /\ Len(tokens') = Len(tokens)
      /\ \A u \in Ids : tokens'[u].session = tokens[u].session /\ HasRow(u)' = HasRow(u)
  <2>1. "expired" # "gone"
    OBVIOUS
  <2>2. QED
    BY <1>1, <2>1, StateChange DEF HasRow
<1>3. TypeOK'
  BY <1>1, <1>2 DEF TypeOK
<1>4. \A q \in Request : /\ Visiting(q)' = Visiting(q)
                         /\ Renewing(q)' = Renewing(q)
                         /\ Fresh(q)' = Fresh(q)
                         /\ Is(q, "refresh", "reply")' = Is(q, "refresh", "reply")
                         /\ Is(q, "login", "create")' = Is(q, "login", "create")
                         /\ Is(q, "logout", "reply")' = Is(q, "logout", "reply")
  BY <1>1 DEF Visiting, Renewing, Fresh, Is
<1>5. \A q \in Request : Renewing(q) => /\ calls[q].token \in Ids
                                        /\ SessionOf(q)' = SessionOf(q)
  BY <1>1, <1>2 DEF CallsOK, Renewing, Is, SessionOf
<1>6. CallsOK'
  BY <1>1, <1>2, <1>4, <1>5 DEF CallsOK, HasRow
<1>7. Numbered' /\ OneHolder' /\ EndedClosed'
  BY <1>1, <1>2, <1>4, <1>5 DEF Numbered, OneHolder, EndedClosed
<1>8. FreshOK'
  <2>1. \A q \in Request : Fresh(q) => calls[q].token \in Ids
    BY DEF CallsOK, Fresh, Is
  <2>2. QED
    BY <1>1, <1>2, <1>4, <2>1 DEF FreshOK, HasRow
<1>9. SameBrowser'
  BY <1>1, <1>4 DEF SameBrowser
<1>10. CookieCovered'
  BY <1>1, <1>2, <1>4 DEF CookieCovered, TypeOK, HasRow
<1>11. MerchantsOK'
  BY <1>1 DEF MerchantsOK, NoOwnerlessMerchant, Owners
<1>12. QED
  BY <1>3, <1>6, <1>7, <1>8, <1>9, <1>10, <1>11

-----------------------------------------------------------------------------
(* The theorems. *)

LEMMA NextSessions ==
    ASSUME SessionsInductive, [Next]_vars
    PROVE  SessionsInductive'
<1>1. ASSUME NEW r \in Request,
             \/ Register(r) \/ CreateUser(r) \/ Insert(r)
             \/ Login(r) \/ Send(r) \/ Rotate(r) \/ Logout(r)
             \/ Reply(r) \/ LoseReply(r)
      PROVE  SessionsInductive'
  BY <1>1, RegisterSessions, InsertSessions, LoginSessions, SendSessions,
     FindTokenSessions, DeleteOldTokenSessions, CreateNewTokenSessions,
     LogoutSessions, ReplySessions, LoseReplySessions DEF Rotate
<1>2. ASSUME NEW o \in User, NEW u \in User, UpdateStatus(o, u)
      PROVE  SessionsInductive'
  BY <1>2, UpdateStatusSessions
<1>3. ASSUME NEW t \in Ids, Expire(t)
      PROVE  SessionsInductive'
  BY <1>3, ExpireSessions
<1>4. CASE Crash
  BY <1>4, CrashSessions
<1>5. CASE UNCHANGED vars
  <2>1. UNCHANGED <<users, merchants, tokens, cookie, calls, ended, broken, lost>>
    BY <1>5 DEF vars
  <2>2. TypeOK' /\ MerchantsOK'
    BY <2>1 DEF SessionsInductive, TypeOK, MerchantsOK, NoOwnerlessMerchant, Owners, Ids
  <2>3. TokensInductive'
    BY <2>1, Unmoved DEF SessionsInductive, Renewing, Is, Visiting
  <2>4. QED
    BY <2>2, <2>3 DEF SessionsInductive
<1>6. QED
  BY <1>1, <1>2, <1>3, <1>4, <1>5 DEF Next

(* The inductive invariant of the sessions: what the calls under way still  *)
(* carry agrees with the tokens and the cookies.                            *)
THEOREM SessionsInvariant == Spec => []SessionsInductive
<1>1. Init => SessionsInductive
  BY InitSessions
<1>2. SessionsInductive /\ [Next]_vars => SessionsInductive'
  BY NextSessions
<1>3. QED
  BY <1>1, <1>2, PTL DEF Spec

(* Every user, token, cookie and call is of its type: a cookie names a token *)
(* that was issued.                                                         *)
THEOREM SessionsTyped == Spec => []TypeOK
<1>1. SessionsInductive => TypeOK
  BY DEF SessionsInductive
<1>2. QED
  BY <1>1, SessionsInvariant, PTL

(* Registrations of one address may overlap: the merchant of the one that   *)
(* fails is rolled back with its user.                                      *)
THEOREM SessionsOwners == Spec => []NoOwnerlessMerchant
<1>1. SessionsInductive => NoOwnerlessMerchant
  BY DEF SessionsInductive, MerchantsOK
<1>2. QED
  BY <1>1, SessionsInvariant, PTL

LEMMA AtMostOne ==
    ASSUME NEW S, \A x, y \in S : x = y
    PROVE  Cardinality(S) <= 1 /\ Cardinality(S) \in Nat /\ (S = {} => Cardinality(S) = 0)
<1>1. CASE S = {}
  BY <1>1, FS_EmptySet
<1>2. CASE S # {}
  <2>1. PICK x \in S : S = {x}
    BY <1>2
  <2>2. Cardinality(S) = 1
    BY <2>1, FS_Singleton
  <2>3. QED
    BY <1>2, <2>2
<1>3. QED
  BY <1>1, <1>2

(* A session never has two tokens that work, nor one and a refresh about to *)
(* issue another: of the refreshes of one token, the delete lets one pass.  *)
THEOREM SessionsOneToken == Spec => []OneLiveToken
<1>1. ASSUME SessionsInductive PROVE OneLiveToken
  <2> USE DEF SessionsInductive, TokensInductive
  <2> SUFFICES ASSUME NEW s \in Sessions
               PROVE  Cardinality(Live(s)) + Cardinality(Creating(s)) <= 1
    BY DEF OneLiveToken
  <2>1. \A t, u \in Live(s) : t = u
    BY <1>1 DEF Live, OneHolder
  <2>2. \A r \in Creating(s) : r \in Request /\ Renewing(r) /\ SessionOf(r) = s
    BY AtIs DEF Creating, Renewing, SessionOf
  <2>3. \A r, q \in Creating(s) : r = q
    BY <1>1, <2>2 DEF OneHolder
  <2>4. Creating(s) # {} => Live(s) = {}
    BY <1>1, <2>2 DEF Live, OneHolder
  <2>5. QED
    BY <2>1, <2>3, <2>4, AtMostOne
<1>2. QED
  BY <1>1, SessionsInvariant, PTL

(* A refresh that found the token before the logout deleted it cannot issue *)
(* another one: its own delete throws.                                      *)
THEOREM SessionsLogout == Spec => []LogoutIsFinal
<1>1. ASSUME SessionsInductive PROVE LogoutIsFinal
  <2> USE DEF SessionsInductive, TokensInductive
  <2> SUFFICES ASSUME NEW s \in ended
               PROVE  Live(s) = {} /\ Creating(s) = {}
    BY DEF LogoutIsFinal
  <2>1. Live(s) = {}
    BY <1>1 DEF Live, EndedClosed
  <2>2. \A r \in Creating(s) : r \in Request /\ Renewing(r) /\ SessionOf(r) = s
    BY AtIs DEF Creating, Renewing, SessionOf
  <2>3. QED
    BY <1>1, <2>1, <2>2 DEF EndedClosed
<1>2. QED
  BY <1>1, SessionsInvariant, PTL

(* Once no call of a browser is under way and the last reply arrived, its   *)
(* cookie names a token with a row, or one of a session that was ended.     *)
THEOREM SessionsCookie == Spec => []CookieWorks
<1>1. ASSUME SessionsInductive PROVE CookieWorks
  <2> USE DEF SessionsInductive, TokensInductive
  <2> SUFFICES ASSUME NEW b \in Browser \ (lost \cup Waiting), cookie[b] # None
               PROVE  HasRow(cookie[b]) \/ tokens[cookie[b]].session \in ended
    BY DEF CookieWorks
  <2>1. ASSUME NEW r \in Request, Visiting(r)
        PROVE  calls[r].browser # b
    <3>1. calls[r] \in Call /\ calls[r] # None
      BY <1>1, <2>1, CallTyped DEF Visiting
    <3>2. "browser" \in DOMAIN calls[r]
      BY <2>1, <3>1 DEF Call, Visiting
    <3>3. QED
      BY <3>1, <3>2 DEF Waiting
  <2>2. QED
    BY <1>1, <2>1 DEF CookieCovered, Renewing, Is
<1>2. QED
  BY <1>1, SessionsInvariant, PTL
=============================================================================
