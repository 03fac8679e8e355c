------------------------------ MODULE Accounts ------------------------------
(***************************************************************************)
(* Accounts and sessions: registration, sign-in and sign-out as sequences  *)
(* of statements (internal/auth and the auth operations of the server),    *)
(* with the session library they use. A session is a row of the database;  *)
(* a request loads it when it starts and commits what it changed before it *)
(* answers. A name or an address is a word and the way it was typed.       *)
(***************************************************************************)
EXTENDS Integers, Sequences, Functions

CONSTANTS
  Nobody,
  Browsers, Requests,
  WellFormed, Reserved,   \* words that match the username rule, and those set apart
  Forms,                  \* what may be typed: [name, visible, email, password]
  MaxUsers, MaxTokens

ASSUME AccountsAssumption ==
  Nobody \notin Nat /\ MaxUsers \in Nat /\ MaxTokens \in Nat

VARIABLES
  user,      \* rows of "user", by id
  typed,     \* what each of them was registered with
  session,   \* rows of sessions: token -> user id
  over,      \* tokens whose session has ended, for the properties
  token,     \* the last one generated
  cookie,    \* of each browser
  shown,     \* the user whose profile the page of the browser holds
  req        \* requests being served

accountsVars == <<user, typed, session, over, token, cookie, shown, req>>

(********************************** names **********************************)

\* spaces around it go, then one leading at-sign, and case is folded
NormalizeUsername(n) ==
  [n EXCEPT !.padded = FALSE, !.at = IF @ = 0 THEN 0 ELSE @ - 1, !.upper = FALSE]

ValidateUsername(n) ==
  n.at = 0 /\ ~ n.upper /\ ~ n.padded /\ n.word \in WellFormed \ Reserved

NormalizeEmail(e) == [e EXCEPT !.padded = FALSE, !.upper = FALSE]

GetUserByEmail(e) == {u \in DOMAIN user : user[u].email = e}

GetUserByUsername(n) == {u \in DOMAIN user : user[u].username = n}

\* the user of these credentials; an unknown address costs a hash all the same
Login(email, password) ==
  {u \in GetUserByEmail(NormalizeEmail(email)) : user[u].password = password}

\* friends look one another up by the dictated name
Search(name) == GetUserByUsername(NormalizeUsername(name))

\* mutant: only the case of a name is folded
RowAsTyped(form) ==
  [username |-> [form.name EXCEPT !.upper = FALSE],
   email |-> form.email, password |-> form.password]

Row(form) ==
  [username |-> NormalizeUsername(form.name),
   email |-> NormalizeEmail(form.email), password |-> form.password]

(********************************* requests ********************************)

Drop(rs) == req' = [r \in Requests |-> IF r \in rs THEN Nobody ELSE req[r]]

End(r) == Drop({r})

\* the middleware finds the session of the cookie, if there still is one
Load(b) ==
  IF cookie[b] \in DOMAIN session THEN cookie[b] ELSE Nobody

\* whom that session is of, for the rest of the request
SessionUser(b) == IF Load(b) = Nobody THEN Nobody ELSE session[Load(b)]

Start(r, b, op, form, step) ==
  /\ req[r] = Nobody
  /\ req' = [req EXCEPT ![r] = [browser |-> b, op |-> op, form |-> form, step |-> step,
                                 token |-> Load(b), user |-> SessionUser(b)]]
  /\ UNCHANGED <<user, typed, session, over, token, cookie, shown>>

AskRegister(r, b, form) == Start(r, b, "register", form, "check")

AskLogin(r, b, form) == Start(r, b, "login", form, "check")

\* signing out and the profile are behind the session, unlike the other two
AskLogout(r, b) == Load(b) # Nobody /\ Start(r, b, "logout", Nobody, "destroy")

\* reads a row that never changes: all that is left is the answer
AskMe(r, b) == Load(b) # Nobody /\ Start(r, b, "me", Nobody, "answer")

At(r, op, step) == req[r] # Nobody /\ req[r].op = op /\ req[r].step = step

SignIn(r, u) == req' = [req EXCEPT ![r] = [@ EXCEPT !.step = "renew", !.user = u, !.form = Nobody]]

\* one insert; both names are unique
Register(r) ==
  /\ At(r, "register", "check")
  /\ LET form == req[r].form
         row  == Row(form)
     IN  \/ /\ ~ (ValidateUsername(NormalizeUsername(form.name)) /\ form.visible)
                 \/ GetUserByEmail(row.email) # {}
                 \/ GetUserByUsername(row.username) # {}
            /\ End(r) /\ UNCHANGED <<user, typed>>
         \/ /\ ValidateUsername(NormalizeUsername(form.name)) /\ form.visible
            /\ GetUserByEmail(row.email) = {} /\ GetUserByUsername(row.username) = {}
            /\ Len(user) < MaxUsers
            /\ user' = Append(user, row) /\ typed' = Append(typed, form)
            /\ SignIn(r, Len(user) + 1)
  /\ UNCHANGED <<session, over, token, cookie, shown>>

CheckLogin(r) ==
  /\ At(r, "login", "check")
  /\ LET found == Login(req[r].form.email, req[r].form.password)
     IN  \/ found = {} /\ End(r)
         \/ \E u \in found : SignIn(r, u)
  /\ UNCHANGED <<user, typed, session, over, token, cookie, shown>>

Delete(t) ==
  /\ session' = Restrict(session, DOMAIN session \ {t})
  /\ over' = over \cup ({t} \cap DOMAIN session)

\* mutant: the session that is there is signed in
RenewTokenNot(r) ==
  /\ token < MaxTokens
  /\ IF req[r].token = Nobody
     THEN /\ token' = token + 1
          /\ req' = [req EXCEPT ![r] = [@ EXCEPT !.token = token + 1, !.step = "commit"]]
     ELSE /\ req' = [req EXCEPT ![r] = [@ EXCEPT !.step = "commit"]] /\ UNCHANGED token
  /\ UNCHANGED <<session, over>>

\* the old session is deleted at once, the new one is written with the answer
RenewToken(r) ==
  /\ token < MaxTokens
  /\ Delete(req[r].token)
  /\ token' = token + 1
  /\ req' = [req EXCEPT ![r] = [@ EXCEPT !.token = token + 1, !.step = "commit"]]

Renew(r) ==
  /\ req[r] # Nobody /\ req[r].step = "renew" /\ RenewToken(r)
  /\ UNCHANGED <<user, typed, cookie, shown>>

Commit(r) ==
  /\ req[r] # Nobody /\ req[r].step = "commit"
  /\ session' = [t \in DOMAIN session \cup {req[r].token} |->
                   IF t = req[r].token THEN req[r].user ELSE session[t]]
  /\ req' = [req EXCEPT ![r] = [@ EXCEPT !.step = "answer"]]
  /\ UNCHANGED <<user, typed, over, token, cookie, shown>>

Destroy(r) ==
  /\ At(r, "logout", "destroy")
  /\ Delete(req[r].token)
  /\ req' = [req EXCEPT ![r] = [@ EXCEPT !.step = "answer", !.token = Nobody, !.user = Nobody]]
  /\ UNCHANGED <<user, typed, token, cookie, shown>>

\* mutant: the page keeps waiting for what it asked in the old session
KeptQueries(b) == {}

\* profiles asked for and not answered yet, which qc.clear() gives up
Queries(b) == {r \in Requests : req[r] # Nobody /\ req[r].op = "me" /\ req[r].browser = b}

\* answers may overtake one another; this one changes the session
Answer(r) ==
  /\ req[r] # Nobody /\ req[r].step = "answer" /\ req[r].op # "me"
  /\ cookie' = [cookie EXCEPT ![req[r].browser] = req[r].token]
  /\ shown' = [shown EXCEPT ![req[r].browser] = req[r].user]
  /\ Drop({r} \cup Queries(req[r].browser))
  /\ UNCHANGED <<user, typed, session, over, token>>

\* a profile the page still waits for, of the session as it was when asked
AnswerMe(r) ==
  /\ At(r, "me", "answer")
  /\ shown' = [shown EXCEPT ![req[r].browser] = req[r].user]
  /\ End(r)
  /\ UNCHANGED <<user, typed, session, over, token, cookie>>

\* a failed statement, a restart or a broken connection: no answer arrives
Fail(r) ==
  /\ req[r] # Nobody /\ End(r)
  /\ UNCHANGED <<user, typed, session, over, token, cookie, shown>>

Expire(t) ==
  /\ Delete(t)
  /\ UNCHANGED <<user, typed, token, cookie, shown, req>>

(******************************* specification *****************************)

AccountsTypeOK ==
  /\ DOMAIN user = DOMAIN typed /\ DOMAIN user \subseteq 1..MaxUsers
  /\ DOMAIN session \subseteq 1..token /\ Range(session) \subseteq DOMAIN user
  /\ over \subseteq 1..token /\ token \in 0..MaxTokens
  /\ cookie \in [Browsers -> (1..token) \cup {Nobody}]
  /\ shown \in [Browsers -> DOMAIN user \cup {Nobody}]

AccountsInit ==
  /\ user = <<>> /\ typed = <<>>
  /\ session = [t \in {} |-> Nobody] /\ over = {} /\ token = 0
  /\ cookie = [b \in Browsers |-> Nobody] /\ shown = [b \in Browsers |-> Nobody]
  /\ req = [r \in Requests |-> Nobody]

AccountsNext ==
  \/ \E r \in Requests, b \in Browsers :
       \/ \E form \in Forms : AskRegister(r, b, form) \/ AskLogin(r, b, form)
       \/ AskLogout(r, b) \/ AskMe(r, b)
  \/ \E r \in Requests :
       \/ Register(r) \/ CheckLogin(r) \/ Renew(r) \/ Commit(r)
       \/ Destroy(r) \/ Answer(r) \/ AnswerMe(r) \/ Fail(r)
  \/ \E t \in DOMAIN session : Expire(t)

AccountsSpec == AccountsInit /\ [][AccountsNext]_accountsVars

(******************************** properties *******************************)

\* The profile on the page is the one the server acts for: a browser whose cookie
\* still opens a session is served as the user its page holds, and one that was
\* answered a sign-out is not served, whichever sign-ins, sign-outs and questions
\* for the profile raced, came late or never got their answer.
ServedAsShown ==
  \A b \in Browsers : cookie[b] \in DOMAIN session => session[cookie[b]] = shown[b]

\* A token stands for one user from its commit to its end, and a session that was
\* signed out, replaced or expired never comes back, whatever was in flight.
TokensStayTrue ==
  [][/\ \A t \in DOMAIN session \cap DOMAIN session' : session'[t] = session[t]
     /\ DOMAIN session' \cap over = {}]_accountsVars

\* "Anna must not become a second account beside anna": no two accounts were
\* registered under names or addresses that differ only in spelling.
OneAccountPerPerson ==
  \A u, v \in DOMAIN user : u # v =>
    /\ NormalizeUsername(typed[u].name) # NormalizeUsername(typed[v].name)
    /\ NormalizeEmail(typed[u].email) # NormalizeEmail(typed[v].email)

\* Whoever registered gets in with any spelling of the address, and is found under
\* any spelling of the name, also when the registration itself broke after the
\* insert and its retry is told that the address is taken.
AnySpellingFinds ==
  \A u \in DOMAIN user, form \in Forms :
    /\ NormalizeEmail(form.email) = NormalizeEmail(typed[u].email) =>
         Login(form.email, typed[u].password) = {u}
    /\ NormalizeUsername(form.name) = NormalizeUsername(typed[u].name) =>
         Search(form.name) = {u}

\* A person is one account, however the name and the address are spelled.
PeopleAreOne == OneAccountPerPerson /\ AnySpellingFinds
=============================================================================
