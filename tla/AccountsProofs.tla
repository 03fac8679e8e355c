---------------------------- MODULE AccountsProofs ---------------------------
(***************************************************************************)
(* Whom the server acts for is whom the browser shows, for any number of   *)
(* browsers, requests, accounts and tokens; and accounts differ in more    *)
(* than the spelling of what was typed.                                    *)
(***************************************************************************)
EXTENDS Accounts, SequenceTheorems, TLAPS

Note ==
  [browser : Browsers, op : {"register", "login", "logout", "me"},
   form : Forms \cup {Nobody},
   step : {"check", "renew", "commit", "destroy", "answer"},
   token : Nat \cup {Nobody}, user : Nat \cup {Nobody}]

(******************************** accounts *********************************)

\* Every row is what its registration typed, made canonical, and no two agree in
\* either name.
RowsInv ==
  /\ typed \in Seq(Forms) /\ user \in Seq({Row(f) : f \in Forms})
  /\ Len(user) = Len(typed) /\ Len(user) <= MaxUsers
  /\ \A u \in 1..Len(user) : user[u] = Row(typed[u])
  /\ \A u, v \in 1..Len(user) : u # v =>
       user[u].email # user[v].email /\ user[u].username # user[v].username

\* Notes are notes, and a request that has not checked its form holds one.
NotesInv ==
  /\ req \in [Requests -> Note \cup {Nobody}]
  /\ \A r \in Requests :
       req[r] # Nobody /\ req[r].step = "check" => req[r].form \in Forms

LEMMA InitRows == AccountsInit => RowsInv /\ NotesInv
<1> SUFFICES ASSUME AccountsInit PROVE RowsInv /\ NotesInv
  OBVIOUS
<1>1. RowsInv
  BY AccountsAssumption DEF AccountsInit, RowsInv
<1>2. NotesInv
  BY DEF AccountsInit, NotesInv
<1>3. QED
  BY <1>1, <1>2

\* A load gives a token only if the cookie holds one.
LEMMA LoadType ==
  ASSUME NEW b \in Browsers, cookie[b] \in Nat \cup {Nobody}
  PROVE  /\ Load(b) \in Nat \cup {Nobody}
         /\ (\A t \in DOMAIN session : session[t] \in Nat) => SessionUser(b) \in Nat \cup {Nobody}
<1>1. Load(b) \in Nat \cup {Nobody} /\ (Load(b) # Nobody => Load(b) \in DOMAIN session)
  BY AccountsAssumption DEF Load
<1>2. QED
  BY <1>1 DEF SessionUser

\* What requests start from and turn into are notes.
LEMMA NotesStep ==
  ASSUME NotesInv, [AccountsNext]_accountsVars, token \in Nat, user \in Seq({Row(f) : f \in Forms}),
         \A b \in Browsers : cookie[b] \in Nat \cup {Nobody},
         \A t \in DOMAIN session : session[t] \in Nat
  PROVE  NotesInv'
<1>1. CASE UNCHANGED accountsVars
  BY <1>1 DEF NotesInv, accountsVars
<1>2. ASSUME NEW r \in Requests, NEW b \in Browsers, NEW form \in Forms \cup {Nobody},
             NEW op \in {"register", "login", "logout", "me"},
             NEW step \in {"check", "destroy", "answer"},
             step = "check" => form \in Forms, Start(r, b, op, form, step)
      PROVE  NotesInv'
  BY <1>2, LoadType DEF NotesInv, Start, Note
<1>3. ASSUME NEW r \in Requests, Register(r) \/ CheckLogin(r)
      PROVE  NotesInv'
  <2>1. End(r) => NotesInv'
    BY DEF NotesInv, End, Drop
  <2>2. ASSUME NEW u \in Nat, SignIn(r, u), req[r] # Nobody
        PROVE  NotesInv'
    <3> DEFINE n == [req[r] EXCEPT !.step = "renew", !.user = u, !.form = Nobody]
    <3>1. n \in Note /\ n.step = "renew"
      BY <2>2 DEF NotesInv, Note
    <3>2. req' = [req EXCEPT ![r] = n]
      BY <2>2 DEF SignIn, NotesInv
    <3> HIDE DEF n
    <3>3. QED
      BY <3>1, <3>2 DEF NotesInv
  <2>3. DOMAIN user \subseteq Nat /\ Len(user) + 1 \in Nat
    OBVIOUS
  <2>4. CASE Register(r)
    BY <2>1, <2>2, <2>3, <2>4 DEF Register, At
  <2>5. CASE CheckLogin(r)
    <3>1. Login(req[r].form.email, req[r].form.password) \subseteq Nat
      BY <2>3 DEF Login, GetUserByEmail
    <3>2. QED
      BY <2>1, <2>2, <2>5, <3>1 DEF CheckLogin, At
  <2>6. QED
    BY <1>3, <2>4, <2>5
<1>4. ASSUME NEW r \in Requests, Renew(r) \/ Commit(r) \/ Destroy(r)
      PROVE  NotesInv'
  <2>1. req[r] \in Note
    BY <1>4 DEF NotesInv, Renew, Commit, Destroy, At
  <2>2. \A n \in Note : n.step # "check" /\ req' = [req EXCEPT ![r] = n] => NotesInv'
    BY DEF NotesInv
  <2>3. CASE Renew(r)
    <3> DEFINE m == token + 1
               n == [req[r] EXCEPT !.token = m, !.step = "commit"]
    <3>0. m \in Nat
      OBVIOUS
    <3>1. n \in Note /\ n.step = "commit"
      <4> HIDE DEF m
      <4>1. QED
        BY <2>1, <3>0 DEF Note
    <3>2. req' = [req EXCEPT ![r] = n]
      BY <2>3 DEF Renew, RenewToken, NotesInv
    <3> HIDE DEF n
    <3>3. QED
      BY <2>2, <3>1, <3>2
  <2>4. CASE Commit(r)
    BY <2>1, <2>2, <2>4 DEF Commit, Note
  <2>5. CASE Destroy(r)
    BY <2>1, <2>2, <2>5 DEF Destroy, Note
  <2>6. QED
    BY <1>4, <2>3, <2>4, <2>5
<1>5. ASSUME NEW r \in Requests, Answer(r) \/ AnswerMe(r) \/ Fail(r)
      PROVE  NotesInv'
  BY <1>5 DEF NotesInv, Answer, AnswerMe, Fail, End, Drop
<1>6. ASSUME NEW t, Expire(t)
      PROVE  NotesInv'
  BY <1>6 DEF NotesInv, Expire
<1>7. QED
  BY <1>1, <1>2, <1>3, <1>4, <1>5, <1>6
     DEF AccountsNext, AskRegister, AskLogin, AskLogout, AskMe

\* Only a registration changes the accounts, and it adds one that is new.
LEMMA RowsStep ==
  ASSUME RowsInv, NotesInv, [AccountsNext]_accountsVars
  PROVE  RowsInv'
<1>1. CASE UNCHANGED <<user, typed>>
  BY <1>1 DEF RowsInv
<1>2. ASSUME NEW r \in Requests, Register(r), ~ UNCHANGED <<user, typed>>
      PROVE  RowsInv'
  <2> DEFINE form == req[r].form
             row == Row(form)
  <2>1. form \in Forms
    BY <1>2 DEF NotesInv, Register, At
  <2>2. /\ user' = Append(user, row) /\ typed' = Append(typed, form)
        /\ GetUserByEmail(row.email) = {} /\ GetUserByUsername(row.username) = {}
        /\ Len(user) < MaxUsers
    BY <1>2 DEF Register
  <2>3. user \in Seq({Row(f) : f \in Forms}) /\ typed \in Seq(Forms) /\ Len(user) = Len(typed)
    BY DEF RowsInv
  <2>4. row \in {Row(f) : f \in Forms}
    BY <2>1
  <2> HIDE DEF form
  <2>5. /\ user' \in Seq({Row(f) : f \in Forms}) /\ typed' \in Seq(Forms)
        /\ Len(user') = Len(user) + 1 /\ Len(typed') = Len(typed) + 1
        /\ user'[Len(user) + 1] = row /\ typed'[Len(user) + 1] = form
        /\ \A u \in 1..Len(user) : user'[u] = user[u] /\ typed'[u] = typed[u]
    BY <2>1, <2>2, <2>3, <2>4
  <2>6. \A u \in 1..Len(user) : user[u].email # row.email /\ user[u].username # row.username
    BY <2>2, <2>3 DEF GetUserByEmail, GetUserByUsername
  <2>7. \A u \in 1..Len(user') : u \in 1..Len(user) \/ u = Len(user) + 1
    BY <2>3, <2>5
  <2>8. \A u \in 1..Len(user') : user'[u] = Row(typed'[u])
    BY <2>5, <2>7 DEF RowsInv
  <2>9. \A u, v \in 1..Len(user') : u # v =>
          user'[u].email # user'[v].email /\ user'[u].username # user'[v].username
    BY <2>5, <2>6, <2>7 DEF RowsInv
  <2>10. Len(user') <= MaxUsers
    BY <2>2, <2>3, <2>5, AccountsAssumption
  <2>11. QED
    BY <2>3, <2>5, <2>8, <2>9, <2>10 DEF RowsInv
<1>4. (\E q \in Requests : Register(q)) \/ UNCHANGED <<user, typed>>
  BY DEF AccountsNext, AskRegister, AskLogin, AskLogout, AskMe, Start, CheckLogin, Renew,
         RenewToken, Commit, Destroy, Answer, AnswerMe, Fail, Expire, accountsVars
<1>5. QED
  BY <1>1, <1>2, <1>4

(******************************** sessions *********************************)

Ids == 1..Len(user)

\* Tokens in the store, ended ones and those of browsers were all generated; a
\* session that ended is not in the store.
StoreInv ==
  /\ token \in Nat /\ token <= MaxTokens /\ Len(user) \in Nat
  /\ DOMAIN session \subseteq 1..token /\ over \subseteq 1..token
  /\ over \cap DOMAIN session = {}
  /\ \A t \in DOMAIN session : session[t] \in Ids
  /\ cookie \in [Browsers -> 1..token \cup {Nobody}]
  /\ shown \in [Browsers -> Ids \cup {Nobody}]

\* What a request is about to answer is what the store says, if it still does.
KeptInv ==
  \A r \in Requests : req[r] # Nobody =>
    /\ req[r].token \in 1..token \cup {Nobody}
    /\ req[r].op = "logout" => req[r].step \in {"destroy", "answer"}
    /\ req[r].step \in {"renew", "commit"} => req[r].user \in Ids
    /\ req[r].step = "answer" =>
         IF req[r].op = "logout" THEN req[r].token = Nobody /\ req[r].user = Nobody
         ELSE /\ req[r].user \in Ids /\ req[r].token \in 1..token
              /\ req[r].token \in DOMAIN session => session[req[r].token] = req[r].user

\* A profile on its way is of whom the browser is served as, as long as the page waits
\* for it: any answer that changes the cookie makes the page give it up.
AskedInv ==
  \A r \in Requests : req[r] # Nobody /\ req[r].op = "me" =>
    LET c == cookie[req[r].browser]
    IN  /\ req[r].step = "answer" /\ req[r].user \in Ids
        /\ c \in DOMAIN session => session[c] = req[r].user

\* A token about to be committed is new: nobody else holds it.
FreshInv ==
  \A r \in Requests : req[r] # Nobody /\ req[r].step = "commit" =>
    /\ req[r].token \in 1..token
    /\ req[r].token \notin DOMAIN session \cup over
    /\ \A b \in Browsers : cookie[b] # req[r].token
    /\ \A q \in Requests : q # r /\ req[q] # Nobody => req[q].token # req[r].token

IInv == RowsInv /\ NotesInv /\ StoreInv /\ KeptInv /\ AskedInv /\ FreshInv /\ ServedAsShown

LEMMA InitIInv == AccountsInit => IInv
<1> SUFFICES ASSUME AccountsInit PROVE IInv
  OBVIOUS
<1>1. RowsInv /\ NotesInv
  BY InitRows
<1>2. StoreInv
  BY AccountsAssumption DEF AccountsInit, StoreInv, Ids
<1>3. KeptInv /\ AskedInv /\ FreshInv /\ ServedAsShown
  BY DEF AccountsInit, KeptInv, AskedInv, FreshInv, ServedAsShown
<1>4. QED
  BY <1>1, <1>2, <1>3 DEF IInv

\* A deleted session is an ended one.
LEMMA DeleteStep ==
  ASSUME NEW t, Delete(t)
  PROVE  /\ DOMAIN session' = DOMAIN session \ {t}
         /\ \A x \in DOMAIN session' : session'[x] = session[x]
         /\ over' = over \cup ({t} \cap DOMAIN session)
  BY DEF Delete, Restrict

LEMMA StartStep ==
  ASSUME IInv, NEW r \in Requests, NEW b \in Browsers, NEW form,
         NEW op \in {"register", "login", "logout", "me"},
         NEW step \in {"check", "destroy", "answer"},
         step = "destroy" <=> op = "logout", step = "answer" <=> op = "me",
         op = "me" => Load(b) # Nobody, Start(r, b, op, form, step)
  PROVE  StoreInv' /\ KeptInv' /\ AskedInv' /\ FreshInv' /\ ServedAsShown'
<1> USE DEF IInv, Ids
<1> DEFINE n == [browser |-> b, op |-> op, form |-> form, step |-> step,
                 token |-> Load(b), user |-> SessionUser(b)]
<1>1. /\ req[r] = Nobody /\ req' = [req EXCEPT ![r] = n]
      /\ UNCHANGED <<user, typed, session, over, token, cookie, shown>>
  BY DEF Start
<1>2. /\ Load(b) \in 1..token \cup {Nobody} /\ (Load(b) = Nobody \/ Load(b) = cookie[b])
      /\ Load(b) # Nobody => Load(b) \in DOMAIN session /\ SessionUser(b) = session[Load(b)]
                               /\ SessionUser(b) \in Ids
  BY DEF Load, SessionUser, StoreInv
<1>3. /\ n.browser = b /\ n.token = Load(b) /\ n.op = op /\ n.step = step
      /\ n.user = SessionUser(b)
  OBVIOUS
<1> HIDE DEF n
<1>4. req'[r] = n /\ \A q \in Requests : q # r => req'[q] = req[q]
  BY <1>1 DEF NotesInv
<1>5. StoreInv' /\ ServedAsShown'
  BY <1>1 DEF StoreInv, ServedAsShown
<1>6. KeptInv'
  BY <1>1, <1>2, <1>3, <1>4 DEF KeptInv
<1>7. AskedInv'
  BY <1>1, <1>2, <1>3, <1>4 DEF AskedInv
<1>8. FreshInv'
  BY <1>1, <1>2, <1>3, <1>4, AccountsAssumption DEF FreshInv
<1>9. QED
  BY <1>5, <1>6, <1>7, <1>8

\* A checked form names a user, a new one or one that was there.
LEMMA SignInStep ==
  ASSUME IInv, NEW r \in Requests, req[r] # Nobody, req[r].step = "check",
         NEW u \in 1..Len(user'), SignIn(r, u),
         Len(user') \in Nat, Len(user') >= Len(user),
         UNCHANGED <<session, over, token, cookie, shown>>
  PROVE  StoreInv' /\ KeptInv' /\ AskedInv' /\ FreshInv' /\ ServedAsShown'
<1> USE DEF IInv, Ids
<1> DEFINE n == [req[r] EXCEPT !.step = "renew", !.user = u, !.form = Nobody]
<1>1. req' = [req EXCEPT ![r] = n] /\ req[r] \in Note
  BY DEF SignIn, NotesInv
<1>2. n.token = req[r].token /\ n.op = req[r].op /\ n.step = "renew" /\ n.user = u
  BY <1>1 DEF Note
<1> HIDE DEF n
<1>3. req'[r] = n /\ \A q \in Requests : q # r => req'[q] = req[q]
  BY <1>1 DEF NotesInv
<1>4. StoreInv' /\ ServedAsShown'
  BY DEF StoreInv, ServedAsShown
<1>5. KeptInv'
  BY <1>2, <1>3 DEF KeptInv, StoreInv
<1>6. AskedInv'
  BY <1>2, <1>3 DEF AskedInv
<1>7. FreshInv'
  BY <1>2, <1>3 DEF FreshInv
<1>8. QED
  BY <1>4, <1>5, <1>6, <1>7

\* A request that ends takes only its note.
LEMMA EndStep ==
  ASSUME IInv, NEW r \in Requests, End(r), UNCHANGED <<user, session, over, token, cookie, shown>>
  PROVE  StoreInv' /\ KeptInv' /\ AskedInv' /\ FreshInv' /\ ServedAsShown'
<1> USE DEF IInv, Ids
<1>1. req'[r] = Nobody /\ \A q \in Requests : q # r => req'[q] = req[q]
  BY DEF End, Drop, NotesInv
<1>2. QED
  BY <1>1 DEF StoreInv, ServedAsShown, KeptInv, AskedInv, FreshInv

LEMMA RenewStep ==
  ASSUME IInv, NEW r \in Requests, Renew(r)
  PROVE  StoreInv' /\ KeptInv' /\ AskedInv' /\ FreshInv' /\ ServedAsShown'
<1> USE DEF IInv, Ids
<1> DEFINE m == token + 1
           n == [req[r] EXCEPT !.token = m, !.step = "commit"]
<1>1. /\ req[r] # Nobody /\ req[r].step = "renew" /\ req[r] \in Note
      /\ Delete(req[r].token) /\ token' = m /\ m <= MaxTokens
      /\ req' = [req EXCEPT ![r] = n]
      /\ UNCHANGED <<user, typed, cookie, shown>>
  BY AccountsAssumption DEF Renew, RenewToken, NotesInv, StoreInv
<1>2. m \in Nat /\ m \notin 1..token /\ 1..token \subseteq 1..m /\ m \in 1..m /\ token \in Nat
  BY DEF StoreInv
<1> HIDE DEF m
<1>3. n.token = m /\ n.op = req[r].op /\ n.step = "commit" /\ n.user = req[r].user
  BY <1>1 DEF Note
<1> HIDE DEF n
<1>4. req'[r] = n /\ \A q \in Requests : q # r => req'[q] = req[q]
  BY <1>1 DEF NotesInv
<1>5. /\ DOMAIN session' = DOMAIN session \ {req[r].token}
      /\ \A x \in DOMAIN session' : session'[x] = session[x]
      /\ over' = over \cup ({req[r].token} \cap DOMAIN session)
  BY <1>1, DeleteStep
<1>6. StoreInv' /\ ServedAsShown'
  BY <1>1, <1>2, <1>5 DEF StoreInv, ServedAsShown
<1>7. KeptInv'
  BY <1>1, <1>2, <1>3, <1>4, <1>5 DEF KeptInv
<1>8. AskedInv'
  BY <1>1, <1>3, <1>4, <1>5 DEF AskedInv
<1>9. FreshInv'
  <2>1. m # Nobody
    BY <1>2, AccountsAssumption
  <2>2. \A q \in Requests : req[q] # Nobody => req[q].token # m
    BY <1>2, <2>1 DEF KeptInv
  <2>3. \A b \in Browsers : cookie[b] # m
    BY <1>2, <2>1 DEF StoreInv
  <2>4. m \notin DOMAIN session' \cup over'
    BY <1>2, <1>5 DEF StoreInv
  <2>5. ASSUME NEW q \in Requests, q # r, req[q] # Nobody, req[q].step = "commit"
        PROVE  /\ req[q].token \in 1..m /\ req[q].token \notin DOMAIN session' \cup over'
               /\ req[q].token # m
    BY <1>2, <1>5, <2>2, <2>5 DEF FreshInv
  <2>6. QED
    BY <1>1, <1>2, <1>3, <1>4, <2>2, <2>3, <2>4, <2>5 DEF FreshInv
<1>10. QED
  BY <1>6, <1>7, <1>8, <1>9

LEMMA CommitStep ==
  ASSUME IInv, NEW r \in Requests, Commit(r)
  PROVE  StoreInv' /\ KeptInv' /\ AskedInv' /\ FreshInv' /\ ServedAsShown'
<1> USE DEF IInv, Ids
<1> DEFINE n == [req[r] EXCEPT !.step = "answer"]
           m == req[r].token
<1>1. /\ req[r] # Nobody /\ req[r].step = "commit" /\ req[r] \in Note
      /\ req' = [req EXCEPT ![r] = n]
      /\ session' = [t \in DOMAIN session \cup {m} |-> IF t = m THEN req[r].user ELSE session[t]]
      /\ UNCHANGED <<user, typed, over, token, cookie, shown>>
  BY DEF Commit, NotesInv
<1>2. /\ m \in 1..token /\ m \notin DOMAIN session \cup over
      /\ \A b \in Browsers : cookie[b] # m
      /\ \A q \in Requests : q # r /\ req[q] # Nobody => req[q].token # m
      /\ req[r].user \in 1..Len(user) /\ req[r].op # "logout"
  BY <1>1 DEF FreshInv, KeptInv
<1>3. n.token = m /\ n.op = req[r].op /\ n.step = "answer" /\ n.user = req[r].user
  BY <1>1 DEF Note
<1> HIDE DEF n, m
<1>4. req'[r] = n /\ \A q \in Requests : q # r => req'[q] = req[q]
  BY <1>1 DEF NotesInv
<1>5. /\ DOMAIN session' = DOMAIN session \cup {m} /\ session'[m] = req[r].user
      /\ \A x \in DOMAIN session : session'[x] = session[x]
  BY <1>1, <1>2
<1>6. StoreInv'
  BY <1>1, <1>2, <1>5 DEF StoreInv
<1>7. ServedAsShown'
  BY <1>1, <1>2, <1>5 DEF ServedAsShown
<1>8. KeptInv'
  BY <1>1, <1>2, <1>3, <1>4, <1>5 DEF KeptInv
<1>9. AskedInv'
  <2>1. \A q \in Requests : req[q] # Nobody => req[q].browser \in Browsers
    BY DEF NotesInv, Note
  <2>2. req[r].op # "me"
    BY <1>1 DEF AskedInv
  <2>3. QED
    BY <1>1, <1>2, <1>3, <1>4, <1>5, <2>1, <2>2 DEF AskedInv
<1>10. FreshInv'
  BY <1>1, <1>2, <1>3, <1>4, <1>5 DEF FreshInv
<1>11. QED
  BY <1>6, <1>7, <1>8, <1>9, <1>10

LEMMA DestroyStep ==
  ASSUME IInv, NEW r \in Requests, Destroy(r)
  PROVE  StoreInv' /\ KeptInv' /\ AskedInv' /\ FreshInv' /\ ServedAsShown'
<1> USE DEF IInv, Ids
<1> DEFINE n == [req[r] EXCEPT !.step = "answer", !.token = Nobody, !.user = Nobody]
<1>1. /\ req[r] # Nobody /\ req[r].op = "logout" /\ req[r] \in Note
      /\ Delete(req[r].token) /\ req' = [req EXCEPT ![r] = n]
      /\ UNCHANGED <<user, typed, token, cookie, shown>>
  BY DEF Destroy, At, NotesInv
<1>2. n.token = Nobody /\ n.op = "logout" /\ n.step = "answer" /\ n.user = Nobody
  BY <1>1 DEF Note
<1> HIDE DEF n
<1>3. req'[r] = n /\ \A q \in Requests : q # r => req'[q] = req[q]
  BY <1>1 DEF NotesInv
<1>4. /\ DOMAIN session' = DOMAIN session \ {req[r].token}
      /\ \A x \in DOMAIN session' : session'[x] = session[x]
      /\ over' = over \cup ({req[r].token} \cap DOMAIN session)
  BY <1>1, DeleteStep
<1>5. StoreInv' /\ ServedAsShown'
  BY <1>1, <1>4 DEF StoreInv, ServedAsShown
<1>6. KeptInv'
  BY <1>1, <1>2, <1>3, <1>4 DEF KeptInv
<1>7. AskedInv'
  BY <1>1, <1>2, <1>3, <1>4 DEF AskedInv
<1>8. FreshInv'
  BY <1>1, <1>2, <1>3, <1>4, AccountsAssumption DEF FreshInv
<1>9. QED
  BY <1>5, <1>6, <1>7, <1>8

LEMMA AnswerStep ==
  ASSUME IInv, NEW r \in Requests, Answer(r)
  PROVE  StoreInv' /\ KeptInv' /\ AskedInv' /\ FreshInv' /\ ServedAsShown'
<1> USE DEF IInv, Ids
<1> DEFINE b == req[r].browser
<1>1. /\ req[r] # Nobody /\ req[r].step = "answer" /\ b \in Browsers
      /\ cookie' = [cookie EXCEPT ![b] = req[r].token]
      /\ shown' = [shown EXCEPT ![b] = req[r].user]
      /\ UNCHANGED <<user, typed, session, over, token>>
  BY DEF Answer, NotesInv, Note
<1>2. /\ req'[r] = Nobody
      /\ \A q \in Requests : req'[q] = Nobody \/ (q # r /\ req'[q] = req[q])
      /\ \A q \in Requests : req'[q] # Nobody /\ req'[q].op = "me" => req[q].browser # b
  BY DEF Answer, Drop, Queries, NotesInv
<1>3. /\ req[r].token \in 1..token \cup {Nobody} /\ req[r].user \in 1..Len(user) \cup {Nobody}
      /\ req[r].token \in DOMAIN session => session[req[r].token] = req[r].user
  BY <1>1, AccountsAssumption DEF KeptInv, StoreInv
<1> HIDE DEF b
<1>4. StoreInv'
  BY <1>1, <1>3 DEF StoreInv
<1>5. ServedAsShown'
  BY <1>1, <1>3 DEF ServedAsShown, StoreInv
<1>6. KeptInv'
  BY <1>1, <1>2 DEF KeptInv
<1>7. AskedInv'
  <2>1. \A q \in Requests : req[q] # Nobody => req[q].browser \in Browsers
    BY DEF NotesInv, Note
  <2>2. \A c \in Browsers : c # b => cookie'[c] = cookie[c]
    BY <1>1 DEF StoreInv
  <2>3. QED
    BY <1>1, <1>2, <2>1, <2>2 DEF AskedInv
<1>8. FreshInv'
  BY <1>1, <1>2 DEF FreshInv, StoreInv
<1>9. QED
  BY <1>4, <1>5, <1>6, <1>7, <1>8

\* A profile the page still waits for is the one it would be given now.
LEMMA AnswerMeStep ==
  ASSUME IInv, NEW r \in Requests, AnswerMe(r)
  PROVE  StoreInv' /\ KeptInv' /\ AskedInv' /\ FreshInv' /\ ServedAsShown'
<1> USE DEF IInv, Ids
<1> DEFINE b == req[r].browser
<1>1. /\ req[r] # Nobody /\ req[r].op = "me" /\ b \in Browsers
      /\ shown' = [shown EXCEPT ![b] = req[r].user]
      /\ UNCHANGED <<user, typed, session, over, token, cookie>>
  BY DEF AnswerMe, At, NotesInv, Note
<1>2. req'[r] = Nobody /\ \A q \in Requests : q # r => req'[q] = req[q]
  BY DEF AnswerMe, End, Drop, NotesInv
<1>3. /\ req[r].user \in 1..Len(user)
      /\ cookie[b] \in DOMAIN session => session[cookie[b]] = req[r].user
  BY <1>1 DEF AskedInv
<1> HIDE DEF b
<1>4. StoreInv' /\ ServedAsShown'
  BY <1>1, <1>3 DEF StoreInv, ServedAsShown
<1>5. KeptInv' /\ AskedInv' /\ FreshInv'
  BY <1>1, <1>2 DEF KeptInv, AskedInv, FreshInv
<1>6. QED
  BY <1>4, <1>5

LEMMA ExpireStep ==
  ASSUME IInv, NEW t, Expire(t)
  PROVE  StoreInv' /\ KeptInv' /\ AskedInv' /\ FreshInv' /\ ServedAsShown'
<1> USE DEF IInv, Ids
<1>1. Delete(t) /\ UNCHANGED <<user, typed, token, cookie, shown, req>>
  BY DEF Expire
<1>2. /\ DOMAIN session' = DOMAIN session \ {t}
      /\ \A x \in DOMAIN session' : session'[x] = session[x]
      /\ over' = over \cup ({t} \cap DOMAIN session)
  BY <1>1, DeleteStep
<1>3. StoreInv' /\ ServedAsShown'
  BY <1>1, <1>2 DEF StoreInv, ServedAsShown
<1>4. KeptInv' /\ AskedInv' /\ FreshInv'
  BY <1>1, <1>2 DEF KeptInv, AskedInv, FreshInv
<1>5. QED
  BY <1>3, <1>4

LEMMA NextIInv == IInv /\ [AccountsNext]_accountsVars => IInv'
<1> SUFFICES ASSUME IInv, [AccountsNext]_accountsVars PROVE IInv'
  OBVIOUS
<1>1. RowsInv /\ NotesInv /\ StoreInv
  BY DEF IInv
<1>2. RowsInv'
  BY <1>1, RowsStep
<1>3. NotesInv'
  <2>1. /\ token \in Nat /\ user \in Seq({Row(f) : f \in Forms})
        /\ \A b \in Browsers : cookie[b] \in Nat \cup {Nobody}
        /\ \A t \in DOMAIN session : session[t] \in Nat
    BY <1>1 DEF StoreInv, RowsInv, Ids
  <2>2. QED
    BY <1>1, <2>1, NotesStep
<1> DEFINE Sessions == StoreInv' /\ KeptInv' /\ AskedInv' /\ FreshInv' /\ ServedAsShown'
<1>4. ASSUME UNCHANGED accountsVars
      PROVE  Sessions
  BY <1>4 DEF accountsVars, IInv, StoreInv, KeptInv, AskedInv, FreshInv, ServedAsShown, Ids
<1>5. ASSUME NEW r \in Requests, NEW b \in Browsers,
             \/ \E form \in Forms : AskRegister(r, b, form) \/ AskLogin(r, b, form)
             \/ AskLogout(r, b) \/ AskMe(r, b)
      PROVE  Sessions
  BY <1>5, StartStep DEF AskRegister, AskLogin, AskLogout, AskMe
<1>6. ASSUME NEW r \in Requests, Register(r)
      PROVE  Sessions
  <2>1. req[r] # Nobody /\ req[r].step = "check" /\ UNCHANGED <<session, over, token, cookie, shown>>
    BY <1>6 DEF Register, At
  <2>2. CASE End(r) /\ UNCHANGED <<user, typed>>
    BY <2>1, <2>2, EndStep
  <2>3. CASE SignIn(r, Len(user) + 1) /\ user' = Append(user, Row(req[r].form))
    <3>1. Row(req[r].form) \in {Row(f) : f \in Forms}
      BY <1>1, <2>1 DEF NotesInv
    <3>2. Len(user') = Len(user) + 1 /\ Len(user) \in Nat
      BY <1>1, <2>3, <3>1 DEF RowsInv
    <3>3. QED
      BY <2>1, <2>3, <3>2, SignInStep
  <2>4. QED
    BY <1>6, <2>2, <2>3 DEF Register
<1>7. ASSUME NEW r \in Requests, CheckLogin(r)
      PROVE  Sessions
  <2>1. /\ req[r] # Nobody /\ req[r].step = "check"
        /\ UNCHANGED <<user, session, over, token, cookie, shown>>
    BY <1>7 DEF CheckLogin, At
  <2>2. Login(req[r].form.email, req[r].form.password) \subseteq 1..Len(user) /\ Len(user) \in Nat
    BY <1>1 DEF Login, GetUserByEmail, RowsInv
  <2>3. CASE End(r)
    BY <2>1, <2>3, EndStep
  <2>4. ASSUME NEW u \in Login(req[r].form.email, req[r].form.password), SignIn(r, u)
        PROVE  Sessions
    BY <2>1, <2>2, <2>4, SignInStep
  <2>5. QED
    BY <1>7, <2>3, <2>4 DEF CheckLogin
<1>8. ASSUME NEW r \in Requests, Fail(r)
      PROVE  Sessions
  BY <1>8, EndStep DEF Fail
<1>9. ASSUME NEW r \in Requests, Renew(r) \/ Commit(r) \/ Destroy(r) \/ Answer(r) \/ AnswerMe(r)
      PROVE  Sessions
  BY <1>9, RenewStep, CommitStep, DestroyStep, AnswerStep, AnswerMeStep
<1>10. ASSUME NEW t, Expire(t)
       PROVE  Sessions
  BY <1>10, ExpireStep
<1> HIDE DEF Sessions
<1>11. Sessions
  BY <1>4, <1>5, <1>6, <1>7, <1>8, <1>9, <1>10 DEF AccountsNext
<1>12. QED
  BY <1>2, <1>3, <1>11 DEF IInv, Sessions

LEMMA Inductive == AccountsSpec => []IInv
  BY InitIInv, NextIInv, PTL DEF AccountsSpec

(******************************** theorems *********************************)

\* The profile on the page is the one the server acts for, for any number of requests
\* of a browser in flight, questions for the profile among them.
THEOREM ServedIsShown == AccountsSpec => []ServedAsShown
<1>1. IInv => ServedAsShown
  BY DEF IInv
<1>2. QED
  BY <1>1, Inductive, PTL

\* A token stands for one user, and a session that ended never comes back.
THEOREM TokensKeep == AccountsSpec => TokensStayTrue
<1>1. IInv /\ IInv' /\ [AccountsNext]_accountsVars =>
        [/\ \A t \in DOMAIN session \cap DOMAIN session' : session'[t] = session[t]
         /\ DOMAIN session' \cap over = {}]_accountsVars
  <2> SUFFICES ASSUME IInv, IInv', AccountsNext
               PROVE  /\ \A t \in DOMAIN session \cap DOMAIN session' : session'[t] = session[t]
                      /\ DOMAIN session' \cap over = {}
    OBVIOUS
  <2>1. over \cap DOMAIN session = {}
    BY DEF IInv, StoreInv
  <2>2. CASE UNCHANGED session
    BY <2>1, <2>2
  <2>3. ASSUME NEW t, Delete(t)
        PROVE  /\ \A x \in DOMAIN session \cap DOMAIN session' : session'[x] = session[x]
               /\ DOMAIN session' \cap over = {}
    BY <2>1, <2>3, DeleteStep
  <2>4. ASSUME NEW r \in Requests, Commit(r)
        PROVE  /\ \A t \in DOMAIN session \cap DOMAIN session' : session'[t] = session[t]
               /\ DOMAIN session' \cap over = {}
    <3>1. req[r].token \notin DOMAIN session \cup over
      BY <2>4 DEF IInv, FreshInv, Commit
    <3>2. QED
      BY <2>1, <2>4, <3>1 DEF Commit
  <2>5. QED
    BY <2>2, <2>3, <2>4 DEF AccountsNext, AskRegister, AskLogin, AskLogout, AskMe, Start, Register,
       CheckLogin, Renew, RenewToken, Destroy, Answer, AnswerMe, Fail, Expire
<1>2. QED
  BY <1>1, Inductive, PTL DEF AccountsSpec, TokensStayTrue

\* No two accounts differ only in the spelling of what was typed.
THEOREM OnePerPerson == AccountsSpec => []OneAccountPerPerson
<1>1. ASSUME IInv, NEW u \in DOMAIN user, NEW v \in DOMAIN user, u # v
      PROVE  /\ NormalizeUsername(typed[u].name) # NormalizeUsername(typed[v].name)
             /\ NormalizeEmail(typed[u].email) # NormalizeEmail(typed[v].email)
  <2>1. /\ DOMAIN user = 1..Len(user)
        /\ user[u] = Row(typed[u]) /\ user[v] = Row(typed[v])
        /\ user[u].email # user[v].email /\ user[u].username # user[v].username
    BY <1>1 DEF IInv, RowsInv
  <2>2. QED
    BY <2>1 DEF Row
<1>2. IInv => OneAccountPerPerson
  BY <1>1 DEF OneAccountPerPerson
<1>3. QED
  BY <1>2, Inductive, PTL

\* Whoever registered gets in with any spelling of the address and is found under
\* any spelling of the name.
THEOREM AnySpelling == AccountsSpec => []AnySpellingFinds
<1>1. ASSUME IInv, NEW u \in DOMAIN user, NEW form \in Forms
      PROVE  /\ NormalizeEmail(form.email) = NormalizeEmail(typed[u].email) =>
                  Login(form.email, typed[u].password) = {u}
             /\ NormalizeUsername(form.name) = NormalizeUsername(typed[u].name) =>
                  Search(form.name) = {u}
  <2>1. /\ DOMAIN user = 1..Len(user)
        /\ \A w \in 1..Len(user) : user[w] = Row(typed[w])
        /\ \A w, v \in 1..Len(user) : w # v =>
              user[w].email # user[v].email /\ user[w].username # user[v].username
    BY <1>1 DEF IInv, RowsInv
  <2>2. /\ user[u].email = NormalizeEmail(typed[u].email)
        /\ user[u].username = NormalizeUsername(typed[u].name)
        /\ user[u].password = typed[u].password
    BY <2>1 DEF Row
  <2>3. QED
    BY <2>1, <2>2 DEF Login, Search, GetUserByEmail, GetUserByUsername
<1>2. IInv => AnySpellingFinds
  BY <1>1 DEF AnySpellingFinds
<1>3. QED
  BY <1>2, Inductive, PTL

\* A person is one account, however the name and the address are spelled.
THEOREM PeopleStayOne == AccountsSpec => []PeopleAreOne
BY OnePerPerson, AnySpelling, PTL DEF PeopleAreOne

\* Types, among them that every session is of a registered user.
THEOREM TypeCorrect == AccountsSpec => []AccountsTypeOK
<1>1. ASSUME IInv PROVE AccountsTypeOK
  <2>1. DOMAIN user = Ids /\ DOMAIN typed = Ids /\ Ids \subseteq 1..MaxUsers
    BY <1>1, AccountsAssumption DEF IInv, RowsInv, Ids
  <2>2. Range(session) \subseteq Ids
    BY <1>1 DEF IInv, StoreInv, Range
  <2>3. QED
    BY <1>1, <2>1, <2>2, AccountsAssumption DEF IInv, StoreInv, AccountsTypeOK
<1>2. QED
  BY <1>1, Inductive, PTL
=============================================================================
