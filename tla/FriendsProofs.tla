---------------------------- MODULE FriendsProofs ---------------------------
(***************************************************************************)
(* Friends keeps the promise of Circle, for any number of users, rows and  *)
(* concurrent calls; a user's live links are bounded by the calls that     *)
(* overlap; and the limiter of friend requests forgets nothing that could  *)
(* be noticed.                                                             *)
(***************************************************************************)
EXTENDS Friends, RateLimit, FiniteSetTheorems, TLAPS

\* The unique keys of the tables, as they hold in every state.
Keys ==
  /\ \A e, f \in friendships : e.id = f.id \/ e.pair = f.pair => e = f
  /\ \A f \in friendships : f.id \in spent
  /\ \A q, r \in requests : q.id = r.id => q = r
  /\ \A q, r \in requests :
       q.status = "pending" /\ r.status = "pending" /\ Pair(q.from, q.to) = Pair(r.from, r.to)
         => q = r
  /\ \A r \in requests : r.from # r.to

\* What a call has read that is still true when it writes: whose client it is,
\* and that the friendship, if it is still there, is one of its user's.  Ids are
\* not reused, so a friendship made later is never taken for it.
NoteOK(n, F, S) ==
  /\ n.at \in {"pair", "pending", "insert", "accept"} => n.other \in Users \ {n.me}
  /\ n.at = "friend" => n.client \in Clients /\ Owner[n.client] = n.me
  /\ n.at \in {"grant", "revoke"} =>
       /\ n.client \in Clients /\ Owner[n.client] = n.me
       /\ n.friendship \in FriendshipIds \cap S
       /\ \A f \in F : f.id = n.friendship => n.me \in f.pair

NotesOK == \A g \in Goroutines : calls[g] # None => NoteOK(calls[g], friendships, spent)

TablesOK ==
  /\ clients \subseteq Clients
  /\ friendships \subseteq Friendship
  /\ requests \subseteq Request
  /\ invites \subseteq Invite
  /\ shares \subseteq Share
  /\ spent \subseteq FriendshipIds \cup InviteIds

CallsOK == calls \in [Goroutines -> Note \cup {None}]

TableInv == TablesOK /\ Keys /\ ShareOnOwnFriendship
IInv == TableInv /\ CallsOK /\ NotesOK

\* No id is given out again.
Aging == spent \subseteq spent' /\ \A f \in friendships' : f \in friendships \/ f.id \notin spent

(********************************** notes **********************************)

\* A note stays right while other calls write.
LEMMA NoteAges ==
  ASSUME Aging, NEW n, NoteOK(n, friendships, spent)
  PROVE  NoteOK(n, friendships', spent')
<1>1. n.at \in {"grant", "revoke"} =>
        /\ n.friendship \in FriendshipIds \cap spent'
        /\ \A f \in friendships' : f.id = n.friendship => n.me \in f.pair
  BY DEF NoteOK, Aging
<1>2. QED
  BY <1>1 DEF NoteOK

LEMMA NotesAge ==
  ASSUME Aging, CallsOK, NotesOK, UNCHANGED calls
  PROVE  CallsOK' /\ NotesOK'
  BY NoteAges DEF CallsOK, NotesOK

\* The call goes on with a note that is right.
LEMMA Going ==
  ASSUME Aging, CallsOK, NotesOK, NEW g \in Goroutines, NEW n \in Note,
         NoteOK(n, friendships', spent'), Goto(g, n)
  PROVE  CallsOK' /\ NotesOK'
<1>1. CallsOK'
  BY DEF CallsOK, Goto
<1>2. ASSUME NEW h \in Goroutines, calls'[h] # None
      PROVE  NoteOK(calls'[h], friendships', spent')
  <2>1. CASE h = g
    BY <2>1 DEF Goto, CallsOK
  <2>2. CASE h # g
    <3>1. calls'[h] = calls[h]
      BY <2>2 DEF Goto, CallsOK
    <3>2. QED
      BY <3>1, <1>2, NoteAges DEF NotesOK
  <2>3. QED
    BY <2>1, <2>2
<1>3. QED
  BY <1>1, <1>2 DEF NotesOK

LEMMA Returning ==
  ASSUME Aging, CallsOK, NotesOK, NEW g \in Goroutines, Return(g)
  PROVE  CallsOK' /\ NotesOK'
<1>1. CallsOK'
  BY DEF CallsOK, Return
<1>2. ASSUME NEW h \in Goroutines, calls'[h] # None
      PROVE  NoteOK(calls'[h], friendships', spent')
  <2>1. h # g /\ calls'[h] = calls[h]
    BY <1>2 DEF Return, CallsOK
  <2>2. QED
    BY <2>1, <1>2, NoteAges DEF NotesOK
<1>3. QED
  BY <1>1, <1>2 DEF NotesOK

\* The note of a call that is under way.
LEMMA NoteOf ==
  ASSUME CallsOK, NotesOK, NEW g \in Goroutines, calls[g] # None
  PROVE  calls[g] \in Note /\ NoteOK(calls[g], friendships, spent)
  BY DEF CallsOK, NotesOK

\* Reads write notes only.
LEMMA TablesKept ==
  ASSUME UNCHANGED tables
  PROVE  /\ TableInv => TableInv'
         /\ TableInv => Aging
         /\ UNCHANGED <<Paired, Asked, Granted>>
<1>1. TableInv => TableInv'
  BY DEF tables, TableInv, TablesOK, Keys, ShareOnOwnFriendship
<1>2. TableInv => Aging
  BY DEF tables, Aging
<1>3. Paired' = Paired /\ Asked' = Asked
  BY DEF tables, Paired, Asked
<1>4. Granted' = Granted
  BY DEF tables, Granted, SharedWith
<1>5. QED
  BY <1>1, <1>2, <1>3, <1>4

\* The reads of every call, and the statements that open one.
LEMMA BeginKeeps ==
  ASSUME IInv, NEW g \in Goroutines, Begin(g)
  PROVE  UNCHANGED tables /\ CallsOK' /\ NotesOK'
<1>1. ASSUME NEW u \in Users, NEW a \in {"pair", "mint"}
      PROVE  Blank(a, u) \in Note
  BY <1>1, FriendsAssumption DEF Blank, Note
<1>2. ASSUME NEW u \in Users, NEW v \in Users, u # v, UNCHANGED tables,
             Goto(g, [Blank("pair", u) EXCEPT !.other = v])
      PROVE  CallsOK' /\ NotesOK'
  <2> DEFINE n == [Blank("pair", u) EXCEPT !.other = v]
  <2>1. n \in Note /\ n.at = "pair" /\ n.other = v /\ n.me = u
    BY FriendsAssumption DEF Note, Blank
  <2>2. NoteOK(n, friendships', spent')
    BY <2>1, <1>2 DEF NoteOK
  <2>3. Aging
    BY <1>2, TablesKept DEF IInv
  <2> HIDE DEF n
  <2>4. Goto(g, n)
    BY <1>2 DEF n
  <2>5. QED
    BY <2>1, <2>2, <2>3, <2>4, Going DEF IInv
<1>3. ASSUME NEW u \in Users, NEW v \in Users, SendRequest(g, u, v)
      PROVE  UNCHANGED tables /\ CallsOK' /\ NotesOK'
  BY <1>2, <1>3 DEF SendRequest
<1>4. ASSUME NEW u \in Users, ClaimInvite(g, u)
      PROVE  UNCHANGED tables /\ CallsOK' /\ NotesOK'
  <2>1. PICK i \in invites : i.by # u /\ Goto(g, [Blank("pair", u) EXCEPT !.other = i.by])
    BY <1>4 DEF ClaimInvite
  <2>2. i.by \in Users
    BY DEF IInv, TableInv, TablesOK, Invite
  <2>3. QED
    BY <1>2, <1>4, <2>1, <2>2 DEF ClaimInvite
<1>5. ASSUME NEW u \in Users, DeleteUnclaimedInvites(g, u)
      PROVE  UNCHANGED tables /\ CallsOK' /\ NotesOK'
  <2> DEFINE I == {i \in invites : i.by = u}
             n == [Blank("mint", u) EXCEPT !.invites = I]
  <2>1. I \in SUBSET Invite
    BY DEF IInv, TableInv, TablesOK
  <2> HIDE DEF I
  <2>2. n \in Note /\ n.at = "mint"
    BY <2>1, FriendsAssumption DEF Note, Blank
  <2>3. NoteOK(n, friendships', spent') /\ Aging
    BY <2>2, <1>5, TablesKept DEF NoteOK, DeleteUnclaimedInvites, IInv
  <2>4. Goto(g, n)
    BY <1>5 DEF DeleteUnclaimedInvites, I
  <2> HIDE DEF n
  <2>5. QED
    BY <1>5, <2>2, <2>3, <2>4, Going DEF IInv, DeleteUnclaimedInvites
<1>6. ASSUME NEW u \in Users, NEW c \in Clients, NEW v \in Users, NEW shared \in BOOLEAN,
             SetSharing(g, u, c, v, shared)
      PROVE  UNCHANGED tables /\ CallsOK' /\ NotesOK'
  <2> DEFINE t == IF shared THEN "grant" ELSE "revoke"
             n == [Blank("friend", u) EXCEPT !.other = v, !.client = c, !.then = t]
  <2>1. t \in {"grant", "revoke"} /\ Owner[c] = u /\ UNCHANGED tables /\ Goto(g, n)
    BY <1>6 DEF SetSharing, SharesOwnClient
  <2> HIDE DEF t
  <2>2. n \in Note /\ n.at = "friend" /\ n.client = c /\ n.me = u
    BY <2>1, FriendsAssumption DEF Note, Blank
  <2> HIDE DEF n
  <2>3. NoteOK(n, friendships', spent') /\ Aging
    BY <2>1, <2>2, TablesKept DEF NoteOK, IInv
  <2>4. QED
    BY <2>1, <2>2, <2>3, Going DEF IInv
<1>7. QED
  BY <1>3, <1>4, <1>5, <1>6 DEF Begin

LEMMA ReadsKeep ==
  ASSUME IInv, NEW g \in Goroutines,
         ReadFriendship(g) \/ ReadPending(g) \/ ReadGrantee(g) \/ Abandon(g)
  PROVE  UNCHANGED tables /\ CallsOK' /\ NotesOK'
<1> DEFINE n == calls[g]
<1>1. UNCHANGED tables /\ Aging /\ calls[g] # None
  BY TablesKept DEF ReadFriendship, ReadPending, ReadGrantee, Abandon, Busy, Free, IInv
<1>2. n \in Note /\ NoteOK(n, friendships, spent)
  BY <1>1, NoteOf DEF IInv
<1>3. CASE Return(g)
  BY <1>1, <1>3, Returning DEF IInv
<1>4. ASSUME NEW a \in {"pending", "insert"}, n.at \in {"pair", "pending"},
             Goto(g, [n EXCEPT !.at = a])
      PROVE  CallsOK' /\ NotesOK'
  <2> DEFINE m == [n EXCEPT !.at = a]
  <2> HIDE DEF n
  <2>1. m \in Note /\ m.at = a /\ m.other = n.other /\ m.me = n.me
    BY <1>2 DEF Note
  <2>2. NoteOK(m, friendships', spent')
    BY <1>2, <1>4, <2>1 DEF NoteOK
  <2>3. Goto(g, m)
    BY <1>4
  <2> HIDE DEF m
  <2>4. QED
    BY <1>1, <2>1, <2>2, <2>3, Going DEF IInv
<1>5. ASSUME NEW r \in requests, n.at = "pending",
             Goto(g, [n EXCEPT !.at = "accept", !.request = r.id])
      PROVE  CallsOK' /\ NotesOK'
  <2> DEFINE m == [n EXCEPT !.at = "accept", !.request = r.id]
  <2>0. r.id \in RequestIds
    BY DEF IInv, TableInv, TablesOK, Request
  <2> HIDE DEF n
  <2>1. m \in Note /\ m.at = "accept" /\ m.other = n.other /\ m.me = n.me
    BY <1>2, <2>0 DEF Note
  <2>2. NoteOK(m, friendships', spent')
    BY <1>2, <1>5, <2>1 DEF NoteOK
  <2>3. Goto(g, m)
    BY <1>5
  <2> HIDE DEF m
  <2>4. QED
    BY <1>1, <2>1, <2>2, <2>3, Going DEF IInv
<1>6. ASSUME NEW f \in FriendshipOf(n.me, n.other), n.at = "friend",
             Goto(g, [n EXCEPT !.at = n.then, !.friendship = f.id])
      PROVE  CallsOK' /\ NotesOK'
  <2> DEFINE m == [n EXCEPT !.at = n.then, !.friendship = f.id]
  <2>0. /\ f \in friendships /\ f.id \in FriendshipIds \cap spent /\ n.me \in f.pair
        /\ \A e \in friendships : e.id = f.id => e = f
    BY DEF IInv, TableInv, TablesOK, Keys, Friendship, FriendshipOf, Pair
  <2> HIDE DEF n
  <2>1. /\ m \in Note /\ m.at \in {"grant", "revoke"} /\ m.client = n.client /\ m.me = n.me
        /\ m.friendship = f.id
    BY <1>2, <2>0 DEF Note
  <2>2. NoteOK(m, friendships, spent)
    BY <1>2, <1>6, <2>0, <2>1 DEF NoteOK
  <2>3. Goto(g, m)
    BY <1>6
  <2> HIDE DEF m
  <2>4. QED
    BY <1>1, <2>1, <2>2, <2>3, NoteAges, Going DEF IInv
<1>7. CASE ReadFriendship(g)
  BY <1>1, <1>3, <1>4, <1>7 DEF ReadFriendship, Busy
<1>8. CASE ReadPending(g)
  BY <1>1, <1>3, <1>4, <1>5, <1>8 DEF ReadPending, Busy, PendingBetween
<1>9. CASE ReadGrantee(g)
  BY <1>1, <1>3, <1>6, <1>9 DEF ReadGrantee, Busy
<1>10. QED
  BY <1>1, <1>3, <1>7, <1>8, <1>9 DEF Abandon

(********************************* requests ********************************)

\* A request row with a new id and no pending row for its pair.
LEMMA RequestInserted ==
  ASSUME TableInv, NEW u \in Users, NEW v \in Users, u # v, PendingKeyFree(u, v),
         NEW id \in RequestIds, \A r \in requests : r.id # id,
         requests' = requests \cup
           {[id |-> id, from |-> u, to |-> v, status |-> "pending"]},
         UNCHANGED <<clients, friendships, invites, shares, spent>>
  PROVE  TableInv' /\ Aging /\ Promise!Ask(u, v)
<1> DEFINE q == [id |-> id, from |-> u, to |-> v, status |-> "pending"]
<1>1. /\ q \in Request /\ q.id = id /\ q.from = u /\ q.to = v /\ q.status = "pending"
      /\ requests' = requests \cup {q}
  BY DEF Request, Statuses
<1> HIDE DEF q
<1>2. \A r \in requests : r.status = "pending" => Pair(r.from, r.to) # Pair(u, v)
  BY DEF PendingKeyFree, PendingBetween
<1>3. TablesOK' /\ Aging
  BY <1>1 DEF TableInv, TablesOK, Aging
<1>4. Keys'
  BY <1>1, <1>2 DEF TableInv, Keys
<1>5. ShareOnOwnFriendship'
  BY DEF TableInv, ShareOnOwnFriendship
<1>6. Paired' = Paired /\ Granted' = Granted
  BY DEF Paired, Granted, SharedWith
<1>7. <<u, v>> \notin Asked /\ <<v, u>> \notin Asked
  BY <1>2 DEF Asked, Pair
<1>8. Asked' = Asked \cup {<<u, v>>}
  BY <1>1 DEF Asked
<1>9. QED
  BY <1>3, <1>4, <1>5, <1>6, <1>7, <1>8 DEF TableInv, Promise!Ask

\* A pending row that leaves that status takes its request with it.
LEMMA StatusSet ==
  ASSUME TableInv, NEW S \in SUBSET requests, \A q, r \in S : q = r,
         \A r \in S : r.status = "pending",
         NEW status \in Statuses \ {"pending"}, SetStatus(S, status)
  PROVE  /\ requests' \subseteq Request
         /\ \A q, r \in requests' : q.id = r.id => q = r
         /\ \A q, r \in requests' :
              q.status = "pending" /\ r.status = "pending"
                /\ Pair(q.from, q.to) = Pair(r.from, r.to) => q = r
         /\ \A r \in requests' : r.from # r.to
         /\ S = {} => Asked' = Asked
         /\ \A r \in S : Asked' = Asked \ {<<r.from, r.to>>}
<1>1. CASE S = {}
  <2>1. requests' = requests
    BY <1>1 DEF SetStatus
  <2>2. QED
    BY <1>1, <2>1 DEF TableInv, TablesOK, Keys, Asked
<1>2. CASE S # {}
  <2>1. PICK r \in S : S = {r}
    BY <1>2
  <2> DEFINE t == [r EXCEPT !.status = status]
  <2>2. r \in Request /\ r \in requests /\ r.status = "pending"
    BY <2>1 DEF TableInv, TablesOK
  <2>3. /\ t \in Request /\ t.id = r.id /\ t.from = r.from /\ t.to = r.to
        /\ t.status = status /\ requests' = (requests \ {r}) \cup {t}
    BY <2>1, <2>2 DEF SetStatus, Request
  <2> HIDE DEF t
  <2>4. \A q \in requests : q \in Request /\ (q.id = r.id => q = r)
    BY <2>2 DEF TableInv, TablesOK, Keys
  <2>5. \A q, p \in requests' : q.id = p.id => q = p
    BY <2>3, <2>4 DEF TableInv, Keys
  <2>6. \A q, p \in requests' :
          q.status = "pending" /\ p.status = "pending"
            /\ Pair(q.from, q.to) = Pair(p.from, p.to) => q = p
    BY <2>3 DEF TableInv, Keys
  <2>7. \A q \in requests' : q.from # q.to
    BY <2>2, <2>3 DEF TableInv, Keys
  <2>8. Asked' = Asked \ {<<r.from, r.to>>}
    <3>1. ASSUME NEW x \in Users \X Users
          PROVE  x \in Asked' <=> x \in Asked /\ x # <<r.from, r.to>>
      <4>1. x = <<x[1], x[2]>>
        OBVIOUS
      <4>2. ASSUME NEW q \in requests, q.status = "pending", q.from = r.from, q.to = r.to
            PROVE  q = r
        BY <2>2, <4>2 DEF TableInv, Keys
      <4>3. x \in Asked' => x \in Asked /\ x # <<r.from, r.to>>
        BY <2>3, <4>2 DEF Asked
      <4>4. x \in Asked /\ x # <<r.from, r.to>> => x \in Asked'
        BY <2>3, <4>1 DEF Asked
      <4>5. QED
        BY <4>3, <4>4
    <3>2. QED
      BY <3>1 DEF Asked
  <2>9. QED
    BY <1>2, <2>1, <2>3, <2>4, <2>5, <2>6, <2>7, <2>8
<1>3. QED
  BY <1>1, <1>2

\* Declined or cancelled.
LEMMA RequestSettled ==
  ASSUME TableInv, NEW S \in SUBSET requests, \A q, r \in S : q = r,
         \A r \in S : r.status = "pending",
         NEW status \in {"declined", "cancelled"}, SetStatus(S, status),
         UNCHANGED <<clients, friendships, invites, shares, spent>>
  PROVE  /\ TableInv' /\ Aging
         /\ \/ UNCHANGED <<Paired, Asked, Granted>>
            \/ \E u, v \in Users : Promise!Settle(u, v)
<1>1. status \in Statuses \ {"pending"}
  BY DEF Statuses
<1>2. TableInv' /\ Aging
  BY <1>1, StatusSet DEF TableInv, TablesOK, Keys, ShareOnOwnFriendship, Aging
<1>3. Paired' = Paired /\ Granted' = Granted
  BY DEF Paired, Granted, SharedWith
<1>4. CASE S = {}
  BY <1>1, <1>2, <1>3, <1>4, StatusSet
<1>5. ASSUME NEW r \in S PROVE \E u, v \in Users : Promise!Settle(u, v)
  <2>1. r.from \in Users /\ r.to \in Users
    BY DEF TableInv, TablesOK, Request
  <2>2. QED
    BY <1>1, <1>3, <2>1, StatusSet DEF Promise!Settle
<1>6. QED
  BY <1>2, <1>4, <1>5

(******************************* friendships *******************************)

\* The friendship and the status together; a share cannot be on an id that was
\* never given out.
LEMMA RequestAccepted ==
  ASSUME TableInv, NEW r \in requests, r.status = "pending",
         InsertFriendship(r.from, r.to), SetStatus({r}, "accepted"),
         UNCHANGED <<clients, invites, shares>>
  PROVE  TableInv' /\ Aging /\ \E u, v \in Users : Promise!Befriend(u, v)
<1>1. PICK id \in FriendshipIds \ spent :
        /\ friendships' = friendships \cup {[id |-> id, pair |-> Pair(r.from, r.to)]}
        /\ spent' = spent \cup {id}
  BY DEF InsertFriendship
<1> DEFINE f == [id |-> id, pair |-> Pair(r.from, r.to)]
<1>2. r.from \in Users /\ r.to \in Users /\ r.from # r.to
  BY DEF TableInv, TablesOK, Request, Keys
<1>3. /\ f \in Friendship /\ f.id = id /\ f.pair = Pair(r.from, r.to)
      /\ friendships' = friendships \cup {f}
  BY <1>1, <1>2 DEF Friendship, Pairs, Pair
<1> HIDE DEF f
<1>4. \A e \in friendships : e.pair # f.pair /\ e.id \in spent
  BY <1>3 DEF InsertFriendship, FriendshipOf, TableInv, Keys
<1>5. /\ requests' \subseteq Request
      /\ \A q, p \in requests' : q.id = p.id => q = p
      /\ \A q, p \in requests' :
           q.status = "pending" /\ p.status = "pending"
             /\ Pair(q.from, q.to) = Pair(p.from, p.to) => q = p
      /\ \A q \in requests' : q.from # q.to
      /\ Asked' = Asked \ {<<r.from, r.to>>}
  <2>1. {r} \in SUBSET requests /\ "accepted" \in Statuses \ {"pending"}
    BY DEF Statuses
  <2>2. QED
    BY <2>1, StatusSet
<1>6. TablesOK' /\ Aging
  BY <1>1, <1>3, <1>5 DEF TableInv, TablesOK, Aging
<1>7. Keys'
  <2>1. \A e, h \in friendships' : e.id = h.id \/ e.pair = h.pair => e = h
    BY <1>1, <1>3, <1>4 DEF TableInv, Keys
  <2>2. \A e \in friendships' : e.id \in spent'
    BY <1>1, <1>3 DEF TableInv, Keys
  <2>3. QED
    BY <1>5, <2>1, <2>2 DEF Keys
<1>8. ShareOnOwnFriendship'
  BY <1>3 DEF TableInv, ShareOnOwnFriendship
<1>9. Paired' = Paired \cup {{r.from, r.to}} /\ {r.from, r.to} \notin Paired
  BY <1>3, <1>4 DEF Paired, Pair
<1>10. Granted' = Granted
  <2>1. \A s \in shares : s.friendship # f.id
    BY <1>1, <1>3, <1>4 DEF TableInv, ShareOnOwnFriendship
  <2>2. \A v \in Users : SharedWith(v)' = SharedWith(v)
    BY <1>3, <2>1 DEF SharedWith
  <2>3. QED
    BY <2>2 DEF Granted
<1>11. <<r.from, r.to>> \in Asked
  BY <1>2 DEF Asked
<1>12. QED
  BY <1>2, <1>5, <1>6, <1>7, <1>8, <1>9, <1>10, <1>11 DEF TableInv, Promise!Befriend

LEMMA Accepting ==
  ASSUME TableInv, NEW u \in Users, NEW id \in RequestIds \cup {None}, AcceptTx(u, id)
  PROVE  /\ TableInv' /\ Aging
         /\ \/ UNCHANGED <<Paired, Asked, Granted>>
            \/ \E a, b \in Users : Promise!Befriend(a, b)
<1>1. CASE \E r \in Answerable(u, id) :
             InsertFriendship(r.from, r.to) /\ SetStatus({r}, "accepted")
  BY <1>1, RequestAccepted DEF AcceptTx, Answerable
<1>2. CASE UNCHANGED <<friendships, requests, spent>>
  BY <1>2, TablesKept DEF AcceptTx, tables
<1>3. QED
  BY <1>1, <1>2 DEF AcceptTx

\* The shares of the friendship go with it.
LEMMA Unfriended ==
  ASSUME TableInv, NEW u \in Users, NEW v \in Users, Unfriend(u, v)
  PROVE  TableInv' /\ Aging /\ Promise!Part(u, v)
<1>1. /\ friendships' = {f \in friendships : f.pair # {u, v}}
      /\ shares' = {s \in shares : \A f \in friendships : f.pair = {u, v} => s.friendship # f.id}
      /\ UNCHANGED <<clients, requests, invites, spent>>
  BY DEF Unfriend, FriendshipOf, Pair
<1>2. TablesOK' /\ Aging
  BY <1>1 DEF TableInv, TablesOK, Aging
<1>3. Keys'
  BY <1>1 DEF TableInv, Keys
<1>4. ShareOnOwnFriendship'
  BY <1>1 DEF TableInv, ShareOnOwnFriendship
<1>5. Paired' = Paired \ {{u, v}}
  BY <1>1 DEF Paired
<1>6. Asked' = Asked
  BY <1>1 DEF Asked
<1>7. ASSUME NEW c \in Clients, NEW w \in Users
      PROVE  <<c, w>> \in Granted' <=> <<c, w>> \in Granted /\ {Owner[c], w} # {u, v}
  <2>1. ASSUME NEW s \in shares, s.client = c, Owner[c] # w,
               NEW f \in friendships, f.id = s.friendship, w \in f.pair
        PROVE  f.pair = {Owner[c], w}
    <3>1. Owner[c] \in f.pair
      BY <2>1 DEF TableInv, ShareOnOwnFriendship, Keys
    <3>2. f.pair \in Pairs
      BY DEF TableInv, TablesOK, Friendship
    <3>3. QED
      BY <2>1, <3>1, <3>2 DEF Pairs, Pair
  <2>2. <<c, w>> \in Granted' => <<c, w>> \in Granted /\ {Owner[c], w} # {u, v}
    BY <1>1, <2>1 DEF Granted, SharedWith
  <2>3. ASSUME <<c, w>> \in Granted, {Owner[c], w} # {u, v}
        PROVE  <<c, w>> \in Granted'
    <3>1. PICK s \in shares : s.client = c /\ Owner[c] # w /\
                 \E f \in friendships : f.id = s.friendship /\ w \in f.pair
      BY <2>3 DEF Granted, SharedWith
    <3>2. PICK f \in friendships : f.id = s.friendship /\ w \in f.pair
      BY <3>1
    <3>3. f.pair # {u, v}
      BY <2>1, <2>3, <3>1, <3>2
    <3>4. f \in friendships' /\ s \in shares'
      BY <1>1, <3>2, <3>3 DEF TableInv, Keys
    <3>5. QED
      BY <3>1, <3>2, <3>4 DEF Granted, SharedWith
  <2>4. QED
    BY <2>2, <2>3
<1>8. Granted' = {x \in Granted : {Owner[x[1]], x[2]} # {u, v}}
  BY <1>7 DEF Granted
<1>9. QED
  BY <1>2, <1>3, <1>4, <1>5, <1>6, <1>8 DEF TableInv, Promise!Part

(***************************** shares, clients *****************************)

\* The pair of the friendship a client is shared through.
LEMMA SharedPair ==
  ASSUME TableInv, NEW s \in shares, NEW f \in friendships, f.id = s.friendship,
         NEW w \in f.pair, Owner[s.client] # w
  PROVE  f.pair = {Owner[s.client], w}
<1>1. Owner[s.client] \in f.pair
  BY DEF TableInv, ShareOnOwnFriendship, Keys
<1>2. f.pair \in Pairs
  BY DEF TableInv, TablesOK, Friendship
<1>3. QED
  BY <1>1, <1>2 DEF Pairs, Pair

\* Granting through a friendship that exists shows the client to its other member.
LEMMA ShareInserted ==
  ASSUME TableInv, NEW c \in Clients, NEW f \in friendships, Owner[c] \in f.pair,
         shares' = shares \cup {[client |-> c, friendship |-> f.id]},
         UNCHANGED <<clients, friendships, requests, invites, spent>>
  PROVE  TableInv' /\ Aging /\ \E w \in Users : Promise!Grant(c, w)
<1> DEFINE s == [client |-> c, friendship |-> f.id]
<1>1. f \in Friendship /\ f.pair \in Pairs /\ f.id \in FriendshipIds
  BY DEF TableInv, TablesOK, Friendship
<1>2. /\ s \in Share /\ s.client = c /\ s.friendship = f.id /\ shares' = shares \cup {s}
  BY <1>1 DEF Share
<1> HIDE DEF s
<1>3. PICK w \in Users : w # Owner[c] /\ f.pair = {Owner[c], w}
  BY <1>1 DEF Pairs, Pair
<1>4. TablesOK' /\ Aging /\ Keys'
  BY <1>2 DEF TableInv, TablesOK, Keys, Aging
<1>5. ShareOnOwnFriendship'
  BY <1>2 DEF TableInv, ShareOnOwnFriendship
<1>6. Paired' = Paired /\ Asked' = Asked /\ {Owner[c], w} \in Paired
  BY <1>3 DEF Paired, Asked
<1>7. \A e \in friendships : e.id = f.id => e = f
  BY DEF TableInv, Keys
<1>8. \A x \in Clients \X Users : x \in Granted' <=> x \in Granted \/ (x[1] = c /\ x[2] = w)
  BY <1>2, <1>3, <1>7 DEF Granted, SharedWith
<1>9. Granted' = Granted \cup {<<c, w>>}
  BY <1>8 DEF Granted
<1>10. QED
  BY <1>4, <1>5, <1>6, <1>9 DEF TableInv, Promise!Grant

\* Revoking takes the client from the other member, or finds the friendship gone.
LEMMA ShareDeleted ==
  ASSUME TableInv, NEW c \in Clients, NEW id \in FriendshipIds,
         shares' = shares \ {[client |-> c, friendship |-> id]},
         UNCHANGED <<clients, friendships, requests, invites, spent>>
  PROVE  /\ TableInv' /\ Aging
         /\ \/ UNCHANGED <<Paired, Asked, Granted>>
            \/ \E w \in Users : Promise!Revoke(c, w)
<1> DEFINE s == [client |-> c, friendship |-> id]
<1>1. s.client = c /\ s.friendship = id /\ shares' = shares \ {s}
  OBVIOUS
<1>2. \A t \in shares : t.client = c /\ t.friendship = id => t = s
  BY DEF TableInv, TablesOK, Share
<1> HIDE DEF s
<1>3. TableInv' /\ Aging
  BY <1>1 DEF TableInv, TablesOK, Keys, ShareOnOwnFriendship, Aging
<1>4. Paired' = Paired /\ Asked' = Asked
  BY DEF Paired, Asked
<1>5. CASE s \notin shares
  <2>1. shares' = shares
    BY <1>1, <1>5
  <2>2. QED
    BY <2>1, <1>3, <1>4 DEF Granted, SharedWith
<1>6. CASE s \in shares
  <2>1. PICK f \in friendships : f.id = id /\ Owner[c] \in f.pair
    BY <1>1, <1>6 DEF TableInv, ShareOnOwnFriendship
  <2>2. f.pair \in Pairs
    BY DEF TableInv, TablesOK, Friendship
  <2>3. PICK w \in Users : w # Owner[c] /\ f.pair = {Owner[c], w}
    BY <2>1, <2>2 DEF Pairs, Pair
  <2>4. ASSUME NEW x \in Clients \X Users
        PROVE  x \in Granted' <=> x \in Granted /\ x # <<c, w>>
    <3>1. x = <<x[1], x[2]>>
      OBVIOUS
    <3>2. x \in Granted' => x \in Granted
      BY <1>1 DEF Granted, SharedWith
    <3>3. ASSUME x \in Granted', x[1] = c, x[2] = w PROVE FALSE
      <4>1. PICK t \in shares' : /\ t.client = c /\ Owner[c] # w
                                 /\ \E e \in friendships : e.id = t.friendship /\ w \in e.pair
        BY <3>3 DEF Granted, SharedWith
      <4>2. PICK e \in friendships : e.id = t.friendship /\ w \in e.pair
        BY <4>1
      <4>3. t \in shares /\ e.pair = f.pair
        BY <1>1, <2>3, <4>1, <4>2, SharedPair
      <4>4. t.friendship = id
        BY <2>1, <4>2, <4>3 DEF TableInv, Keys
      <4>5. QED
        BY <1>1, <1>2, <4>1, <4>3, <4>4
    <3>4. ASSUME x \in Granted, x # <<c, w>> PROVE x \in Granted'
      <4>1. PICK t \in shares : /\ t.client = x[1] /\ Owner[t.client] # x[2]
                                /\ \E e \in friendships : e.id = t.friendship /\ x[2] \in e.pair
        BY <3>4 DEF Granted, SharedWith
      <4>2. PICK e \in friendships : e.id = t.friendship /\ x[2] \in e.pair
        BY <4>1
      <4>3. t # s
        <5>1. SUFFICES ASSUME t = s PROVE FALSE
          OBVIOUS
        <5>2. e = f /\ x[1] = c
          BY <1>1, <2>1, <4>1, <4>2, <5>1 DEF TableInv, Keys
        <5>3. x[2] = w
          BY <2>3, <4>1, <4>2, <5>2
        <5>4. QED
          BY <3>1, <3>4, <5>2, <5>3
      <4>4. t \in shares'
        BY <1>1, <4>3
      <4>5. QED
        BY <4>1, <4>2, <4>4 DEF Granted, SharedWith
    <3>5. QED
      BY <3>1, <3>2, <3>3, <3>4
  <2>5. Granted' = Granted \ {<<c, w>>}
    BY <2>4 DEF Granted
  <2>6. QED
    BY <1>3, <1>4, <2>5 DEF Promise!Revoke
<1>7. QED
  BY <1>5, <1>6

LEMMA ShareWritten ==
  ASSUME IInv, NEW g \in Goroutines, WriteShare(g)
  PROVE  /\ TableInv' /\ Aging /\ CallsOK' /\ NotesOK'
         /\ \/ UNCHANGED <<Paired, Asked, Granted>>
            \/ \E c \in Clients, w \in Users : Promise!Grant(c, w) \/ Promise!Revoke(c, w)
<1> DEFINE n == calls[g]
           s == [client |-> n.client, friendship |-> n.friendship]
<1>1. /\ n # None /\ n.at \in {"grant", "revoke"} /\ Return(g)
      /\ UNCHANGED <<clients, friendships, requests, invites, spent>>
  BY DEF WriteShare, Busy
<1>2. /\ n.client \in Clients /\ Owner[n.client] = n.me /\ n.friendship \in FriendshipIds
      /\ \A f \in friendships : f.id = n.friendship => n.me \in f.pair
  BY <1>1, NoteOf DEF IInv, NoteOK
<1>3. CASE Busy(g, "grant") /\ ShareFits(s) /\ shares' = shares \cup {s}
  <2>1. PICK f \in friendships : f.id = n.friendship
    BY <1>3 DEF ShareFits
  <2>2. QED
    BY <1>1, <1>2, <1>3, <2>1, ShareInserted, Returning DEF IInv
<1>4. CASE UNCHANGED shares
  <2>1. UNCHANGED tables
    BY <1>1, <1>4 DEF tables
  <2>2. QED
    BY <1>1, <2>1, TablesKept, Returning DEF IInv
<1>5. CASE shares' = shares \ {s}
  BY <1>1, <1>2, <1>5, ShareDeleted, Returning DEF IInv
<1>6. QED
  BY <1>3, <1>4, <1>5 DEF WriteShare

LEMMA ClientDeleted ==
  ASSUME TableInv, NEW c \in Clients, DeleteClient(c)
  PROVE  TableInv' /\ Aging /\ Promise!Lose(c)
<1>1. TableInv' /\ Aging
  BY DEF DeleteClient, TableInv, TablesOK, Keys, ShareOnOwnFriendship, Aging
<1>2. Paired' = Paired /\ Asked' = Asked
  BY DEF DeleteClient, Paired, Asked
<1>3. \A x \in Clients \X Users : x \in Granted' <=> x \in Granted /\ x[1] # c
  BY DEF DeleteClient, Granted, SharedWith
<1>4. Granted' = {x \in Granted : x[1] # c}
  BY <1>3 DEF Granted
<1>5. QED
  BY <1>1, <1>2, <1>4 DEF Promise!Lose

\* Links are no part of the circle.
LEMMA InvitesOnly ==
  ASSUME TableInv, invites' \subseteq Invite, spent \subseteq spent',
         spent' \subseteq FriendshipIds \cup InviteIds,
         UNCHANGED <<clients, friendships, requests, shares>>
  PROVE  TableInv' /\ Aging /\ UNCHANGED <<Paired, Asked, Granted>>
<1>1. TableInv' /\ Aging
  BY DEF TableInv, TablesOK, Keys, ShareOnOwnFriendship, Aging
<1>2. Paired' = Paired /\ Asked' = Asked /\ Granted' = Granted
  BY DEF Paired, Asked, Granted, SharedWith
<1>3. QED
  BY <1>1, <1>2

(********************************* the calls *******************************)

LEMMA ContinueKeeps ==
  ASSUME IInv, NEW g \in Goroutines, Continue(g)
  PROVE  /\ TableInv' /\ CallsOK' /\ NotesOK'
         /\ Promise!Next \/ UNCHANGED <<Paired, Asked, Granted>>
<1>1. CASE ReadFriendship(g) \/ ReadPending(g) \/ ReadGrantee(g) \/ Abandon(g)
  BY <1>1, ReadsKeep, TablesKept DEF IInv
<1>2. CASE CreateFriendRequest(g)
  <2> DEFINE n == calls[g]
  <2>1. n # None /\ n.at = "insert" /\ Return(g)
    BY <1>2 DEF CreateFriendRequest, Busy
  <2>2. n.me \in Users /\ n.other \in Users /\ n.me # n.other
    BY <2>1, NoteOf DEF IInv, NoteOK, Note
  <2>3. CASE ~ PendingKeyFree(n.me, n.other)
    <3>1. UNCHANGED tables
      BY <1>2, <2>3 DEF CreateFriendRequest, tables
    <3>2. QED
      BY <2>1, <3>1, TablesKept, Returning DEF IInv
  <2>4. CASE PendingKeyFree(n.me, n.other)
    <3>1. PICK id \in RequestIds \ {r.id : r \in requests} :
            requests' = requests \cup {[id |-> id, from |-> n.me, to |-> n.other,
                                        status |-> "pending"]}
      BY <1>2, <2>4 DEF CreateFriendRequest
    <3>2. \A r \in requests : r.id # id
      OBVIOUS
    <3> HIDE DEF n
    <3>3. TableInv' /\ Aging /\ Promise!Ask(n.me, n.other)
      BY <1>2, <2>2, <2>4, <3>1, <3>2, RequestInserted DEF IInv, CreateFriendRequest
    <3>4. QED
      BY <2>1, <2>2, <3>3, Returning DEF IInv, Promise!Next
  <2>5. QED
    BY <2>3, <2>4
<1>3. CASE AutoAccept(g)
  <2>1. calls[g] # None /\ Return(g) /\ AcceptTx(calls[g].me, calls[g].request)
    BY <1>3 DEF AutoAccept, Busy
  <2>2. calls[g].me \in Users /\ calls[g].request \in RequestIds \cup {None}
    BY <2>1, NoteOf DEF IInv, Note
  <2>3. QED
    BY <2>1, <2>2, Accepting, Returning DEF IInv, Promise!Next
<1>4. CASE CreateInvite(g)
  <2>1. PICK id \in InviteIds \ spent :
          /\ invites' = {i \in invites : \A d \in calls[g].invites : d.id # i.id}
                          \cup {[id |-> id, by |-> calls[g].me, expired |-> FALSE]}
          /\ spent' = spent \cup {id}
    BY <1>4 DEF CreateInvite
  <2>2. calls[g] # None /\ Return(g) /\ UNCHANGED <<clients, friendships, requests, shares>>
    BY <1>4 DEF CreateInvite, Busy
  <2>3. calls[g].me \in Users
    BY <2>2, NoteOf DEF IInv, Note
  <2>4. [id |-> id, by |-> calls[g].me, expired |-> FALSE] \in Invite
    BY <2>3 DEF Invite
  <2>5. /\ invites' \subseteq Invite /\ spent \subseteq spent'
        /\ spent' \subseteq FriendshipIds \cup InviteIds
    BY <2>1, <2>4 DEF IInv, TableInv, TablesOK
  <2>6. QED
    BY <2>2, <2>5, InvitesOnly, Returning DEF IInv
<1>5. CASE WriteShare(g)
  BY <1>5, ShareWritten DEF Promise!Next
<1>6. QED
  BY <1>1, <1>2, <1>3, <1>4, <1>5 DEF Continue

LEMMA OneStatementKeeps ==
  ASSUME IInv, OneStatement
  PROVE  /\ TableInv' /\ CallsOK' /\ NotesOK'
         /\ Promise!Next \/ UNCHANGED <<Paired, Asked, Granted>>
<1>1. UNCHANGED calls
  BY DEF OneStatement, Accept, Decline, Cancel, Unfriend, DeleteInvite, DeleteClient
<1>2. SUFFICES /\ TableInv' /\ Aging
               /\ Promise!Next \/ UNCHANGED <<Paired, Asked, Granted>>
  BY <1>1, NotesAge DEF IInv
<1>3. ASSUME NEW u \in Users, NEW id \in RequestIds, Accept(u, id)
      PROVE  /\ TableInv' /\ Aging
             /\ Promise!Next \/ UNCHANGED <<Paired, Asked, Granted>>
  BY <1>3, Accepting DEF Accept, IInv, Promise!Next
<1>4. ASSUME NEW u \in Users, NEW id \in RequestIds, Decline(u, id) \/ Cancel(u, id)
      PROVE  /\ TableInv' /\ Aging
             /\ Promise!Next \/ UNCHANGED <<Paired, Asked, Granted>>
  <2>1. PICK S \in SUBSET requests, status \in {"declined", "cancelled"} :
          /\ \A r \in S : r.id = id /\ r.status = "pending"
          /\ SetStatus(S, status)
    <3>1. CASE Decline(u, id)
      BY <3>1 DEF Decline, Answerable
    <3>2. CASE Cancel(u, id)
      BY <3>2 DEF Cancel
    <3>3. QED
      BY <1>4, <3>1, <3>2
  <2>2. \A q, r \in S : q = r
    BY <2>1 DEF IInv, TableInv, Keys
  <2>3. UNCHANGED <<clients, friendships, invites, shares, spent>>
    BY <1>4 DEF Decline, Cancel
  <2>4. QED
    BY <2>1, <2>2, <2>3, RequestSettled DEF IInv, Promise!Next
<1>5. ASSUME NEW u \in Users, NEW v \in Users, Unfriend(u, v)
      PROVE  /\ TableInv' /\ Aging
             /\ Promise!Next \/ UNCHANGED <<Paired, Asked, Granted>>
  BY <1>5, Unfriended DEF IInv, Promise!Next
<1>6. ASSUME NEW u \in Users, NEW id \in InviteIds, DeleteInvite(u, id)
      PROVE  /\ TableInv' /\ Aging
             /\ Promise!Next \/ UNCHANGED <<Paired, Asked, Granted>>
  BY <1>6, InvitesOnly DEF DeleteInvite, IInv, TableInv, TablesOK
<1>7. ASSUME NEW c \in Clients, DeleteClient(c)
      PROVE  /\ TableInv' /\ Aging
             /\ Promise!Next \/ UNCHANGED <<Paired, Asked, Granted>>
  BY <1>7, ClientDeleted DEF IInv, Promise!Next
<1>8. QED
  BY <1>3, <1>4, <1>5, <1>6, <1>7 DEF OneStatement

LEMMA StepKeeps ==
  ASSUME IInv, [Next]_vars
  PROVE  IInv' /\ (Promise!Next \/ UNCHANGED <<Paired, Asked, Granted>>)
<1>1. ASSUME NEW g \in Goroutines, Begin(g)
      PROVE  IInv' /\ UNCHANGED <<Paired, Asked, Granted>>
  BY <1>1, BeginKeeps, TablesKept DEF IInv
<1>2. ASSUME NEW g \in Goroutines, Continue(g)
      PROVE  IInv' /\ (Promise!Next \/ UNCHANGED <<Paired, Asked, Granted>>)
  BY <1>2, ContinueKeeps DEF IInv
<1>3. CASE OneStatement
  BY <1>3, OneStatementKeeps DEF IInv
<1>4. ASSUME NEW i \in invites, ExpireInvite(i)
      PROVE  IInv' /\ UNCHANGED <<Paired, Asked, Granted>>
  <2>1. [i EXCEPT !.expired = TRUE] \in Invite
    BY DEF IInv, TableInv, TablesOK, Invite
  <2>2. invites' \subseteq Invite
    BY <1>4, <2>1 DEF ExpireInvite, IInv, TableInv, TablesOK
  <2>3. TableInv' /\ Aging /\ UNCHANGED <<Paired, Asked, Granted>>
    BY <1>4, <2>2, InvitesOnly DEF ExpireInvite, IInv, TableInv, TablesOK
  <2>4. QED
    BY <1>4, <2>3, NotesAge DEF ExpireInvite, IInv
<1>5. CASE UNCHANGED vars
  <2>1. UNCHANGED tables /\ UNCHANGED calls
    BY <1>5 DEF vars
  <2>2. QED
    BY <2>1, TablesKept, NotesAge DEF IInv
<1>6. QED
  BY <1>1, <1>2, <1>3, <1>4, <1>5 DEF Next

LEMMA InitKeeps ==
  ASSUME Init
  PROVE  IInv /\ Promise!Init
<1>1. TableInv /\ CallsOK /\ NotesOK
  BY DEF Init, TableInv, TablesOK, Keys, ShareOnOwnFriendship, CallsOK, NotesOK
<1>2. Promise!Init
  BY DEF Init, Promise!Init, Paired, Asked, Granted, SharedWith
<1>3. QED
  BY <1>1, <1>2 DEF IInv

(********************************* theorems ********************************)

\* The invariant: types, the unique keys, shares on friendships of their client's
\* owner, and notes whose facts are still true when they are used.
THEOREM Invariance == Spec => []IInv
<1>1. Init => IInv
  BY InitKeeps
<1>2. IInv /\ [Next]_vars => IInv'
  BY StepKeeps
<1>3. QED
  BY <1>1, <1>2, PTL DEF Spec

\* Tables and notes keep their types.
THEOREM TypeCorrect == Spec => []TypeOK
<1>1. IInv => TypeOK
  BY DEF IInv, TableInv, TablesOK, CallsOK, TypeOK
<1>2. QED
  BY <1>1, Invariance, PTL

\* Every share hangs on a friendship of the owner of its client, although
\* SetSharing reads client and friendship in statements of their own.
THEOREM SharesAreOwn == Spec => []ShareOnOwnFriendship
<1>1. IInv => ShareOnOwnFriendship
  BY DEF IInv, TableInv
<1>2. QED
  BY <1>1, Invariance, PTL

\* The calls, interleaved statement by statement, implement the circle: consent
\* of both sides, revocation in both directions, no grant revived.
THEOREM FriendsImplementCircle == Spec => KeepsPromise
<1>1. Init => Promise!Init
  BY InitKeeps
<1>2. IInv /\ [Next]_vars => [Promise!Next]_(Promise!vars)
  BY StepKeeps DEF Promise!vars
<1>3. QED
  BY <1>1, <1>2, Invariance, PTL DEF Spec, KeepsPromise, Promise!Spec

(***************************** history of requests **************************)

\* A step makes a friendship by accepting a pending request, or it makes none
\* and accepts none; either way it rewrites no row that is not pending.
Befriends(r) ==
  /\ r \in requests /\ r.status = "pending"
  /\ InsertFriendship(r.from, r.to) /\ SetStatus({r}, "accepted")

AcceptsNothing ==
  /\ friendships' \subseteq friendships
  /\ \A r \in requests' : r \in requests \/ r.status # "accepted"
  /\ \A r \in requests : r \in requests' \/ r.status = "pending"

LEMMA RequestsMove ==
  ASSUME IInv, [Next]_vars
  PROVE  AcceptsNothing \/ \E r \in requests : Befriends(r)
<1>1. ASSUME UNCHANGED <<friendships, requests>> PROVE AcceptsNothing
  BY <1>1 DEF AcceptsNothing
<1>2. ASSUME NEW u, NEW id, AcceptTx(u, id)
      PROVE  AcceptsNothing \/ \E r \in requests : Befriends(r)
  BY <1>1, <1>2 DEF AcceptTx, Answerable, Befriends
<1>3. ASSUME NEW g \in Goroutines, Begin(g)
      PROVE  AcceptsNothing
  BY <1>1, <1>3 DEF Begin, SendRequest, ClaimInvite, DeleteUnclaimedInvites, SetSharing, tables
<1>4. ASSUME NEW g \in Goroutines, Continue(g)
      PROVE  AcceptsNothing \/ \E r \in requests : Befriends(r)
  <2>1. CASE CreateFriendRequest(g)
    <3>1. CASE UNCHANGED requests
      BY <1>1, <2>1, <3>1 DEF CreateFriendRequest
    <3>2. ASSUME NEW id, NEW u, NEW v,
                 requests' = requests \cup {[id |-> id, from |-> u, to |-> v, status |-> "pending"]}
          PROVE  AcceptsNothing
      BY <2>1, <3>2 DEF AcceptsNothing, CreateFriendRequest
    <3>3. QED
      BY <2>1, <3>1, <3>2 DEF CreateFriendRequest
  <2>2. CASE AutoAccept(g)
    BY <1>2, <2>2 DEF AutoAccept
  <2>3. CASE ~ CreateFriendRequest(g) /\ ~ AutoAccept(g)
    BY <1>1, <1>4, <2>3 DEF Continue, ReadFriendship, ReadPending, ReadGrantee, Abandon,
         CreateInvite, WriteShare, tables
  <2>4. QED
    BY <2>1, <2>2, <2>3
<1>5. CASE OneStatement
  <2>1. ASSUME NEW S \in SUBSET requests, \A r \in S : r.status = "pending",
               NEW status \in {"declined", "cancelled"}, SetStatus(S, status),
               UNCHANGED friendships
        PROVE  AcceptsNothing
    <3>1. \A r \in S : [r EXCEPT !.status = status].status # "accepted"
      BY DEF IInv, TableInv, TablesOK, Request
    <3>2. QED
      BY <2>1, <3>1 DEF AcceptsNothing, SetStatus
  <2>2. ASSUME NEW u \in Users, NEW id \in RequestIds, Decline(u, id) PROVE AcceptsNothing
    BY <2>1, <2>2 DEF Decline, Answerable
  <2>3. ASSUME NEW u \in Users, NEW id \in RequestIds, Cancel(u, id) PROVE AcceptsNothing
    BY <2>1, <2>3 DEF Cancel
  <2>4. ASSUME NEW u \in Users, NEW v \in Users, Unfriend(u, v) PROVE AcceptsNothing
    BY <2>4 DEF Unfriend, AcceptsNothing
  <2>5. QED
    BY <1>1, <1>2, <1>5, <2>2, <2>3, <2>4
       DEF OneStatement, Accept, DeleteInvite, DeleteClient
<1>6. CASE (\E i \in invites : ExpireInvite(i)) \/ UNCHANGED vars
  BY <1>1, <1>6 DEF ExpireInvite, vars, tables
<1>7. QED
  BY <1>3, <1>4, <1>5, <1>6 DEF Next

\* The row of the request turns, and its friendship is a new row.
LEMMA BefriendingIsWhole ==
  ASSUME IInv, NEW r \in requests, Befriends(r)
  PROVE  /\ \E f, q :
              /\ friendships' \ friendships = {f} /\ requests' = (requests \ {r}) \cup {q}
              /\ q \notin requests /\ q.status = "accepted" /\ f.pair = Pair(q.from, q.to)
<1> DEFINE q == [r EXCEPT !.status = "accepted"]
<1>1. PICK id \in FriendshipIds \ spent :
        friendships' = friendships \cup {[id |-> id, pair |-> Pair(r.from, r.to)]}
  BY DEF Befriends, InsertFriendship
<1> DEFINE f == [id |-> id, pair |-> Pair(r.from, r.to)]
<1>2. f \notin friendships
  <2>1. f.id = id
    OBVIOUS
  <2>2. QED
    BY <2>1 DEF IInv, TableInv, Keys
<1>3. r \in Request
  BY DEF IInv, TableInv, TablesOK
<1>4. q.id = r.id /\ q.from = r.from /\ q.to = r.to /\ q.status = "accepted"
  BY <1>3 DEF Request
<1>5. requests' = (requests \ {r}) \cup {q}
  BY <1>3 DEF Befriends, SetStatus
<1>6. f.pair = Pair(q.from, q.to)
  BY <1>4
<1>7. friendships' \ friendships = {f}
  BY <1>1, <1>2
<1> HIDE DEF q, f
<1>8. q \notin requests
  BY <1>4 DEF IInv, TableInv, Keys, Befriends
<1>9. QED
  BY <1>4, <1>5, <1>6, <1>7, <1>8

\* A request turns accepted in the step that makes the friendship and only there,
\* for any number of users and calls in flight.
THEOREM AcceptedTogether == Spec => AcceptanceIsWhole
<1>1. ASSUME IInv, [Next]_vars
      PROVE  /\ \A r \in requests' : r.status = "accepted" /\ r \notin requests =>
                  \E f \in friendships' \ friendships : f.pair = Pair(r.from, r.to)
             /\ \A f \in friendships' \ friendships :
                  \E r \in requests' \ requests : r.status = "accepted" /\ f.pair = Pair(r.from, r.to)
  <2>1. CASE AcceptsNothing
    BY <2>1 DEF AcceptsNothing
  <2>2. ASSUME NEW r \in requests, Befriends(r)
        PROVE  /\ \A q \in requests' : q.status = "accepted" /\ q \notin requests =>
                    \E f \in friendships' \ friendships : f.pair = Pair(q.from, q.to)
               /\ \A f \in friendships' \ friendships :
                    \E q \in requests' \ requests : q.status = "accepted" /\ f.pair = Pair(q.from, q.to)
    BY <1>1, <2>2, BefriendingIsWhole
  <2>3. QED
    BY <1>1, <2>1, <2>2, RequestsMove
<1>2. QED
  BY <1>1, Invariance, PTL DEF Spec, AcceptanceIsWhole

\* What was answered or taken back stays as it is, even for a call that read the
\* row while it was pending.
THEOREM AnswersStay == Spec => HistoryStays
<1>1. ASSUME IInv, [Next]_vars
      PROVE  \A r \in requests : r.status # "pending" => r \in requests'
  <2>1. CASE AcceptsNothing
    BY <2>1 DEF AcceptsNothing
  <2>2. ASSUME NEW r \in requests, Befriends(r)
        PROVE  \A q \in requests : q.status # "pending" => q \in requests'
    BY <2>2 DEF Befriends, SetStatus
  <2>3. QED
    BY <1>1, <2>1, <2>2, RequestsMove
<1>2. QED
  BY <1>1, Invariance, PTL DEF Spec, HistoryStays

(********************************** links **********************************)

\* The links of a user come from goroutines that are all different: m tells which
\* one inserted a link, and a transaction of that goroutine that is open now has
\* the link among those it deletes.
MintedBy(m) ==
  /\ \A i \in invites : i.id \in spent /\ m[i.id] \in Goroutines
  /\ \A i, j \in invites : i.by = j.by /\ m[i.id] = m[j.id] => i = j
  /\ \A g \in Goroutines, i \in invites :
       calls[g] # None /\ calls[g].at = "mint" /\ calls[g].me = i.by /\ m[i.id] = g =>
         \E d \in calls[g].invites : d.id = i.id

Minted == \E m \in [InviteIds -> Goroutines \cup {None}] : MintedBy(m)

\* Calls that are not in the transaction of CreateInvite have nothing to delete.
LEMMA NoMint ==
  ASSUME NEW m, MintedBy(m), invites' \subseteq invites, spent \subseteq spent',
         \A g \in Goroutines : calls'[g] # None /\ calls'[g].at = "mint" => calls'[g] = calls[g]
  PROVE  MintedBy(m)'
<1>1. \A i \in invites' : i.id \in spent' /\ m[i.id] \in Goroutines
  BY DEF MintedBy
<1>2. \A i, j \in invites' : i.by = j.by /\ m[i.id] = m[j.id] => i = j
  BY DEF MintedBy
<1>3. \A g \in Goroutines, i \in invites' :
        calls'[g] # None /\ calls'[g].at = "mint" /\ calls'[g].me = i.by /\ m[i.id] = g =>
          \E d \in calls'[g].invites : d.id = i.id
  BY DEF MintedBy
<1>4. QED
  BY <1>1, <1>2, <1>3 DEF MintedBy

\* The note of one goroutine changes and is no open CreateInvite.
LEMMA NotMinting ==
  ASSUME CallsOK, NEW g \in Goroutines, NEW n, Goto(g, n), n = None \/ n.at # "mint",
         NEW h \in Goroutines, calls'[h] # None, calls'[h].at = "mint"
  PROVE  calls'[h] = calls[h]
<1>1. CASE h = g
  BY <1>1 DEF Goto, CallsOK
<1>2. CASE h # g
  BY <1>2 DEF Goto, CallsOK
<1>3. QED
  BY <1>1, <1>2

LEMMA BeginMints ==
  ASSUME IInv, NEW m, MintedBy(m), NEW g \in Goroutines, Begin(g)
  PROVE  MintedBy(m)'
<1>0. UNCHANGED tables
  BY BeginKeeps
<1>1. ASSUME NEW n, Goto(g, n), n.at # "mint" PROVE MintedBy(m)'
  BY <1>0, <1>1, NoMint, NotMinting DEF IInv, tables
<1>2. ASSUME NEW u \in Users, DeleteUnclaimedInvites(g, u)
      PROVE  MintedBy(m)'
  <2> DEFINE I == {i \in invites : i.by = u}
             n == [Blank("mint", u) EXCEPT !.invites = I]
  <2>1. Goto(g, n) /\ n.invites = I /\ n.me = u
    BY <1>2 DEF DeleteUnclaimedInvites, Blank
  <2> HIDE DEF n
  <2>2. calls'[g] = n /\ \A h \in Goroutines : h # g => calls'[h] = calls[h]
    BY <2>1 DEF Goto, IInv, CallsOK
  <2>3. \A i \in invites : i.by = u => \E d \in n.invites : d.id = i.id
    BY <2>1
  <2>4. ASSUME NEW h \in Goroutines, NEW i \in invites, calls'[h] # None,
               calls'[h].at = "mint", calls'[h].me = i.by, m[i.id] = h
        PROVE  \E d \in calls'[h].invites : d.id = i.id
    <3>1. CASE h = g
      BY <3>1, <2>1, <2>2, <2>3, <2>4
    <3>2. CASE h # g
      BY <3>2, <2>2, <2>4 DEF MintedBy
    <3>3. QED
      BY <3>1, <3>2
  <2>5. QED
    BY <1>0, <2>4 DEF MintedBy, tables
<1>3. ASSUME NEW u \in Users, NEW v \in Users, SendRequest(g, u, v) PROVE MintedBy(m)'
  <2> DEFINE n == [Blank("pair", u) EXCEPT !.other = v]
  <2>1. Goto(g, n) /\ n.at = "pair"
    BY <1>3 DEF SendRequest, Blank
  <2>2. QED
    BY <2>1, <1>1
<1>4. ASSUME NEW u \in Users, ClaimInvite(g, u) PROVE MintedBy(m)'
  <2>1. PICK i \in invites : Goto(g, [Blank("pair", u) EXCEPT !.other = i.by])
    BY <1>4 DEF ClaimInvite
  <2> DEFINE n == [Blank("pair", u) EXCEPT !.other = i.by]
  <2>2. Goto(g, n) /\ n.at = "pair"
    BY <2>1 DEF Blank
  <2>3. QED
    BY <2>2, <1>1
<1>5. ASSUME NEW u \in Users, NEW c \in Clients, NEW v \in Users, NEW shared \in BOOLEAN,
             SetSharing(g, u, c, v, shared)
      PROVE  MintedBy(m)'
  <2> DEFINE n == [Blank("friend", u) EXCEPT !.other = v, !.client = c,
                     !.then = IF shared THEN "grant" ELSE "revoke"]
  <2>1. Goto(g, n) /\ n.at = "friend"
    BY <1>5 DEF SetSharing, Blank
  <2>2. QED
    BY <2>1, <1>1
<1>6. QED
  BY <1>2, <1>3, <1>4, <1>5 DEF Begin

\* The commit: the links the goroutine made before are gone, and the new one is
\* the only one of its own.
LEMMA InviteMinted ==
  ASSUME IInv, NEW m \in [InviteIds -> Goroutines \cup {None}], MintedBy(m),
         NEW g \in Goroutines, CreateInvite(g)
  PROVE  Minted'
<1> DEFINE n == calls[g]
<1>1. PICK id \in InviteIds \ spent :
        /\ invites' = {i \in invites : \A d \in n.invites : d.id # i.id}
                        \cup {[id |-> id, by |-> n.me, expired |-> FALSE]}
        /\ spent' = spent \cup {id}
  BY DEF CreateInvite
<1>2. n # None /\ n.at = "mint" /\ Return(g)
  BY DEF CreateInvite, Busy
<1> DEFINE new == [id |-> id, by |-> n.me, expired |-> FALSE]
           k == [m EXCEPT ![id] = g]
<1>3. new.id = id /\ new.by = n.me
  OBVIOUS
<1>4. k \in [InviteIds -> Goroutines \cup {None}] /\ k[id] = g
  OBVIOUS
<1>5. \A i \in invites : i.id # id /\ k[i.id] = m[i.id]
  BY DEF MintedBy, IInv, TableInv, TablesOK, Invite
<1>6. \A i \in invites' : i = new \/ (i \in invites /\ (i.by = n.me => m[i.id] # g))
  BY <1>1, <1>2 DEF MintedBy
<1>7. \A h \in Goroutines : calls'[h] # None => h # g /\ calls'[h] = calls[h]
  BY <1>2 DEF Return, IInv, CallsOK
<1> HIDE DEF new, k, n
<1>8. \A i \in invites' : i.id \in spent' /\ k[i.id] \in Goroutines
  BY <1>1, <1>3, <1>4, <1>5, <1>6 DEF MintedBy
<1>9. \A i, j \in invites' : i.by = j.by /\ k[i.id] = k[j.id] => i = j
  BY <1>3, <1>4, <1>5, <1>6 DEF MintedBy
<1>10. ASSUME NEW h \in Goroutines, NEW i \in invites', calls'[h] # None,
              calls'[h].at = "mint", calls'[h].me = i.by, k[i.id] = h
       PROVE  \E d \in calls'[h].invites : d.id = i.id
  <2>1. h # g /\ calls'[h] = calls[h]
    BY <1>7, <1>10
  <2>2. i \in invites /\ m[i.id] = h
    BY <1>3, <1>4, <1>5, <1>6, <1>10, <2>1
  <2>3. QED
    BY <1>10, <2>1, <2>2 DEF MintedBy
<1>11. QED
  BY <1>4, <1>8, <1>9, <1>10 DEF Minted, MintedBy

LEMMA LinkExpires ==
  ASSUME IInv, NEW m, MintedBy(m), NEW i \in invites, ExpireInvite(i)
  PROVE  MintedBy(m)'
<1> DEFINE x == [i EXCEPT !.expired = TRUE]
<1>1. x.id = i.id /\ x.by = i.by
  BY DEF IInv, TableInv, TablesOK, Invite
<1>2. invites' = (invites \ {i}) \cup {x} /\ UNCHANGED <<spent, calls>>
  BY DEF ExpireInvite
<1> HIDE DEF x
<1>3. \A j \in invites' : j.id \in spent' /\ m[j.id] \in Goroutines
  BY <1>1, <1>2 DEF MintedBy
<1>4. \A j, k \in invites' : j.by = k.by /\ m[j.id] = m[k.id] => j = k
  BY <1>1, <1>2 DEF MintedBy
<1>5. ASSUME NEW g \in Goroutines, NEW j \in invites', calls[g] # None, calls[g].at = "mint",
             calls[g].me = j.by, m[j.id] = g
      PROVE  \E d \in calls[g].invites : d.id = j.id
  BY <1>1, <1>2, <1>5 DEF MintedBy
<1>6. QED
  BY <1>2, <1>3, <1>4, <1>5 DEF MintedBy

LEMMA StepMints ==
  ASSUME IInv, Minted, [Next]_vars
  PROVE  Minted'
<1>1. PICK m \in [InviteIds -> Goroutines \cup {None}] : MintedBy(m)
  BY DEF Minted
<1>2. SUFFICES ASSUME \A g \in Goroutines : ~ CreateInvite(g)
               PROVE  MintedBy(m)'
  BY <1>1, InviteMinted DEF Minted
<1>3. ASSUME NEW g \in Goroutines, Begin(g)
      PROVE  MintedBy(m)'
  BY <1>1, <1>3, BeginMints
<1>4. ASSUME NEW g \in Goroutines, Continue(g)
      PROVE  MintedBy(m)'
  <2>1. invites' = invites /\ spent \subseteq spent'
    BY <1>2, <1>4 DEF Continue, ReadFriendship, ReadPending, ReadGrantee, Abandon,
         CreateFriendRequest, AutoAccept, AcceptTx, InsertFriendship, WriteShare, tables
  <2>2. PICK n : Goto(g, n) /\ (n = None \/ n.at # "mint")
    <3>0. calls[g] # None => calls[g] \in Note
      BY DEF IInv, CallsOK
    <3>1. CASE Return(g)
      BY <3>1 DEF Return, Goto
    <3>2. CASE ReadFriendship(g) /\ ~ Return(g)
      <4> DEFINE n == [calls[g] EXCEPT !.at = "pending"]
      <4>1. Goto(g, n) /\ n.at # "mint"
        BY <3>0, <3>2 DEF ReadFriendship, Busy, Note
      <4>2. QED
        BY <4>1
    <3>3. CASE ReadPending(g) /\ ~ Return(g)
      <4>0. calls[g] \in Note
        BY <3>0, <3>3 DEF ReadPending, Busy
      <4>1. CASE Goto(g, [calls[g] EXCEPT !.at = "insert"])
        BY <4>0, <4>1 DEF Note
      <4>2. ASSUME NEW r \in requests, Goto(g, [calls[g] EXCEPT !.at = "accept", !.request = r.id])
            PROVE  \E n : Goto(g, n) /\ (n = None \/ n.at # "mint")
        <5> DEFINE n == [calls[g] EXCEPT !.at = "accept", !.request = r.id]
        <5>1. n.at = "accept"
          BY <4>0 DEF Note
        <5>2. QED
          BY <4>2, <5>1
      <4>3. QED
        BY <3>3, <4>1, <4>2 DEF ReadPending, PendingBetween
    <3>4. CASE ReadGrantee(g) /\ ~ Return(g)
      <4>0. calls[g] \in Note
        BY <3>0, <3>4 DEF ReadGrantee, Busy
      <4>1. PICK f : Goto(g, [calls[g] EXCEPT !.at = calls[g].then, !.friendship = f.id])
        BY <3>4 DEF ReadGrantee
      <4> DEFINE n == [calls[g] EXCEPT !.at = calls[g].then, !.friendship = f.id]
      <4>2. n.at # "mint"
        BY <4>0 DEF Note
      <4>3. QED
        BY <4>1, <4>2
    <3>5. QED
      BY <1>2, <1>4, <3>1, <3>2, <3>3, <3>4
         DEF Continue, CreateFriendRequest, AutoAccept, WriteShare, Abandon
  <2>3. QED
    BY <1>1, <2>1, <2>2, NoMint, NotMinting DEF IInv
<1>5. CASE OneStatement
  <2>1. UNCHANGED calls
    BY <1>5 DEF OneStatement, Accept, Decline, Cancel, Unfriend, DeleteInvite, DeleteClient
  <2>2. invites' \subseteq invites /\ spent \subseteq spent'
    BY <1>5 DEF OneStatement, Accept, AcceptTx, InsertFriendship, Decline, Cancel, Unfriend,
         DeleteInvite, DeleteClient
  <2>3. QED
    BY <1>1, <2>1, <2>2, NoMint
<1>6. ASSUME NEW i \in invites, ExpireInvite(i)
      PROVE  MintedBy(m)'
  BY <1>1, <1>6, LinkExpires
<1>7. CASE UNCHANGED vars
  BY <1>1, <1>7, NoMint DEF vars, tables
<1>8. QED
  BY <1>3, <1>4, <1>5, <1>6, <1>7 DEF Next

\* Concurrent calls of CreateInvite leave a user at most one live link for each
\* goroutine of the server, for any number of calls one after the other: whoever
\* mints again takes back what its goroutine had left.
THEOREM LinksAreBounded == Spec => []InvitesBounded
<1>1. Init => Minted
  <2> SUFFICES ASSUME Init PROVE Minted
    OBVIOUS
  <2> DEFINE m == [i \in InviteIds |-> None]
  <2>1. m \in [InviteIds -> Goroutines \cup {None}]
    OBVIOUS
  <2> HIDE DEF m
  <2>2. MintedBy(m)
    BY DEF Init, MintedBy
  <2>3. QED
    BY <2>1, <2>2 DEF Minted
<1>2. IInv /\ Minted /\ [Next]_vars => Minted'
  BY StepMints
<1>3. IInv /\ Minted => InvitesBounded
  <2> SUFFICES ASSUME IInv, Minted, NEW u \in Users
               PROVE  Cardinality(LiveInvites(u)) <= Cardinality(Goroutines)
    BY DEF InvitesBounded
  <2>1. PICK m : MintedBy(m)
    BY DEF Minted
  <2> DEFINE f == [i \in LiveInvites(u) |-> m[i.id]]
  <2>2. f \in Injection(LiveInvites(u), Goroutines)
    BY <2>1 DEF MintedBy, LiveInvites, Injection, IsInjective
  <2> HIDE DEF f
  <2>3. QED
    BY <2>2, FS_Injection, GoroutinesAssumption
<1>4. QED
  BY <1>1, <1>2, <1>3, Invariance, PTL DEF Spec

(*************************** the rate limiter ******************************)

\* What a bucket holds now.
Held(b) == IF b = NoBucket THEN Burst ELSE Filled(b)

LEMMA LimiterConstants ==
  /\ Burst \in Nat /\ Rate \in Nat /\ Cost \in Nat /\ Crowd \in Nat /\ Stale \in Nat
  /\ Rate * Stale >= Burst /\ Cost <= Burst
  BY RateAssumption

\* Time and age make natural numbers of tokens, never more than Burst.
LEMMA FilledType ==
  ASSUME NEW b \in Bucket
  PROVE  Filled(b) \in 0 .. Burst
<1>1. b.tokens \in 0 .. Burst /\ b.idle \in 0 .. Stale + 1
  BY DEF Bucket
<1>2. b.idle * Rate \in Nat
  BY <1>1, LimiterConstants
<1> DEFINE x == b.idle * Rate
<1> HIDE DEF x
<1>3. x \in Nat /\ Filled(b) = AtMost(b.tokens + x)
  BY <1>2 DEF x, Filled
<1>4. QED
  BY <1>1, <1>3, LimiterConstants DEF AtMost

\* A stale bucket is full.
LEMMA StaleIsFull ==
  ASSUME NEW b \in Bucket, b.idle > Stale
  PROVE  Filled(b) = Burst
<1>1. b.tokens \in 0 .. Burst /\ b.idle = Stale + 1
  BY LimiterConstants DEF Bucket
<1>2. (Stale + 1) * Rate = Rate * Stale + Rate /\ (Stale + 1) * Rate \in Nat
  BY LimiterConstants
<1> DEFINE x == (Stale + 1) * Rate
           y == Rate * Stale
<1>3. y \in Nat /\ y >= Burst
  BY LimiterConstants
<1> HIDE DEF x, y
<1>4. x \in Nat /\ x = y + Rate
  BY <1>2 DEF x, y
<1>5. x >= Burst
  BY <1>3, <1>4, LimiterConstants
<1>6. Filled(b) = AtMost(b.tokens + x)
  BY <1>1 DEF Filled, x
<1>7. QED
  BY <1>1, <1>4, <1>5, <1>6, LimiterConstants DEF AtMost

\* A tick brings Rate, up to the burst.
LEMMA TickFills ==
  ASSUME NEW b \in Bucket, b.idle <= Stale
  PROVE  Filled([b EXCEPT !.idle = @ + 1]) = AtMost(Filled(b) + Rate)
<1>1. b.tokens \in 0 .. Burst /\ b.idle \in Nat
  BY DEF Bucket
<1>2. (b.idle + 1) * Rate = b.idle * Rate + Rate /\ b.idle * Rate \in Nat
  BY <1>1, LimiterConstants
<1> DEFINE x == b.idle * Rate
           y == (b.idle + 1) * Rate
           c == [b EXCEPT !.idle = @ + 1]
<1>3. c.tokens = b.tokens /\ c.idle = b.idle + 1
  BY DEF Bucket
<1> HIDE DEF x, y, c
<1>4. x \in Nat /\ y = x + Rate
  BY <1>2 DEF x, y
<1>5. Filled(b) = AtMost(b.tokens + x) /\ Filled(c) = AtMost(b.tokens + y)
  BY <1>3 DEF Filled, x, y
<1>6. Filled(c) = AtMost(Filled(b) + Rate)
  BY <1>1, <1>4, <1>5, LimiterConstants DEF AtMost
<1>7. QED
  BY <1>6 DEF c

\* Eviction leaves to every user what they have.
LEMMA EvictKeeps ==
  ASSUME LimiterTypeOK
  PROVE  /\ Evict(buckets) \in [Callers -> Bucket \cup {NoBucket}]
         /\ \A u \in Callers : Held(Evict(buckets)[u]) = Held(buckets[u])
<1>1. ASSUME NEW u \in Callers, buckets[u] # NoBucket, buckets[u].idle > Stale
      PROVE  Held(buckets[u]) = Burst
  BY <1>1, StaleIsFull DEF LimiterTypeOK, Held
<1>2. QED
  BY <1>1 DEF LimiterTypeOK, Evict, Held

LEMMA AllowKeeps ==
  ASSUME LimiterTypeOK, NEW u \in Callers, Allow(u)
  PROVE  LimiterTypeOK' /\ (Kept!Spend(u) \/ UNCHANGED Level)
<1> DEFINE B == Evict(buckets)
           t == IF B[u] = NoBucket THEN Burst ELSE Filled(B[u])
           left == IF t < Cost THEN t ELSE t - Cost
           b == [tokens |-> left, idle |-> 0]
<1>1. /\ B \in [Callers -> Bucket \cup {NoBucket}]
      /\ \A v \in Callers : Held(B[v]) = Held(buckets[v])
  BY EvictKeeps
<1>2. buckets' = [B EXCEPT ![u] = b]
  BY DEF Allow
<1> HIDE DEF B
<1>3. t \in 0 .. Burst /\ t = Held(buckets[u])
  BY <1>1, FilledType, LimiterConstants DEF Held
<1> HIDE DEF t
<1>4. left \in 0 .. Burst
  BY <1>3, LimiterConstants
<1> HIDE DEF left
<1>5. b \in Bucket /\ b.tokens = left /\ b.idle = 0
  BY <1>4, LimiterConstants DEF Bucket
<1>6. Filled(b) = left
  BY <1>4, <1>5, LimiterConstants DEF Filled, AtMost
<1> HIDE DEF b
<1>7. LimiterTypeOK'
  BY <1>1, <1>2, <1>5 DEF LimiterTypeOK
<1>8. CASE b = NoBucket
  <2>1. \A v \in Callers \ {u} : Held(buckets'[v]) = Held(buckets[v])
    BY <1>1, <1>2
  <2>2. QED
    BY <1>5, <1>8, NoBucketAssumption
<1>9. CASE b # NoBucket
  <2>1. \A v \in Callers : Held(buckets'[v]) = IF v = u THEN left ELSE Held(buckets[v])
    BY <1>1, <1>2, <1>6, <1>9 DEF Held
  <2>2. Level' = [Level EXCEPT ![u] = left]
    BY <2>1 DEF Level, Held
  <2>3. Level[u] = t
    BY <1>3 DEF Level, Held
  <2>4. CASE t < Cost
    <3>1. Level = [v \in Callers |-> Level[v]]
      BY DEF Level
    <3>2. Level' = [Level EXCEPT ![u] = Level[u]]
      BY <2>2, <2>3, <2>4 DEF left
    <3>3. Level' = Level
      BY <3>1, <3>2
    <3>4. QED
      BY <1>7, <3>3
  <2>5. CASE ~ (t < Cost)
    <3>1. Level[u] >= Cost /\ Level' = [Level EXCEPT ![u] = Level[u] - Cost]
      BY <1>3, <2>2, <2>3, <2>5, LimiterConstants DEF left
    <3>2. QED
      BY <1>7, <3>1 DEF Kept!Spend
  <2>6. QED
    BY <1>7, <2>4, <2>5
<1>10. QED
  BY <1>7, <1>8, <1>9

LEMMA TickKeeps ==
  ASSUME LimiterTypeOK, Tick
  PROVE  LimiterTypeOK' /\ Kept!Refill
<1>1. ASSUME NEW u \in Callers
      PROVE  /\ buckets'[u] \in Bucket \cup {NoBucket}
             /\ Held(buckets'[u]) = AtMost(Held(buckets[u]) + Rate)
  <2>1. CASE buckets[u] = NoBucket
    <3>1. buckets'[u] = NoBucket
      BY <2>1 DEF Tick
    <3>2. QED
      BY <2>1, <3>1, LimiterConstants DEF Held, AtMost
  <2>2. CASE buckets[u] # NoBucket /\ buckets[u].idle > Stale
    <3>1. buckets[u] \in Bucket /\ buckets'[u] = buckets[u]
      BY <2>2 DEF Tick, LimiterTypeOK, Bucket
    <3>2. QED
      BY <2>2, <3>1, StaleIsFull, LimiterConstants DEF Held, AtMost
  <2>3. CASE buckets[u] # NoBucket /\ ~ (buckets[u].idle > Stale)
    <3> DEFINE b == buckets[u]
               c == [b EXCEPT !.idle = @ + 1]
    <3>1. b \in Bucket /\ b.idle \in 0 .. Stale + 1
      BY <2>3 DEF LimiterTypeOK, Bucket
    <3>2. b.idle <= Stale /\ buckets'[u] = c
      BY <2>3, <3>1, LimiterConstants DEF Tick
    <3>3. b.idle + 1 \in 0 .. Stale + 1
      BY <3>1, <3>2, LimiterConstants
    <3> HIDE DEF b
    <3>4. c \in Bucket
      BY <3>1, <3>3 DEF Bucket
    <3>5. Filled(c) = AtMost(Filled(b) + Rate)
      BY <3>1, <3>2, TickFills
    <3> HIDE DEF c
    <3>6. c # NoBucket
      BY <3>4, NoBucketAssumption
    <3>7. QED
      BY <2>3, <3>2, <3>4, <3>5, <3>6 DEF Held, b
  <2>4. QED
    BY <2>1, <2>2, <2>3
<1>2. LimiterTypeOK'
  BY <1>1 DEF LimiterTypeOK, Tick
<1>3. Level' = [u \in Callers |-> AtMost(Level[u] + Rate)]
  BY <1>1 DEF Level, Held
<1>4. QED
  BY <1>2, <1>3 DEF Kept!Refill, Kept!AtMost, AtMost

\* Buckets keep their type; no bucket ever holds more than the burst.
THEOREM BucketsTyped == LimiterSpec => []LimiterTypeOK
<1>1. LimiterInit => LimiterTypeOK
  BY DEF LimiterInit, LimiterTypeOK
<1>2. LimiterTypeOK /\ [LimiterNext]_buckets => LimiterTypeOK'
  BY AllowKeeps, TickKeeps DEF LimiterNext, LimiterTypeOK
<1>3. QED
  BY <1>1, <1>2, PTL DEF LimiterSpec

\* The lazy, forgetful limiter implements the one that forgets nothing.
THEOREM LimiterForgetsNothing == LimiterSpec => EvictionUnseen
<1>1. LimiterInit => Kept!Init
  BY DEF LimiterInit, Kept!Init, Level
<1>2. LimiterTypeOK /\ [LimiterNext]_buckets => [Kept!Next]_Level
  BY AllowKeeps, TickKeeps DEF LimiterNext, Kept!Next, Level
<1>3. QED
  BY <1>1, <1>2, BucketsTyped, PTL DEF LimiterSpec, EvictionUnseen, Kept!Spec, Level
=============================================================================
