------------------------------ MODULE Friends -------------------------------
(***************************************************************************)
(* The friends module (internal/friends) over its four tables.  A call is  *)
(* run by a goroutine; each read, each single statement and each           *)
(* transaction is one step, and what a call has read stays in its note.    *)
(* A transaction shows nothing of itself before it commits (READ           *)
(* COMMITTED), so one that only writes under a row lock is one step.       *)
(***************************************************************************)
EXTENDS FiniteSets, Naturals

CONSTANTS
  Users,
  Clients,         \* bank clients
  Owner,           \* bank_client.user_id
  FriendshipIds,   \* identity columns and uuids: no id comes twice
  RequestIds,
  InviteIds,
  Goroutines,      \* that serve requests
  None

ASSUME FriendsAssumption ==
  /\ Owner \in [Clients -> Users]
  /\ None \notin Users \cup Clients \cup FriendshipIds \cup RequestIds \cup InviteIds

\* A process has as many goroutines as it has, so that they can be counted.
ASSUME GoroutinesAssumption == IsFiniteSet(Goroutines)

VARIABLES
  clients,       \* the clients that exist
  friendships,   \* friendship
  requests,      \* friend_request
  invites,       \* friend_invite
  shares,        \* friend_cashback_share
  spent,         \* ids of friendships and invites that were given out
  calls          \* the note of the call each goroutine is in, or None

tables == <<clients, friendships, requests, invites, shares, spent>>
vars   == <<tables, calls>>

Statuses == {"pending", "accepted", "declined", "cancelled"}

\* CanonPair: the order of the two ids only serves the unique key
Pair(u, v) == {u, v}

Pairs == {p \in SUBSET Users : \E u, v \in p : u # v /\ p = Pair(u, v)}

Friendship == [id : FriendshipIds, pair : Pairs]
Request    == [id : RequestIds, from : Users, to : Users, status : Statuses]
Invite     == [id : InviteIds, by : Users, expired : BOOLEAN]
Share      == [client : Clients, friendship : FriendshipIds]

\* at: the statement the call is about to run.  invites: what the delete of
\* CreateInvite has taken, until the commit.  then: what SetSharing was asked for.
Note == [at : {"pair", "pending", "insert", "accept", "mint", "friend", "grant", "revoke"},
         then : {"grant", "revoke"},
         me : Users, other : Users \cup {None}, request : RequestIds \cup {None},
         client : Clients \cup {None}, friendship : FriendshipIds \cup {None},
         invites : SUBSET Invite]

Blank(at, u) == [at |-> at, then |-> "grant", me |-> u, other |-> None, request |-> None, client |-> None,
                 friendship |-> None, invites |-> {}]

Init ==
  /\ clients = Clients
  /\ friendships = {} /\ requests = {} /\ invites = {} /\ shares = {} /\ spent = {}
  /\ calls = [g \in Goroutines |-> None]

(******************************** the tables *******************************)

FriendshipOf(u, v) == {f \in friendships : f.pair = Pair(u, v)}

PendingBetween(u, v) ==
  {r \in requests : r.status = "pending" /\ Pair(r.from, r.to) = Pair(u, v)}

LiveInvites(u) == {i \in invites : i.by = u /\ ~ i.expired}

\* ListSharedWithViewer: the grantee is derived, the other member of the pair
SharedWith(v) ==
  {s.client : s \in {s \in shares :
     /\ Owner[s.client] # v
     /\ \E f \in friendships : f.id = s.friendship /\ v \in f.pair}}

SetStatus(S, status) ==
  requests' = (requests \ S) \cup {[r EXCEPT !.status = status] : r \in S}

\* CreateFriendship: unique (user_lo, user_hi)
InsertFriendship(u, v) ==
  /\ FriendshipOf(u, v) = {}
  /\ \E id \in FriendshipIds \ spent :
       /\ friendships' = friendships \cup {[id |-> id, pair |-> Pair(u, v)]}
       /\ spent' = spent \cup {id}

\* mutant: no partial index over the pair
PendingKeyAny(u, v) == TRUE

\* friend_request_pending_pair_key
PendingKeyFree(u, v) == PendingBetween(u, v) = {}

(********************************** calls **********************************)

Free(g) == calls[g] = None
Busy(g, at) == calls[g] # None /\ calls[g].at = at
Goto(g, n) == calls' = [calls EXCEPT ![g] = n]
Return(g) == calls' = [calls EXCEPT ![g] = None]

\* SendRequest: the target is found by name; a request to oneself is refused
SendRequest(g, u, v) ==
  /\ Free(g) /\ u # v
  /\ Goto(g, [Blank("pair", u) EXCEPT !.other = v])
  /\ UNCHANGED tables

\* ClaimInvite: a link that exists and has not expired is a request to whoever
\* made it; nothing burns
ClaimInvite(g, u) ==
  /\ Free(g)
  /\ \E i \in invites : ~ i.expired /\ i.by # u /\
       Goto(g, [Blank("pair", u) EXCEPT !.other = i.by])
  /\ UNCHANGED tables

ReadFriendship(g) ==
  /\ Busy(g, "pair")
  /\ IF FriendshipOf(calls[g].me, calls[g].other) # {}
     THEN Return(g)
     ELSE Goto(g, [calls[g] EXCEPT !.at = "pending"])
  /\ UNCHANGED tables

\* none: insert one; one's own: ErrRequestExists; the other's: accept it
ReadPending(g) ==
  LET n == calls[g]
      P == PendingBetween(n.me, n.other) IN
  /\ Busy(g, "pending")
  /\ \/ P = {} /\ Goto(g, [n EXCEPT !.at = "insert"])
     \/ \E r \in P : r.from = n.me /\ Return(g)
     \/ \E r \in P : r.from # n.me /\ Goto(g, [n EXCEPT !.at = "accept", !.request = r.id])
  /\ UNCHANGED tables

\* a duplicate of the pending pair is reported as ErrRequestExists
CreateFriendRequest(g) ==
  LET n == calls[g] IN
  /\ Busy(g, "insert")
  /\ Return(g)
  /\ IF PendingKeyFree(n.me, n.other)
     THEN \E id \in RequestIds \ {r.id : r \in requests} :
            requests' = requests \cup {[id |-> id, from |-> n.me, to |-> n.other,
                                        status |-> "pending"]}
     ELSE UNCHANGED requests
  /\ UNCHANGED <<clients, friendships, invites, shares, spent>>

\* rows of SetRequestStatusForRecipient
Answerable(u, id) == {r \in requests : r.id = id /\ r.to = u /\ r.status = "pending"}

\* mutant: the statements of acceptTx without their transaction
AcceptUnguarded(u, id) ==
  /\ \A r \in Answerable(u, id) :
       IF FriendshipOf(r.from, r.to) = {} THEN InsertFriendship(r.from, r.to)
       ELSE UNCHANGED <<friendships, spent>>
  /\ IF Answerable(u, id) = {} THEN UNCHANGED <<friendships, requests, spent>>
     ELSE SetStatus(Answerable(u, id), "accepted")
  /\ UNCHANGED <<clients, invites, shares>>

\* acceptTx: the status and the friendship, or neither
AcceptTx(u, id) ==
  /\ \/ \E r \in Answerable(u, id) :
          InsertFriendship(r.from, r.to) /\ SetStatus({r}, "accepted")
     \/ /\ \A r \in Answerable(u, id) : FriendshipOf(r.from, r.to) # {}
        /\ UNCHANGED <<friendships, requests, spent>>
  /\ UNCHANGED <<clients, invites, shares>>

AutoAccept(g) ==
  /\ Busy(g, "accept")
  /\ AcceptTx(calls[g].me, calls[g].request)
  /\ Return(g)

Accept(u, id) == AcceptTx(u, id) /\ UNCHANGED calls

\* mutant: a request that was answered is answered again
DeclineAnything(u, id) ==
  /\ SetStatus({r \in requests : r.id = id /\ r.to = u}, "declined")
  /\ UNCHANGED <<clients, friendships, invites, shares, spent, calls>>

Decline(u, id) ==
  /\ SetStatus(Answerable(u, id), "declined")
  /\ UNCHANGED <<clients, friendships, invites, shares, spent, calls>>

Cancel(u, id) ==
  /\ SetStatus({r \in requests : r.id = id /\ r.from = u /\ r.status = "pending"}, "cancelled")
  /\ UNCHANGED <<clients, friendships, invites, shares, spent, calls>>

\* mutant: no cascade to friend_cashback_share
UnfriendKeepingShares(u, v) ==
  /\ friendships' = friendships \ FriendshipOf(u, v)
  /\ UNCHANGED <<clients, requests, invites, shares, spent, calls>>

\* DeleteFriendshipByPair; the shares go by cascade
Unfriend(u, v) ==
  /\ friendships' = friendships \ FriendshipOf(u, v)
  /\ shares' = {s \in shares : \A f \in FriendshipOf(u, v) : s.friendship # f.id}
  /\ UNCHANGED <<clients, requests, invites, spent, calls>>

\* CreateInvite, the delete of its transaction: it takes what was committed
DeleteUnclaimedInvites(g, u) ==
  /\ Free(g)
  /\ Goto(g, [Blank("mint", u) EXCEPT !.invites = {i \in invites : i.by = u}])
  /\ UNCHANGED tables

\* mutant: the old links are left alone
MintAnother(g) ==
  /\ Busy(g, "mint")
  /\ \E id \in InviteIds \ spent :
       /\ invites' = invites \cup {[id |-> id, by |-> calls[g].me, expired |-> FALSE]}
       /\ spent' = spent \cup {id}
  /\ Return(g)
  /\ UNCHANGED <<clients, friendships, requests, shares>>

\* the insert and the commit
CreateInvite(g) ==
  /\ Busy(g, "mint")
  /\ \E id \in InviteIds \ spent :
       /\ invites' = {i \in invites : \A d \in calls[g].invites : d.id # i.id}
                       \cup {[id |-> id, by |-> calls[g].me, expired |-> FALSE]}
       /\ spent' = spent \cup {id}
  /\ Return(g)
  /\ UNCHANGED <<clients, friendships, requests, shares>>

DeleteInvite(u, id) ==
  /\ invites' = {i \in invites : ~ (i.id = id /\ i.by = u)}
  /\ UNCHANGED <<clients, friendships, requests, shares, spent, calls>>

\* InviteTTL has passed
ExpireInvite(i) ==
  /\ i \in invites
  /\ invites' = (invites \ {i}) \cup {[i EXCEPT !.expired = TRUE]}
  /\ UNCHANGED <<clients, friendships, requests, shares, spent, calls>>

\* GetBankClientForUser
SharesOwnClient(u, c) == c \in clients /\ Owner[c] = u

\* SetSharing: first the client, then the friendship, then the row
SetSharing(g, u, c, v, shared) ==
  /\ Free(g) /\ SharesOwnClient(u, c)
  /\ Goto(g, [Blank("friend", u) EXCEPT !.other = v, !.client = c,
                !.then = IF shared THEN "grant" ELSE "revoke"])
  /\ UNCHANGED tables

ReadGrantee(g) ==
  LET n == calls[g] IN
  /\ Busy(g, "friend")
  /\ \/ FriendshipOf(n.me, n.other) = {} /\ Return(g)
     \/ \E f \in FriendshipOf(n.me, n.other) :
          Goto(g, [n EXCEPT !.at = n.then, !.friendship = f.id])
  /\ UNCHANGED tables

\* foreign keys of friend_cashback_share
ShareFits(s) == s.client \in clients /\ \E f \in friendships : f.id = s.friendship

\* CreateShare, a repeat does nothing; DeleteShare
WriteShare(g) ==
  LET n == calls[g]
      s == [client |-> n.client, friendship |-> n.friendship] IN
  /\ \/ Busy(g, "grant") /\ ShareFits(s) /\ shares' = shares \cup {s}
     \/ Busy(g, "grant") /\ ~ ShareFits(s) /\ UNCHANGED shares
     \/ Busy(g, "revoke") /\ shares' = shares \ {s}
  /\ Return(g)
  /\ UNCHANGED <<clients, friendships, requests, invites, spent>>

\* bank-client-delete; the shares go by cascade
DeleteClient(c) ==
  /\ c \in clients
  /\ clients' = clients \ {c}
  /\ shares' = {s \in shares : s.client # c}
  /\ UNCHANGED <<friendships, requests, invites, spent, calls>>

\* The call ends where it is: an error, a context that is done, the end of the
\* process.  An open transaction is rolled back.
Abandon(g) ==
  /\ ~ Free(g)
  /\ Return(g)
  /\ UNCHANGED tables

\* Calls of one statement need no note, but they need a goroutine.
OneStatement ==
  /\ \E g \in Goroutines : Free(g)
  /\ \/ \E u \in Users, id \in RequestIds : Accept(u, id) \/ Decline(u, id) \/ Cancel(u, id)
     \/ \E u, v \in Users : u # v /\ Unfriend(u, v)
     \/ \E u \in Users, id \in InviteIds : DeleteInvite(u, id)
     \/ \E c \in Clients : DeleteClient(c)

Begin(g) ==
  \E u \in Users :
    \/ \E v \in Users : SendRequest(g, u, v)
    \/ ClaimInvite(g, u) \/ DeleteUnclaimedInvites(g, u)
    \/ \E c \in Clients, v \in Users, shared \in BOOLEAN : SetSharing(g, u, c, v, shared)

Continue(g) ==
  \/ ReadFriendship(g) \/ ReadPending(g) \/ CreateFriendRequest(g) \/ AutoAccept(g)
  \/ CreateInvite(g) \/ ReadGrantee(g) \/ WriteShare(g) \/ Abandon(g)

Next ==
  \/ \E g \in Goroutines : Begin(g) \/ Continue(g)
  \/ OneStatement
  \/ \E i \in invites : ExpireInvite(i)

Spec == Init /\ [][Next]_vars

(******************************* properties ********************************)

TypeOK ==
  /\ clients \subseteq Clients
  /\ friendships \subseteq Friendship
  /\ requests \subseteq Request
  /\ invites \subseteq Invite
  /\ shares \subseteq Share
  /\ spent \subseteq FriendshipIds \cup InviteIds
  /\ calls \in [Goroutines -> Note \cup {None}]

\* The circle a user sees (module Circle) is kept by the four tables, whatever
\* the calls have read before they write: mutual requests collapse, acceptance
\* takes the other side's consent, a grant needs the owner's client and a friend,
\* and a friendship that ends or begins anew revives no grant.
Paired  == {f.pair : f \in friendships}
Asked   == {x \in Users \X Users : \E r \in requests :
              r.status = "pending" /\ r.from = x[1] /\ r.to = x[2]}
Granted == {x \in Clients \X Users : x[1] \in SharedWith(x[2])}

Promise == INSTANCE Circle WITH friends <- Paired, asked <- Asked, grants <- Granted

KeepsPromise == Promise!Spec

\* Invariants 2 and 3 of the schema notes: a share hangs on a friendship that
\* exists and that the owner of the client is a member of, so that the grantee
\* can be derived (OtherMember calls anything else a corrupt grant).
ShareOnOwnFriendship ==
  \A s \in shares : \E f \in friendships : f.id = s.friendship /\ Owner[s.client] \in f.pair

\* acceptTx: a request turns accepted in the step that makes the friendship, and
\* no friendship is made without one: neither half exists without the other.
AcceptanceIsWhole ==
  [][/\ \A r \in requests' : r.status = "accepted" /\ r \notin requests =>
          \E f \in friendships' \ friendships : f.pair = Pair(r.from, r.to)
     /\ \A f \in friendships' \ friendships :
          \E r \in requests' \ requests : r.status = "accepted" /\ f.pair = Pair(r.from, r.to)]_vars

\* TransitionRequest, the one list of the transitions that exist: what was
\* answered or taken back is history and never changes, not even by a call that
\* read the row while it was pending.
HistoryStays ==
  [][\A r \in requests : r.status # "pending" => r \in requests']_vars

\* ListInvites: "the live link (at most one by construction)".
OneLiveInvite == \A u \in Users : Cardinality(LiveInvites(u)) <= 1

\* What concurrent calls leave of it: the transactions that overlap each keep
\* the link they made, and the next one revokes them all.
InvitesBounded ==
  \A u \in Users : Cardinality(LiveInvites(u)) <= Cardinality(Goroutines)
=============================================================================
