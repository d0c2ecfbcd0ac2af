------------------------------- MODULE Session ------------------------------
(***************************************************************************)
(* The session of the panel's page (src/frontend/src/app/page.tsx): the    *)
(* token, the user, the copy of the token in the browser's storage, and    *)
(* the requests that go out in their name.                                 *)
(*                                                                         *)
(* A request carries the token of the render whose closure sends it, not   *)
(* the token of the session that its answer meets.  Effects and intervals  *)
(* keep the closure they were made in; any 401 ends whatever session there *)
(* is.  What apiFetch does for fetchAll and the stats of the selected      *)
(* server it does for every other request of the page.                     *)
(***************************************************************************)
EXTENDS Naturals, Sequences, FiniteSets, Functions

CONSTANTS
  User, Nobody,
  Tab, Home,       \* the tabs, and the one the page opens with
  Fetching,        \* those that call fetchAll when they are opened
  Core, Side,      \* what fetchAll reads on every tab: a failure of a core
                   \* list ends it, each side list has a try of its own
  Own,             \* what it reads besides, for the tab of its closure
  Relayed,         \* the lists among them that the panel reads at a node
  Watched,         \* the core list that is followed here
  MaxTokens, MaxFetches

ASSUME NobodyAssumption == Nobody \notin User
ASSUME TabAssumption == Home \in Tab /\ Fetching \subseteq Tab
ASSUME ReadsAssumption ==
  /\ Core \in Seq(Range(Core)) \ {<<>>} /\ Side \in Seq(Range(Side))
  /\ \A tb \in Tab : Own[tb] \in Seq(Range(Own[tb]))
ASSUME BoundAssumption == MaxTokens \in Nat /\ MaxFetches \in Nat

VARIABLES
  token, user,  \* of the session; token 0: none
  stored,       \* localStorage's panel_token
  owner,        \* whom the tokens were issued to
  expired,
  signing,      \* users whose handleAuth waits for its answer
  verifying,    \* the token whose verifyToken waits, or 0
  tab,
  poll,         \* closure of the 10 s interval, which there is if user is set
  selected, timer,  \* is a server selected? the token of its 3 s interval
  fetches,      \* fetchAll calls under way
  asked,        \* tokens of the stats requests under way
  shown         \* whose answer the Watched list shows

page == <<token, user, stored>>
vars == <<page, owner, expired, signing, verifying, tab, poll, selected, timer,
          fetches, asked, shown>>

Issued == 1 .. Len(owner)
Invalid(t) == t = 0 \/ t \in expired

Reads(tb) == Core \o Side \o Own[tb]

Room == Cardinality(fetches) < MaxFetches

\* fetchAll called from a closure with token t and tab tb.  late: it was called
\* before the session that is there now.
FetchAll(old, t, tb, late) ==
  old \cup {[id |-> CHOOSE n \in 1 .. MaxFetches : \A f \in old : f.id # n,
             tok |-> t, rest |-> Reads(tb), late |-> late]}

\* The first render: the effect of the saved token, and that of the tab, whose
\* closure has no token yet.
Mount(t) ==
  [token |-> t, verifying |-> t, fetches |-> FetchAll({}, 0, Home, TRUE)]

Init ==
  /\ owner \in {<<>>} \cup {<<u>> : u \in User}
  /\ stored = Len(owner)
  /\ token = Mount(stored).token
  /\ verifying = Mount(stored).verifying
  /\ fetches = Mount(stored).fetches
  /\ user = Nobody
  /\ tab = Home
  /\ poll = [tok |-> 0, tab |-> Home]
  /\ selected = FALSE /\ timer = 0
  /\ expired = {} /\ signing = {} /\ asked = {} /\ shown = Nobody

-----------------------------------------------------------------------------
(* Signing in and out.                                                     *)

LoginScreen == token = 0 \/ user = Nobody

SetSession(t, u) == token' = t /\ user' = u /\ stored' = t

\* The button is not disabled: a second user may be submitted meanwhile.
Submit(u) ==
  /\ LoginScreen
  /\ u \notin signing
  /\ Len(owner) + Cardinality(signing) < MaxTokens
  /\ signing' = signing \cup {u}
  /\ UNCHANGED <<page, owner, expired, verifying, tab, poll, selected, timer,
                 fetches, asked, shown>>

\* Every fetchAll there is belongs to an earlier session from now on.
Late == {[f EXCEPT !.late = TRUE] : f \in fetches}

\* Mutant: the interval depends on [user.id], not on [user].
MutantNewUser(t, u, old) ==
  /\ Room
  /\ poll' = IF user = u THEN poll ELSE [tok |-> t, tab |-> tab]
  /\ fetches' = FetchAll(old, t, tab, FALSE)

\* The effects on [user]: the interval is made again, and fetchAll is called.
NewUser(t, u, old) ==
  /\ Room
  /\ poll' = [tok |-> t, tab |-> tab]
  /\ fetches' = FetchAll(old, t, tab, FALSE)

\* Mutant: handleAuth calls fetchAll itself, in the closure it was made in.
MutantSignIn(u) ==
  LET t == Len(owner) + 1 IN
  /\ u \in signing
  /\ owner' = Append(owner, u)
  /\ SetSession(t, u)
  /\ Room
  /\ poll' = [tok |-> t, tab |-> tab]
  /\ fetches' = FetchAll(Late, token, tab, FALSE)
  /\ signing' = signing \ {u}
  /\ UNCHANGED <<expired, verifying, tab, selected, timer, asked, shown>>

\* Mutant: a user who is there already is kept.
MutantKeepUser(u) ==
  LET t == Len(owner) + 1 IN
  /\ u \in signing
  /\ owner' = Append(owner, u)
  /\ SetSession(t, IF user = Nobody THEN u ELSE user)
  /\ NewUser(t, u, Late)
  /\ signing' = signing \ {u}
  /\ UNCHANGED <<expired, verifying, tab, selected, timer, asked, shown>>

SignIn(u) ==
  LET t == Len(owner) + 1 IN
  /\ u \in signing
  /\ owner' = Append(owner, u)
  /\ SetSession(t, u)
  /\ NewUser(t, u, Late)
  /\ signing' = signing \ {u}
  /\ UNCHANGED <<expired, verifying, tab, selected, timer, asked, shown>>

SignInFails(u) ==
  /\ u \in signing
  /\ signing' = signing \ {u}
  /\ UNCHANGED <<page, owner, expired, verifying, tab, poll, selected, timer,
                 fetches, asked, shown>>

\* verifyToken sets the user, and leaves the token as it has become meanwhile.
Verified ==
  /\ ~Invalid(verifying)
  /\ user' = owner[verifying]
  /\ NewUser(token, owner[verifying], fetches)
  /\ verifying' = 0
  /\ UNCHANGED <<token, stored, owner, expired, signing, tab, selected, timer,
                 asked, shown>>

\* Not ok, or no answer: it drops the token, and leaves the user.
NotVerified ==
  /\ verifying # 0
  /\ token' = 0 /\ stored' = 0 /\ verifying' = 0
  /\ UNCHANGED <<user, owner, expired, signing, tab, poll, selected, timer,
                 fetches, asked, shown>>

Logout ==
  /\ ~LoginScreen
  /\ SetSession(0, Nobody)
  /\ UNCHANGED <<owner, expired, signing, verifying, tab, poll, selected, timer,
                 fetches, asked, shown>>

\* The browser loads the page again; its requests are gone.
Reload ==
  /\ token' = Mount(stored).token
  /\ verifying' = Mount(stored).verifying
  /\ fetches' = Mount(stored).fetches
  /\ user' = Nobody
  /\ tab' = Home /\ poll' = [tok |-> 0, tab |-> Home]
  /\ selected' = FALSE /\ timer' = 0
  /\ signing' = {} /\ asked' = {} /\ shown' = Nobody
  /\ UNCHANGED <<stored, owner, expired>>

-----------------------------------------------------------------------------
(* The callers of fetchAll and fetchStats.                                 *)

Call(t, tb) == Room /\ fetches' = FetchAll(fetches, t, tb, FALSE)

\* Mutant: the intervals of earlier users are not cleared.
MutantTick ==
  /\ user # Nobody
  /\ \E t \in Issued : Call(t, poll.tab)
  /\ UNCHANGED <<page, owner, expired, signing, verifying, tab, poll, selected,
                 timer, asked, shown>>

\* The interval calls the fetchAll of the render that made it.
Tick ==
  /\ user # Nobody
  /\ Call(poll.tok, poll.tab)
  /\ UNCHANGED <<page, owner, expired, signing, verifying, tab, poll, selected,
                 timer, asked, shown>>

\* A click in the sidebar, and the effect on [activeTab].
SetActiveTab(tb) ==
  /\ ~LoginScreen
  /\ tb # tab \/ selected
  /\ tab' = tb
  /\ selected' = FALSE
  /\ IF tb # tab /\ tb \in Fetching THEN Call(token, tb) ELSE UNCHANGED fetches
  /\ UNCHANGED <<page, owner, expired, signing, verifying, poll, timer, asked,
                 shown>>

\* setSelectedServer, and the effect that makes the interval of the stats.
SetSelectedServer ==
  /\ ~LoginScreen
  /\ selected' = TRUE
  /\ timer' = token
  /\ UNCHANGED <<page, owner, expired, signing, verifying, tab, poll, fetches,
                 asked, shown>>

\* The stats interval does not know of the session: it outlives it.
FetchStats ==
  /\ selected
  /\ timer \notin asked
  /\ asked' = asked \cup {timer}
  /\ UNCHANGED <<page, owner, expired, signing, verifying, tab, poll, selected,
                 timer, fetches, shown>>

-----------------------------------------------------------------------------
(* apiFetch's answers.                                                     *)

\* A token runs out, or its user is deleted.
Expire(t) ==
  /\ t \notin expired
  /\ expired' = expired \cup {t}
  /\ UNCHANGED <<page, owner, signing, verifying, tab, poll, selected, timer,
                 fetches, asked, shown>>

\* fetchAll goes on to what it reads next, or ends.
Advance(f, rest) ==
  fetches' = (fetches \ {f})
               \cup IF rest = <<>> THEN {} ELSE {[f EXCEPT !.rest = rest]}

\* Mutant: a list that is there already is kept.
MutantAnswered(f) ==
  /\ ~Invalid(f.tok)
  /\ shown' = IF Head(f.rest) = Watched /\ shown = Nobody
               THEN owner[f.tok] ELSE shown
  /\ Advance(f, Tail(f.rest))
  /\ UNCHANGED <<page, owner, expired, signing, verifying, tab, poll, selected,
                 timer, asked>>

Answered(f) ==
  /\ ~Invalid(f.tok)
  /\ shown' = IF Head(f.rest) = Watched THEN owner[f.tok] ELSE shown
  /\ Advance(f, Tail(f.rest))
  /\ UNCHANGED <<page, owner, expired, signing, verifying, tab, poll, selected,
                 timer, asked>>

\* An error answer leaves the list as it is; an exception ends fetchAll if the
\* list is a core one.
Fails(f) ==
  /\ \/ Advance(f, Tail(f.rest))
     \/ Head(f.rest) \in Range(Core) /\ Advance(f, <<>>)
  /\ UNCHANGED <<page, owner, expired, signing, verifying, tab, poll, selected,
                 timer, asked, shown>>

\* call_daemon hands on the status of the node's daemon: where the panel has a
\* wrong token of the node, what it relays is answered 401 with any token.
NodeMayRefuse(f) == Head(f.rest) \in Relayed

\* 401, the panel's or a node's: the session ends, fetchAll goes on.
Refused(f) ==
  /\ Invalid(f.tok) \/ NodeMayRefuse(f)
  /\ SetSession(0, Nobody)
  /\ Advance(f, Tail(f.rest))
  /\ UNCHANGED <<owner, expired, signing, verifying, tab, poll, selected, timer,
                 asked, shown>>

\* The stats are relayed as well.
StatsAnswered(t) ==
  /\ asked' = asked \ {t}
  /\ \/ ~Invalid(t) /\ UNCHANGED page
     \/ SetSession(0, Nobody)
  /\ UNCHANGED <<owner, expired, signing, verifying, tab, poll, selected, timer,
                 fetches, shown>>

Answer(f) == Answered(f) \/ Fails(f) \/ Refused(f)

Lists == UNION {Range(Reads(tb)) : tb \in Tab}

Arrives(list) == \E f \in fetches : Head(f.rest) = list /\ Answered(f)

Next ==
  \/ \E u \in User : Submit(u) \/ SignIn(u) \/ SignInFails(u)
  \/ Verified \/ NotVerified \/ Logout \/ Reload
  \/ Tick \/ SetSelectedServer \/ FetchStats
  \/ \E tb \in Tab : SetActiveTab(tb)
  \/ \E t \in Issued : Expire(t)
  \/ \E f \in fetches : Answer(f)
  \/ \E t \in asked : StatsAnswered(t)

Spec == Init /\ [][Next]_vars

\* Requests end, the interval ticks, and the panel does not fail a list for
\* ever: of infinitely many requests for it infinitely many succeed.
FairSpec ==
  /\ Spec
  /\ WF_vars(\E f \in fetches : Answer(f))
  /\ SF_vars(Tick)
  /\ \A list \in Lists : SF_vars(Arrives(list))

-----------------------------------------------------------------------------
(* Properties.                                                             *)

TypeOK ==
  /\ owner \in Seq(User)
  /\ token \in {0} \cup Issued /\ verifying \in {0} \cup Issued
  /\ user \in User \cup {Nobody} /\ shown \in User \cup {Nobody}
  /\ stored = token
  /\ expired \subseteq Issued /\ asked \subseteq {0} \cup Issued
  /\ signing \subseteq User
  /\ tab \in Tab
  /\ poll \in [tok : {0} \cup Issued, tab : Tab]
  /\ selected \in BOOLEAN /\ timer \in {0} \cup Issued
  /\ \A f \in fetches : f.tok \in {0} \cup Issued /\ f.rest # <<>>

\* What is asked during a session is asked with its token: the closure of the
\* interval, and of every fetchAll that is not of an earlier session.
AsksAsItself ==
  token # 0 =>
    /\ user # Nobody => poll.tok = token
    /\ \A f \in fetches : ~f.late => f.tok = token

\* A session whose token is good ends by a sign-out or a failed verification,
\* by a 401 to the fetchAll of an earlier session, or of the page before it had
\* one, or by a node's 401, to the stats of a server or to a list that the panel
\* relays.  What the session asks the panel itself never ends it.
EndsForAReason ==
  [][(token # 0 /\ token \notin expired /\ token' = 0) =>
        \/ Logout \/ NotVerified
        \/ \E f \in fetches : f.late /\ f.tok # token /\ Refused(f)
        \/ \E f \in fetches : NodeMayRefuse(f) /\ Refused(f)
        \/ \E t \in asked : StatsAnswered(t)]_vars

\* The page shows another user than the one its token speaks for only when a
\* verification that began before the sign-in ends after it.
UserIsTheTokens ==
  [][(token' # 0 /\ user' # Nobody /\ user' # owner'[token']) =>
        \/ token # 0 /\ user # Nobody /\ user # owner[token]
        \/ Verified /\ verifying # token]_vars

\* A list read for somebody else gets on the page only by a fetchAll that was
\* called before the session began.
OthersListsAreLate ==
  [][(token # 0 /\ shown' \notin {shown, Nobody, owner[token]}) =>
        \E f \in fetches : f.late /\ Answered(f)]_vars

\* A session that stays, with a token that stays good, gets its own lists in the
\* end and keeps them, whatever was on the page before and whatever fails in
\* between.
ListsFollow ==
  \A u \in User :
    <>[](token \in Issued \ expired /\ user = u /\ owner[token] = u)
      => <>[](shown = u)

=============================================================================
