---------------------------- MODULE Session_proofs ---------------------------
(***************************************************************************)
(* Proofs about the page's session, for any users, tabs, lists and any     *)
(* number of tokens and of fetchAll calls.                                 *)
(***************************************************************************)
EXTENDS Session, TLAPS

\* A fetchAll is a record with something left to read.
IsRecord(f) ==
  DOMAIN f = {"id", "tok", "rest", "late"} /\ f = [k \in DOMAIN f |-> f[k]]

IsFetch(f) ==
  /\ IsRecord(f)
  /\ f.tok \in {0} \cup Issued
  /\ f.rest # <<>>

\* The type invariant, and that the interval and whatever is not of an earlier
\* session carry the session's token.
Inv ==
  /\ TypeOK
  /\ \A f \in fetches : IsFetch(f)
  /\ AsksAsItself

LEMMA ReadsSomething == \A tb \in Tab : Reads(tb) # <<>>
<1> SUFFICES ASSUME NEW tb \in Tab PROVE Reads(tb) # <<>>
  OBVIOUS
<1>1. Core \in Seq(Range(Core)) /\ Side \in Seq(Range(Side))
      /\ Own[tb] \in Seq(Range(Own[tb])) /\ Core # <<>>
  BY ReadsAssumption
<1>2. Len(Core) > 0 /\ Len(Side) >= 0 /\ Len(Own[tb]) >= 0
  BY <1>1
<1>3. Len(Core \o Side \o Own[tb]) = Len(Core) + Len(Side) + Len(Own[tb])
  <2> DEFINE S == Range(Core) \cup Range(Side) \cup Range(Own[tb])
  <2>1. Core \in Seq(S) /\ Side \in Seq(S) /\ Own[tb] \in Seq(S)
    BY <1>1
  <2> HIDE DEF S
  <2> QED BY <2>1
<1> QED BY <1>2, <1>3 DEF Reads

\* What FetchAll adds is one fetchAll with the token of its closure.
LEMMA FetchAllAdds ==
  ASSUME NEW old, NEW t, NEW tb \in Tab,
         NEW f \in FetchAll(old, t, tb, FALSE), f \notin old
  PROVE  /\ IsRecord(f)
         /\ f.tok = t /\ f.rest # <<>>
<1> DEFINE n == CHOOSE m \in 1 .. MaxFetches : \A g \in old : g.id # m
<1>1. f = [id |-> n, tok |-> t, rest |-> Reads(tb), late |-> FALSE]
  BY DEF FetchAll
<1> HIDE DEF n
<1> QED BY <1>1, ReadsSomething DEF IsRecord

\* A fetchAll that goes on is the same one, with less to read.
LEMMA AdvanceKeeps ==
  ASSUME NEW f \in fetches, NEW rest, \A g \in fetches : IsFetch(g), Advance(f, rest),
         UNCHANGED owner
  PROVE  \A g \in fetches' :
           /\ IsFetch(g)'
           /\ \E h \in fetches : g.tok = h.tok /\ g.late = h.late
<1>1. CASE rest = <<>>
  BY <1>1 DEF Advance, IsFetch, Issued
<1>2. CASE rest # <<>>
  <2>1. fetches' = (fetches \ {f}) \cup {[f EXCEPT !.rest = rest]}
    BY <1>2 DEF Advance
  <2>2. IsFetch([f EXCEPT !.rest = rest])
        /\ [f EXCEPT !.rest = rest].tok = f.tok /\ [f EXCEPT !.rest = rest].late = f.late
    BY <1>2 DEF IsFetch, IsRecord
  <2> QED BY <2>1, <2>2 DEF IsFetch, Issued
<1> QED BY <1>1, <1>2

\* Starting afresh, as the page does when it is loaded.
LEMMA MountFetches ==
  ASSUME NEW t
  PROVE  \A f \in Mount(t).fetches :
           /\ IsRecord(f)
           /\ f.tok = 0 /\ f.rest # <<>> /\ f.late = TRUE
<1>1. Mount(t).fetches = FetchAll({}, 0, Home, TRUE)
  BY DEF Mount
<1> DEFINE n == CHOOSE m \in 1 .. MaxFetches : \A g \in {} : g.id # m
<1>2. Mount(t).fetches = {[id |-> n, tok |-> 0, rest |-> Reads(Home), late |-> TRUE]}
  BY <1>1 DEF FetchAll
<1> HIDE DEF n
<1> QED BY <1>2, ReadsSomething, TabAssumption DEF IsRecord

LEMMA Issuing ==
  ASSUME TypeOK, NEW u \in User, owner' = Append(owner, u)
  PROVE  /\ owner' \in Seq(User)
         /\ Issued' = Issued \cup {Len(owner) + 1}
         /\ Len(owner) + 1 \in Issued' /\ Len(owner) + 1 # 0
         /\ Len(owner) + 1 \notin Issued
         /\ owner'[Len(owner) + 1] = u
         /\ \A t \in Issued : owner'[t] = owner[t]
BY DEF TypeOK, Issued

LEMMA InvInit == Init => Inv
<1> SUFFICES ASSUME Init PROVE Inv
  OBVIOUS
<1>1. owner \in Seq(User) /\ stored \in {0} \cup Issued
  <2>1. CASE owner = <<>>
    BY <2>1 DEF Init
  <2>2. ASSUME NEW u \in User, owner = <<u>> PROVE owner \in Seq(User) /\ Len(owner) = 1
    BY <2>2
  <2> QED BY <2>1, <2>2 DEF Init, Issued
<1>2. fetches = Mount(stored).fetches /\ token = stored /\ verifying = stored
  BY DEF Init, Mount
<1> QED
  BY <1>1, <1>2, MountFetches, TabAssumption
  DEF Init, Inv, TypeOK, IsFetch, AsksAsItself, Issued

LEMMA InvStep == Inv /\ [Next]_vars => Inv'
<1> SUFFICES ASSUME Inv, [Next]_vars PROVE Inv'
  OBVIOUS
<1> USE NobodyAssumption, TabAssumption
<1> USE DEF Inv, TypeOK, AsksAsItself, page
<1>1. ASSUME NEW u \in User, Submit(u) \/ SignInFails(u) PROVE Inv'
  BY <1>1 DEF Submit, SignInFails, Issued, IsFetch
<1>2. ASSUME NEW u \in User, SignIn(u) PROVE Inv'
  <2> DEFINE t == Len(owner) + 1
  <2>1. /\ token' = t /\ user' = u /\ stored' = t
        /\ poll' = [tok |-> t, tab |-> tab]
        /\ fetches' = FetchAll(Late, t, tab, FALSE)
        /\ owner' = Append(owner, u)
        /\ signing' = signing \ {u}
        /\ UNCHANGED <<expired, verifying, tab, selected, timer, asked, shown>>
    BY <1>2 DEF SignIn, SetSession, NewUser
  <2>2. /\ owner' \in Seq(User) /\ Issued \subseteq Issued' /\ t \in Issued' /\ t # 0
    BY <2>1, Issuing
  <2> HIDE DEF t
  <2>3. \A f \in Late : /\ IsRecord(f)
                        /\ f.tok \in {0} \cup Issued /\ f.rest # <<>> /\ f.late = TRUE
    BY DEF Late, IsFetch, IsRecord
  <2>4. ASSUME NEW f \in fetches' PROVE IsFetch(f)' /\ (~f.late => f.tok = t)
    <3>1. CASE f \in Late BY <3>1, <2>2, <2>3 DEF IsFetch
    <3>2. CASE f \notin Late
      <4>1. f \in FetchAll(Late, t, tab, FALSE)
        BY <2>1
      <4>2. IsRecord(f) /\ f.tok = t /\ f.rest # <<>>
        BY <4>1, <3>2, FetchAllAdds
      <4> QED BY <4>2, <2>2 DEF IsFetch
    <3> QED BY <3>1, <3>2
  <2> QED BY <2>1, <2>2, <2>4 DEF IsFetch
<1>3. CASE Verified
  <2>1. verifying \in Issued /\ owner[verifying] \in User
    BY <1>3 DEF Verified, Invalid, Issued
  <2>2. ASSUME NEW f \in fetches', f \notin fetches
        PROVE  IsFetch(f)' /\ (~f.late => f.tok = token)
    <3>1. f \in FetchAll(fetches, token, tab, FALSE)
      BY <1>3, <2>2 DEF Verified, NewUser
    <3>2. IsRecord(f) /\ f.tok = token /\ f.rest # <<>>
      BY <3>1, <2>2, FetchAllAdds
    <3> QED BY <1>3, <3>2 DEF Verified, NewUser, IsFetch, Issued
  <2> QED BY <1>3, <2>1, <2>2 DEF Verified, NewUser, IsFetch, Issued
<1>4. CASE NotVerified \/ Logout
  BY <1>4 DEF NotVerified, Logout, SetSession, IsFetch, Issued
<1>5. CASE Reload
  <2>1. /\ token' = stored /\ verifying' = stored /\ fetches' = Mount(stored).fetches
    BY <1>5 DEF Reload, Mount
  <2> QED BY <1>5, <2>1, MountFetches DEF Reload, IsFetch, Issued
<1>6. CASE Tick
  <2>1. ASSUME NEW f \in fetches', f \notin fetches
        PROVE  IsFetch(f)' /\ (~f.late => f.tok = poll.tok)
    <3>0. poll.tab \in Tab
      OBVIOUS
    <3>1. f \in FetchAll(fetches, poll.tok, poll.tab, FALSE)
      BY <1>6, <2>1 DEF Tick, Call
    <3>2. IsRecord(f) /\ f.tok = poll.tok /\ f.rest # <<>>
      BY ONLY <3>0, <3>1, <2>1, FetchAllAdds
    <3> QED BY <1>6, <3>2 DEF Tick, Call, IsFetch, Issued
  <2> QED BY <1>6, <2>1 DEF Tick, Call, Issued, IsFetch
<1>7. ASSUME NEW tb \in Tab, SetActiveTab(tb) PROVE Inv'
  <2>1. ASSUME NEW f \in fetches', f \notin fetches
        PROVE  IsFetch(f)' /\ (~f.late => f.tok = token)
    <3>1. f \in FetchAll(fetches, token, tb, FALSE)
      BY <1>7, <2>1 DEF SetActiveTab, Call
    <3>2. IsRecord(f) /\ f.tok = token /\ f.rest # <<>>
      BY ONLY tb \in Tab, <3>1, <2>1, FetchAllAdds
    <3> QED BY <1>7, <3>2 DEF SetActiveTab, Call, IsFetch, Issued
  <2> QED BY <1>7, <2>1 DEF SetActiveTab, Issued, IsFetch
<1>8. CASE SetSelectedServer \/ FetchStats
  BY <1>8 DEF SetSelectedServer, FetchStats, IsFetch, Issued
<1>9. ASSUME NEW t \in Issued, Expire(t) PROVE Inv'
  BY <1>9 DEF Expire, IsFetch, Issued
<1>10. ASSUME NEW f \in fetches, Answered(f) PROVE Inv'
  <2>1. f.tok \in Issued /\ owner[f.tok] \in User
    BY <1>10 DEF Answered, Invalid, IsFetch, Issued
  <2>2. PICK rest : Advance(f, rest)
    BY <1>10 DEF Answered
  <2> QED BY <1>10, <2>1, <2>2, AdvanceKeeps DEF Answered, IsFetch, Issued
<1>11. ASSUME NEW f \in fetches, Fails(f) PROVE Inv'
  <2>1. PICK rest : Advance(f, rest)
    BY <1>11 DEF Fails
  <2> QED BY <1>11, <2>1, AdvanceKeeps DEF Fails, IsFetch, Issued
<1>12. ASSUME NEW f \in fetches, Refused(f) PROVE Inv'
  <2>1. PICK rest : Advance(f, rest)
    BY <1>12 DEF Refused
  <2> QED BY <1>12, <2>1, AdvanceKeeps DEF Refused, SetSession, IsFetch, Issued
<1>13. ASSUME NEW t \in asked, StatsAnswered(t) PROVE Inv'
  BY <1>13 DEF StatsAnswered, SetSession, IsFetch, Issued
<1>14. CASE UNCHANGED vars
  BY <1>14 DEF vars, IsFetch, Issued
<1> QED
  BY <1>1, <1>2, <1>3, <1>4, <1>5, <1>6, <1>7, <1>8, <1>9, <1>10, <1>11, <1>12, <1>13,
     <1>14 DEF Next, Answer

LEMMA InvAlways == Spec => []Inv
BY InvInit, InvStep, PTL DEF Spec

-----------------------------------------------------------------------------

\* Tokens, users and requests are what they are said to be, and the browser's
\* copy of the token is the session's own: setToken and localStorage never
\* part, whatever answers come late.
THEOREM TypeCorrect == Spec => []TypeOK
BY InvAlways, PTL DEF Inv

\* Whatever is asked in a session is asked with its token, but for the
\* fetchAll calls of an earlier one that still go on.
THEOREM AsksOnlyAsItself == Spec => []AsksAsItself
BY InvAlways, PTL DEF Inv

\* What a session whose token is good asks the panel itself never ends it: what
\* does is a sign-out, a failed verification, the 401 of a fetchAll with another
\* token, or a node's own 401.
THEOREM SessionEndsForAReason == Spec => EndsForAReason
<1>1. Inv /\ [Next]_vars =>
        [(token # 0 /\ token \notin expired /\ token' = 0) =>
          \/ Logout \/ NotVerified
          \/ \E f \in fetches : f.late /\ f.tok # token /\ Refused(f)
          \/ \E f \in fetches : NodeMayRefuse(f) /\ Refused(f)
          \/ \E t \in asked : StatsAnswered(t)]_vars
  <2> SUFFICES ASSUME Inv, Next, token # 0, token \notin expired, token' = 0,
                      ~Logout, ~NotVerified
               PROVE  \/ \E f \in fetches : f.late /\ f.tok # token /\ Refused(f)
                      \/ \E f \in fetches : NodeMayRefuse(f) /\ Refused(f)
                      \/ \E t \in asked : StatsAnswered(t)
    BY DEF vars, page
  <2>1. ~ \E u \in User : Submit(u) \/ SignIn(u) \/ SignInFails(u)
    BY DEF Submit, SignIn, SignInFails, SetSession, page, Inv, TypeOK
  <2>2. ~Verified /\ ~Tick /\ ~SetSelectedServer /\ ~FetchStats
    BY DEF Verified, Tick, SetSelectedServer, FetchStats, page
  <2>3. ~Reload
    BY DEF Reload, Mount, Inv, TypeOK
  <2>4. ~ \E tb \in Tab : SetActiveTab(tb)
    BY DEF SetActiveTab, page
  <2>5. ~ \E t \in Issued : Expire(t)
    BY DEF Expire, page
  <2>6. ~ \E f \in fetches : Answered(f) \/ Fails(f)
    BY DEF Answered, Fails, page
  <2>7. ASSUME NEW f \in fetches, Refused(f), ~NodeMayRefuse(f)
        PROVE  f.late /\ f.tok # token
    BY <2>7 DEF Refused, Invalid, Inv, AsksAsItself
  <2> QED
    BY <2>1, <2>2, <2>3, <2>4, <2>5, <2>6, <2>7 DEF Next, Answer
<1> QED BY <1>1, InvAlways, PTL DEF Spec, EndsForAReason

\* The page comes to show one user and to ask in the name of another only by a
\* verification that was overtaken by a sign-in.
THEOREM UserIsOfToken == Spec => UserIsTheTokens
<1>1. Inv /\ [Next]_vars =>
        [(token' # 0 /\ user' # Nobody /\ user' # owner'[token']) =>
          \/ token # 0 /\ user # Nobody /\ user # owner[token]
          \/ Verified /\ verifying # token]_vars
  <2> SUFFICES ASSUME Inv, Next, token' # 0, user' # Nobody, user' # owner'[token'],
                      ~(token # 0 /\ user # Nobody /\ user # owner[token])
               PROVE  Verified /\ verifying # token
    BY DEF vars, page
  <2>1. ~(UNCHANGED <<token, user, owner>>)
    OBVIOUS
  <2>2. ASSUME NEW u \in User, SignIn(u) PROVE FALSE
    BY <2>2, Issuing DEF SignIn, SetSession, Inv
  <2>3. ~ \E u \in User : Submit(u) \/ SignInFails(u)
    BY <2>1 DEF Submit, SignInFails, page
  <2>4. ~NotVerified /\ ~Logout /\ ~Reload
    BY DEF NotVerified, Logout, SetSession, Reload
  <2>5. ~Tick /\ ~SetSelectedServer /\ ~FetchStats
    BY <2>1 DEF Tick, SetSelectedServer, FetchStats, page
  <2>6. ~ \E tb \in Tab : SetActiveTab(tb)
    BY <2>1 DEF SetActiveTab, page
  <2>7. ~ \E t \in Issued : Expire(t)
    BY <2>1 DEF Expire, page
  <2>8. ~ \E f \in fetches : Answer(f)
    BY <2>1 DEF Answer, Answered, Fails, Refused, SetSession, page
  <2>9. ~ \E t \in asked : StatsAnswered(t)
    BY <2>1 DEF StatsAnswered, SetSession, page
  <2>10. Verified
    BY <2>2, <2>3, <2>4, <2>5, <2>6, <2>7, <2>8, <2>9 DEF Next
  <2> QED BY <2>10 DEF Verified
<1> QED BY <1>1, InvAlways, PTL DEF Spec, UserIsTheTokens

\* Somebody else's list gets on the page only by a fetchAll that was under way
\* when the session began.
THEOREM OnlyLateListsAreOthers == Spec => OthersListsAreLate
<1>1. Inv /\ [Next]_vars =>
        [(token # 0 /\ shown' \notin {shown, Nobody, owner[token]}) =>
          \E f \in fetches : f.late /\ Answered(f)]_vars
  <2> SUFFICES ASSUME Inv, Next, token # 0, shown' \notin {shown, Nobody, owner[token]}
               PROVE  \E f \in fetches : f.late /\ Answered(f)
    BY DEF vars
  <2>1. PICK f \in fetches : Answered(f)
    BY DEF Next, Submit, SignIn, SignInFails, Verified, NotVerified, Logout, Reload, Tick,
           SetSelectedServer, FetchStats, SetActiveTab, Expire, Answer, Fails, Refused,
           StatsAnswered
  <2>2. f.tok # token
    BY <2>1 DEF Answered
  <2> QED BY <2>1, <2>2 DEF Inv, AsksAsItself
<1> QED BY <1>1, InvAlways, PTL DEF Spec, OthersListsAreLate

=============================================================================
