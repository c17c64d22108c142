--------------------------- MODULE AccountLink_proofs ---------------------------
(***************************************************************************)
(* Proofs about AccountLink for any users, profiles, requests, callbacks   *)
(* and faults.                                                             *)
(***************************************************************************)
EXTENDS AccountLink, TLAPS

Busy == {"read", "post", "recover", "save", "connect"}

\* A request that is on its way: its record, field by field.
LEMMA RequestShape ==
  ASSUME TypeOK, NEW e \in Ensure
  PROVE  /\ ensure[e].step \in Busy \cup {"idle", "over"}
         /\ ensure[e].step \in Busy =>
              /\ ensure[e] \in [step : Busy, user : User, why : Purpose,
                                got : Profile \cup {NoProfile}]
              /\ For(e) \in User
         /\ ensure[e].step \in {"save", "connect"} => ensure[e].got \in Profile
         /\ ensure[e].step \in {"read", "post", "recover"}
              => ensure[e].got = NoProfile
<1>1. ensure[e] \in EnsureState
  BY DEF TypeOK
<1> QED
  BY <1>1 DEF EnsureState, Asleep, Busy, For

\* What the four ways to go on leave of a request.
LEMMA GotoFacts ==
  ASSUME TypeOK, NEW e \in Ensure, NEW next \in {"post", "recover"},
         ensure[e].step \in {"read", "post"}, Goto(e, next)
  PROVE  /\ ensure' \in [Ensure -> EnsureState]
         /\ \A f \in Ensure \ {e} : ensure'[f] = ensure[f]
         /\ ensure'[e].step = next /\ ensure'[e].user = For(e)
<1>1. /\ ensure[e] \in [step : Busy, user : User, why : Purpose,
                        got : Profile \cup {NoProfile}]
      /\ ensure[e].got = NoProfile
  BY RequestShape DEF Busy
<1>2. ensure'[e] = [ensure[e] EXCEPT !.step = next]
  BY DEF Goto, TypeOK
<1>3. ensure'[e] \in [step : {"read", "post", "recover"}, user : User,
                      why : Purpose, got : {NoProfile}]
  BY <1>1, <1>2
<1>4. ensure'[e] \in EnsureState
  BY <1>3 DEF EnsureState
<1> QED
  BY <1>1, <1>2, <1>4 DEF Goto, TypeOK, For

LEMMA KnowsFacts ==
  ASSUME TypeOK, NEW e \in Ensure, NEW p \in Profile,
         ensure[e].step \in {"post", "recover"}, Knows(e, p)
  PROVE  /\ ensure' \in [Ensure -> EnsureState]
         /\ \A f \in Ensure \ {e} : ensure'[f] = ensure[f]
         /\ ensure'[e].step = "save" /\ ensure'[e].user = For(e)
         /\ ensure'[e].got = p
<1>1. ensure[e] \in [step : Busy, user : User, why : Purpose,
                     got : Profile \cup {NoProfile}]
  BY RequestShape DEF Busy
<1>2. ensure'[e] = [ensure[e] EXCEPT !.step = "save", !.got = p]
  BY DEF Knows, Becomes, TypeOK
<1>3. ensure'[e] \in [step : {"save", "connect"}, user : User, why : Purpose,
                      got : Profile]
  BY <1>1, <1>2
<1>4. ensure'[e] \in EnsureState
  BY <1>3 DEF EnsureState
<1> QED
  BY <1>1, <1>2, <1>4 DEF Knows, Becomes, TypeOK, For

LEMMA EndsFacts ==
  ASSUME TypeOK, NEW e \in Ensure, Ends(e)
  PROVE  /\ ensure' \in [Ensure -> EnsureState]
         /\ \A f \in Ensure \ {e} : ensure'[f] = ensure[f]
         /\ ensure'[e].step = "over" /\ ensure'[e].user = NoUser
BY DEF Ends, Becomes, Asleep, EnsureState, TypeOK

LEMMA ReadyFacts ==
  ASSUME TypeOK, NEW e \in Ensure, NEW p \in Profile,
         ensure[e].step \in {"read", "save"}, Ready(e, p)
  PROVE  /\ ensure' \in [Ensure -> EnsureState]
         /\ \A f \in Ensure \ {e} : ensure'[f] = ensure[f]
         /\ \/ ensure'[e].step = "over" /\ ensure'[e].user = NoUser
            \/ /\ ensure'[e].step = "connect" /\ ensure'[e].user = For(e)
               /\ ensure'[e].got = p
<1>1. CASE ensure[e].why # "link"
  BY <1>1, EndsFacts DEF Ready
<1>2. CASE ensure[e].why = "link"
  <2>1. ensure[e] \in [step : Busy, user : User, why : Purpose,
                       got : Profile \cup {NoProfile}]
    BY RequestShape DEF Busy
  <2>2. ensure'[e] = [ensure[e] EXCEPT !.step = "connect", !.got = p]
    BY <1>2 DEF Ready, Becomes, TypeOK
  <2>3. ensure'[e] \in [step : {"save", "connect"}, user : User,
                        why : Purpose, got : Profile]
    BY <2>1, <2>2
  <2>4. ensure'[e] \in EnsureState
    BY <2>3 DEF EnsureState
  <2> QED
    BY <1>2, <2>1, <2>2, <2>4 DEF Ready, Becomes, TypeOK, For
<1> QED
  BY <1>1, <1>2

LEMMA AskFacts ==
  ASSUME TypeOK, NEW e \in Ensure, NEW u \in User, NEW why \in Purpose,
         Ask(e, u, why)
  PROVE  /\ ensure' \in [Ensure -> EnsureState]
         /\ \A f \in Ensure \ {e} : ensure'[f] = ensure[f]
         /\ ensure[e].step = "idle"
         /\ ensure'[e].step = "read" /\ ensure'[e].user = u
BY DEF Ask, Becomes, Asleep, EnsureState, TypeOK

\* The same for a visit of the callback.
LEMMA VisitShape ==
  ASSUME TypeOK, NEW v \in Visit
  PROVE  /\ visit[v].step \in {"idle", "over", "fetch", "write"}
         /\ visit[v].step \in {"fetch", "write"} =>
              /\ visit[v] \in [step : {"fetch", "write"}, profile : Profile,
                               user : User, account : Account \cup {NoAccount}]
              /\ visit[v].profile \in Profile /\ visit[v].user \in User
         /\ visit[v].step = "write" => visit[v].account \in Account
<1>1. visit[v] \in VisitState
  BY DEF TypeOK
<1> QED
  BY <1>1 DEF VisitState, Away

\* What a visit turns into: it is over, waits for the accounts, or has one.
VisitMoves(v, s) ==
  /\ visit' \in [Visit -> VisitState]
  /\ \A w \in Visit \ {v} : visit'[w] = visit[w]
  /\ visit'[v] = s

LEMMA AwayFacts ==
  ASSUME TypeOK, NEW v \in Visit, visit' = [visit EXCEPT ![v] = Away("over")]
  PROVE  VisitMoves(v, Away("over"))
BY DEF VisitMoves, TypeOK, VisitState

LEMMA BackFacts ==
  ASSUME TypeOK, NEW v \in Visit, NEW p \in Profile, NEW u \in User,
         visit' = [visit EXCEPT ![v] = [step |-> "fetch", profile |-> p,
                                        user |-> u, account |-> NoAccount]]
  PROVE  VisitMoves(v, [step |-> "fetch", profile |-> p, user |-> u,
                        account |-> NoAccount])
<1>1. [step |-> "fetch", profile |-> p, user |-> u, account |-> NoAccount]
        \in VisitState
  BY DEF VisitState
<1> QED
  BY <1>1 DEF VisitMoves, TypeOK

LEMMA FetchedFacts ==
  ASSUME TypeOK, NEW v \in Visit, NEW a \in Account, visit[v].step = "fetch",
         visit' = [visit EXCEPT ![v].step = "write", ![v].account = a]
  PROVE  VisitMoves(v, [step |-> "write", profile |-> visit[v].profile,
                        user |-> visit[v].user, account |-> a])
<1>1. visit[v] \in [step : {"fetch", "write"}, profile : Profile,
                    user : User, account : Account \cup {NoAccount}]
  BY VisitShape
<1>2. visit'[v] = [step |-> "write", profile |-> visit[v].profile,
                   user |-> visit[v].user, account |-> a]
  BY <1>1 DEF TypeOK
<1>3. visit'[v] \in VisitState
  BY <1>1, <1>2 DEF VisitState
<1> QED
  BY <1>2, <1>3 DEF VisitMoves, TypeOK

-----------------------------------------------------------------------------
(* Types.                                                                  *)

\* Nothing is handed out, connected or announced but below a profile that
\* Zernio has made.
Named ==
  /\ \A p \in offered : zname[p] # NoName
  /\ \A a \in Account : zaccount[a] # "none" => a[1] \in offered
  /\ \A n \in Event : event[n] # "unsent" => n[1][1] \in offered
  /\ \A e \in Ensure : ensure[e].step \in {"save", "connect"} =>
       /\ zname[ensure[e].got] # NoName
       /\ Owner(ensure[e].got) = For(e)
  /\ \A u \in User : profile[u] # NoProfile =>
       /\ zname[profile[u]] # NoName
       /\ Owner(profile[u]) = u

\* A profile with a name belongs to a user.
LEMMA NamedIsOwned ==
  ASSUME TypeOK, NEW p \in Profile
  PROVE  /\ zname[p] # NoName <=> Owner(p) \in User
         /\ zname[p] # NoName => zname[p] \in Name
BY ConstantsAssumption DEF TypeOK, Owner, Name, NoName

LEMMA OfferedAreOwned ==
  ASSUME TypeOK, Named, NEW p \in offered
  PROVE  p \in Profile /\ Owner(p) \in User
BY NamedIsOwned DEF TypeOK, Named

LEMMA NameType ==
  ASSUME TypeOK, NEW e \in Ensure, ensure[e].step \in Busy
  PROVE  NameOf(e) \in Name /\ NameOf(e)[1] = For(e) /\ NameOf(e) # NoName
BY RequestShape, ConstantsAssumption DEF NameOf, Name, NoName

\* Every variable keeps its type.
LEMMA TypeStep == TypeOK /\ Named /\ [Next]_vars => TypeOK'
<1> SUFFICES ASSUME TypeOK, Named, [Next]_vars PROVE TypeOK'
  OBVIOUS
<1> USE DEF rowVars, zernioVars, eventVars
<1>1. ASSUME NEW u \in User, NEW e \in Ensure, Register(u, e) PROVE TypeOK'
  <2>1. ensure' \in [Ensure -> EnsureState]
    BY <1>1, AskFacts DEF Register, Purpose
  <2> QED
    BY <1>1, <2>1 DEF Register, TypeOK
<1>2. ASSUME NEW u \in User, NEW e \in Ensure, Request(e, u) PROVE TypeOK'
  <2>1. ensure' \in [Ensure -> EnsureState]
    BY <1>2, AskFacts DEF Request, Purpose
  <2> QED
    BY <1>2, <2>1 DEF Request, TypeOK
<1>3. ASSUME NEW u \in User, SignUpWithGoogle(u) PROVE TypeOK'
  BY <1>3 DEF SignUpWithGoogle, TypeOK
<1>4. ASSUME NEW e \in Ensure, Read(e) PROVE TypeOK'
  <2>1. For(e) \in User
    BY <1>4, RequestShape DEF Read, Busy
  <2>2. ensure' \in [Ensure -> EnsureState]
    BY <1>4, <2>1, GotoFacts, ReadyFacts DEF Read, HasProfile, TypeOK
  <2>3. doubtful' \in SUBSET User
    BY <1>4, <2>1 DEF Read, TypeOK
  <2> QED
    BY <1>4, <2>2, <2>3 DEF Read, TypeOK
<1>5. ASSUME NEW e \in Ensure, PostProfile(e) PROVE TypeOK'
  <2>1. For(e) \in User /\ NameOf(e) \in Name
    BY <1>5, RequestShape, NameType DEF PostProfile, Busy
  <2>2. PICK p \in Profile \ Taken :
          /\ zname' = [zname EXCEPT ![p] = NameOf(e)]
          /\ \/ Knows(e, p) /\ UNCHANGED doubtful
             \/ Ends(e) /\ doubtful' = doubtful \cup {For(e)}
    BY <1>5 DEF PostProfile
  <2>3. ensure' \in [Ensure -> EnsureState]
    BY <1>5, <2>2, KnowsFacts, EndsFacts DEF PostProfile
  <2> QED
    BY <1>5, <2>1, <2>2, <2>3 DEF PostProfile, TypeOK
<1>6. ASSUME NEW e \in Ensure, PostForbidden(e) \/ RecoverProfileId(e)
                                 \/ ZernioDown(e)
      PROVE  TypeOK'
  <2>1. ensure' \in [Ensure -> EnsureState]
    BY <1>6, GotoFacts, KnowsFacts, EndsFacts
    DEF PostForbidden, RecoverProfileId, ZernioDown, Recoverable
  <2> QED
    BY <1>6, <2>1 DEF PostForbidden, RecoverProfileId, ZernioDown, TypeOK
<1>7. ASSUME NEW e \in Ensure, Save(e) PROVE TypeOK'
  <2>1. For(e) \in User /\ ensure[e].got \in Profile
    BY <1>7, RequestShape DEF Save, Busy
  <2>2. ensure' \in [Ensure -> EnsureState]
    BY <1>7, <2>1, ReadyFacts, EndsFacts DEF Save
  <2>3. profile' \in [User -> Profile \cup {NoProfile}]
    BY <1>7, <2>1 DEF Save, TypeOK
  <2>4. doubtful' \in SUBSET User
    BY <1>7, <2>1 DEF Save, TypeOK
  <2> QED
    BY <1>7, <2>2, <2>3, <2>4 DEF Save, TypeOK
<1>8. ASSUME NEW e \in Ensure, GetConnectUrl(e) PROVE TypeOK'
  BY <1>8, RequestShape, EndsFacts DEF GetConnectUrl, TypeOK
<1>9. ASSUME NEW a \in Account, Connect(a) \/ Disconnect(a) PROVE TypeOK'
  <2>1. a[1] \in Profile /\ Owner(a[1]) \in User
    BY <1>9, OfferedAreOwned DEF Connect, Disconnect, Named, Account
  <2>2. doubtful' \in SUBSET User
    BY <1>9, <2>1 DEF Connect, Disconnect, Announce, TypeOK
  <2>3. event' \in [Event -> {"unsent", "sent", "matched", "done"}]
    BY <1>9 DEF Connect, Disconnect, Announce, TypeOK
  <2>4. \A n \in Event : event'[n] = "matched" => event[n] = "matched"
    BY <1>9 DEF Connect, Disconnect, Announce, TypeOK, Event
  <2>5. zaccount' \in [Account -> {"none", "active", "inactive"}]
    BY <1>9 DEF Connect, Disconnect, TypeOK
  <2> QED
    BY <1>9, <2>2, <2>3, <2>4, <2>5 DEF Connect, Disconnect, TypeOK
<1>10. ASSUME NEW v \in Visit, NEW p \in Profile, VisitCallback(v, p)
       PROVE  TypeOK'
  <2>1. visit' \in [Visit -> VisitState]
    BY <1>10, AwayFacts, BackFacts DEF VisitCallback, VisitMoves, TypeOK
  <2> QED
    BY <1>10, <2>1 DEF VisitCallback, TypeOK
<1>11. ASSUME NEW v \in Visit, FetchAccounts(v) PROVE TypeOK'
  <2>1. visit' \in [Visit -> VisitState]
    BY <1>11, AwayFacts, FetchedFacts
    DEF FetchAccounts, VisitMoves, Usable, Active
  <2> QED
    BY <1>11, <2>1 DEF FetchAccounts, TypeOK
<1>12. ASSUME NEW v \in Visit, WriteCallback(v) PROVE TypeOK'
  <2>1. visit' \in [Visit -> VisitState]
    BY <1>12, AwayFacts DEF WriteCallback, VisitMoves
  <2>2. visit[v].account \in Account
    BY <1>12, VisitShape DEF WriteCallback
  <2>3. account' \in [User -> Account \cup {NoAccount}]
    BY <1>12, <2>2 DEF WriteCallback, TypeOK
  <2>4. linked' \in [User -> BOOLEAN]
    BY <1>12 DEF WriteCallback, TypeOK
  <2> QED
    BY <1>12, <2>1, <2>3, <2>4 DEF WriteCallback, TypeOK
<1>13. ASSUME NEW n \in Event, Deliver(n) PROVE TypeOK'
  BY <1>13 DEF Deliver, TypeOK
<1>14. ASSUME NEW n \in Event, Apply(n) PROVE TypeOK'
  <2>1. n[1] \in Account
    BY DEF Event
  <2>2. account' \in [User -> Account \cup {NoAccount}]
    BY <1>14, <2>1 DEF Apply, AccountAfter, TypeOK
  <2>3. linked' \in [User -> BOOLEAN]
    BY <1>14 DEF Apply, TypeOK
  <2> QED
    BY <1>14, <2>2, <2>3 DEF Apply, TypeOK
<1>15. ASSUME NEW n \in Event, HandlerDies(n) PROVE TypeOK'
  <2>1. n[1][1] \in Profile /\ n[1][1] \in offered
    BY <1>15 DEF HandlerDies, Named, Event, Account
  <2>2. doubtful' \in SUBSET User
    BY <1>15, <2>1, OfferedAreOwned DEF HandlerDies, TypeOK
  <2> QED
    BY <1>15, <2>2 DEF HandlerDies, TypeOK
<1>16. CASE UNCHANGED vars
  BY <1>16 DEF vars, TypeOK
<1> QED
  BY <1>1, <1>2, <1>3, <1>4, <1>5, <1>6, <1>7, <1>8, <1>9, <1>10, <1>11,
     <1>12, <1>13, <1>14, <1>15, <1>16 DEF Next, EnsureStep

-----------------------------------------------------------------------------
(* Owners: a name stays, and with it whose the profile is.                 *)

LEMMA NamesStay ==
  ASSUME TypeOK, [Next]_vars, NEW p \in Profile, zname[p] # NoName
  PROVE  zname'[p] = zname[p] /\ Owner(p)' = Owner(p)
<1> USE DEF rowVars, zernioVars, eventVars
<1>1. CASE \E e \in Ensure : PostProfile(e)
  BY <1>1 DEF PostProfile, Taken, TypeOK, Owner
<1>2. CASE ~ \E e \in Ensure : PostProfile(e)
  <2>1. UNCHANGED zname
    BY <1>2 DEF Next, vars, Register, Request, SignUpWithGoogle, EnsureStep, Read,
         PostForbidden, RecoverProfileId, Save, GetConnectUrl, ZernioDown,
         Connect, Disconnect, VisitCallback, FetchAccounts, WriteCallback,
         Deliver, Apply, HandlerDies
  <2> QED
    BY <2>1 DEF Owner
<1> QED
  BY <1>1, <1>2

LEMMA OfferedStay ==
  ASSUME TypeOK, [Next]_vars
  PROVE  offered \subseteq offered'
BY DEF Next, vars, Register, Request, SignUpWithGoogle, EnsureStep, Read,
     PostProfile, PostForbidden, RecoverProfileId, Save, GetConnectUrl,
     ZernioDown, Connect, Disconnect, VisitCallback, FetchAccounts,
     WriteCallback, Deliver, Apply, HandlerDies, rowVars, zernioVars, eventVars

\* What a request holds is a profile of its user.
HoldsOwn(f) ==
  /\ ensure[f].got \in Profile
  /\ zname[ensure[f].got] # NoName
  /\ Owner(ensure[f].got) = For(f)

\* A request holds a profile only if it just made, found or read it.
LEMMA GotStep ==
  ASSUME TypeOK, Named, NEW e \in Ensure, EnsureStep(e), NEW f \in Ensure,
         ensure'[f].step \in {"save", "connect"}
  PROVE  HoldsOwn(f)'
<1> USE DEF rowVars, zernioVars, eventVars, HoldsOwn, Owner, For
<1>0. ASSUME ensure'[f] = ensure[f] PROVE HoldsOwn(f)'
  <2>1. [Next]_vars
    BY DEF Next
  <2>2. ensure[f].step \in {"save", "connect"}
    BY <1>0
  <2>3. ensure[f].got \in Profile
    BY <2>2, RequestShape
  <2>4. zname[ensure[f].got] # NoName /\ Owner(ensure[f].got) = For(f)
    BY <2>2 DEF Named
  <2> QED
    BY <1>0, <2>1, <2>3, <2>4, NamesStay DEF Owner, For
<1>1. CASE Read(e)
  <2>1. CASE HasProfile(For(e))
    <3>1. For(e) \in User
      BY <1>1, RequestShape DEF Read, Busy
    <3>2. profile[For(e)] \in Profile /\ Ready(e, profile[For(e)])
      BY <1>1, <2>1, <3>1 DEF Read, HasProfile, TypeOK
    <3>3. Owner(profile[For(e)]) = For(e) /\ zname[profile[For(e)]] # NoName
      BY <2>1, <3>1 DEF Named, HasProfile
    <3> QED
      BY <1>0, <1>1, <3>2, <3>3, ReadyFacts DEF Read, Owner
  <2>2. CASE ~ HasProfile(For(e))
    BY <1>0, <1>1, <2>2, GotoFacts DEF Read
  <2> QED
    BY <2>1, <2>2
<1>2. CASE PostProfile(e)
  <2>1. For(e) \in User /\ NameOf(e) \in Name /\ NameOf(e)[1] = For(e)
    BY <1>2, RequestShape, NameType DEF PostProfile, Busy
  <2>2. NameOf(e) # NoName
    BY <1>2, NameType DEF PostProfile, Busy
  <2>3. PICK p \in Profile \ Taken :
          /\ zname' = [zname EXCEPT ![p] = NameOf(e)]
          /\ Knows(e, p) \/ Ends(e)
    BY <1>2 DEF PostProfile
  <2>4. zname'[p] = NameOf(e)
    BY <2>3 DEF TypeOK
  <2> QED
    BY <1>0, <1>2, <2>1, <2>2, <2>3, <2>4, KnowsFacts, EndsFacts
    DEF PostProfile
<1>3. CASE RecoverProfileId(e)
  <2>1. CASE Ends(e)
    BY <1>0, <2>1, EndsFacts
  <2>2. CASE \E p \in Recoverable(e) : Knows(e, p)
    <3>1. PICK p \in Profile : zname[p] = NameOf(e) /\ Knows(e, p)
      BY <2>2 DEF Recoverable
    <3>2. NameOf(e)[1] = For(e) /\ NameOf(e) # NoName
      BY <1>3, NameType DEF RecoverProfileId, Busy
    <3> QED
      BY <1>0, <1>3, <3>1, <3>2, KnowsFacts DEF RecoverProfileId
  <2> QED
    BY <1>3, <2>1, <2>2 DEF RecoverProfileId
<1>4. CASE Save(e)
  <2>1. ensure[e].got \in Profile
    BY <1>4, RequestShape DEF Save
  <2>2. zname[ensure[e].got] # NoName /\ Owner(ensure[e].got) = For(e)
    BY <1>4 DEF Save, Named
  <2>3. CASE Ends(e)
    BY <1>0, <2>3, EndsFacts
  <2>4. CASE Ready(e, ensure[e].got)
    BY <1>0, <1>4, <2>1, <2>2, <2>4, ReadyFacts DEF Save, Owner
  <2> QED
    BY <1>4, <2>3, <2>4 DEF Save
<1>5. CASE PostForbidden(e)
  BY <1>0, <1>5, GotoFacts DEF PostForbidden
<1>6. CASE GetConnectUrl(e) \/ ZernioDown(e)
  BY <1>0, <1>6, EndsFacts DEF GetConnectUrl, ZernioDown
<1> QED
  BY <1>1, <1>2, <1>3, <1>4, <1>5, <1>6 DEF EnsureStep

\* The same after any step.
LEMMA GotNext ==
  ASSUME TypeOK, Named, [Next]_vars, NEW f \in Ensure,
         ensure'[f].step \in {"save", "connect"}
  PROVE  HoldsOwn(f)'
<1> USE DEF rowVars, zernioVars, eventVars, HoldsOwn, Owner, For
<1>0. ASSUME ensure'[f] = ensure[f] PROVE HoldsOwn(f)'
  <2>2. ensure[f].step \in {"save", "connect"}
    BY <1>0
  <2>3. ensure[f].got \in Profile
    BY <2>2, RequestShape
  <2>4. zname[ensure[f].got] # NoName /\ Owner(ensure[f].got) = For(f)
    BY <2>2 DEF Named
  <2> QED
    BY <1>0, <2>3, <2>4, NamesStay DEF Owner, For
<1>1. CASE \E e \in Ensure : EnsureStep(e)
  BY <1>1, GotStep
<1>2. CASE \E u \in User, e \in Ensure : Register(u, e) \/ Request(e, u)
  BY <1>0, <1>2, AskFacts DEF Register, Request, Purpose
<1>3. CASE UNCHANGED ensure
  BY <1>0, <1>3
<1> QED
  BY <1>1, <1>2, <1>3 DEF Next, vars, SignUpWithGoogle, Connect, Disconnect,
     VisitCallback, FetchAccounts, WriteCallback, Deliver, Apply, HandlerDies

LEMMA NamedStep == TypeOK /\ Named /\ [Next]_vars => Named'
<1> SUFFICES ASSUME TypeOK, Named, [Next]_vars PROVE Named'
  OBVIOUS
<1> USE DEF rowVars, zernioVars, eventVars
<1>1. \A p \in offered' : zname'[p] # NoName
  <2>1. CASE \E e \in Ensure : GetConnectUrl(e)
    <3>1. PICK e \in Ensure : GetConnectUrl(e)
      BY <2>1
    <3>2. ensure[e].got \in Profile /\ zname[ensure[e].got] # NoName
      BY <3>1, RequestShape DEF GetConnectUrl, Named
    <3> QED
      BY <3>1, <3>2 DEF GetConnectUrl, Named
  <2>2. CASE UNCHANGED offered
    BY <2>2, NamesStay DEF Named, TypeOK
  <2> QED
    BY <2>1, <2>2 DEF Next, vars, Register, Request, SignUpWithGoogle,
       EnsureStep, Read, PostProfile, PostForbidden, RecoverProfileId, Save,
       ZernioDown, Connect, Disconnect, VisitCallback, FetchAccounts,
       WriteCallback, Deliver, Apply, HandlerDies
<1>2. \A a \in Account : zaccount'[a] # "none" => a[1] \in offered'
  <2>1. CASE \E b \in Account : Connect(b) \/ Disconnect(b)
    BY <2>1, OfferedStay DEF Connect, Disconnect, Named, TypeOK
  <2>2. CASE UNCHANGED zaccount
    BY <2>2, OfferedStay DEF Named
  <2> QED
    BY <2>1, <2>2 DEF Next, vars, Register, Request, SignUpWithGoogle,
       EnsureStep, Read, PostProfile, PostForbidden, RecoverProfileId, Save,
       GetConnectUrl, ZernioDown, VisitCallback, FetchAccounts,
       WriteCallback, Deliver, Apply, HandlerDies
<1>3. \A n \in Event : event'[n] # "unsent" => n[1][1] \in offered'
  <2>1. CASE \E b \in Account : Connect(b) \/ Disconnect(b)
    BY <2>1, OfferedStay DEF Connect, Disconnect, Announce, Named, TypeOK, Event
  <2>2. CASE \E m \in Event : Deliver(m) \/ Apply(m) \/ HandlerDies(m)
    BY <2>2, OfferedStay DEF Deliver, Apply, HandlerDies, Named, TypeOK
  <2>3. CASE UNCHANGED event
    BY <2>3, OfferedStay DEF Named
  <2> QED
    BY <2>1, <2>2, <2>3 DEF Next, vars, Register, Request, SignUpWithGoogle,
       EnsureStep, Read, PostProfile, PostForbidden, RecoverProfileId, Save,
       GetConnectUrl, ZernioDown, VisitCallback, FetchAccounts, WriteCallback
<1>4. \A f \in Ensure : ensure'[f].step \in {"save", "connect"} =>
         /\ zname'[ensure'[f].got] # NoName
         /\ zname'[ensure'[f].got][1] = ensure'[f].user
  BY GotNext DEF HoldsOwn, Owner, For
<1>5. \A u \in User : profile'[u] # NoProfile =>
         /\ zname'[profile'[u]] # NoName
         /\ zname'[profile'[u]][1] = u
  <2>1. CASE \E e \in Ensure : Save(e)
    <3>1. PICK e \in Ensure : Save(e)
      BY <2>1
    <3>2. For(e) \in User /\ ensure[e].got \in Profile
      BY <3>1, RequestShape DEF Save, Busy
    <3>3. zname[ensure[e].got] # NoName /\ zname[ensure[e].got][1] = For(e)
      BY <3>1 DEF Save, Named, Owner
    <3>4. UNCHANGED zname
      BY <3>1 DEF Save
    <3>5. \/ profile' = [profile EXCEPT ![For(e)] = ensure[e].got]
          \/ UNCHANGED profile
      BY <3>1 DEF Save
    <3> QED
      BY <3>2, <3>3, <3>4, <3>5 DEF Named, TypeOK, Owner
  <2>2. CASE UNCHANGED profile
    BY <2>2, NamesStay DEF Named, TypeOK, Owner
  <2> QED
    BY <2>1, <2>2 DEF Next, vars, Register, Request, SignUpWithGoogle,
       EnsureStep, Read, PostProfile, PostForbidden, RecoverProfileId,
       GetConnectUrl, ZernioDown, Connect, Disconnect, VisitCallback,
       FetchAccounts, WriteCallback, Deliver, Apply, HandlerDies
<1> QED
  BY <1>1, <1>2, <1>3, <1>4, <1>5 DEF Named, Owner, For

-----------------------------------------------------------------------------
(* Whose account a callback or a handler is about to write.                *)

Owned ==
  /\ \A v \in Visit : visit[v].step \in {"fetch", "write"} =>
       Owner(visit[v].profile) = visit[v].user
  /\ \A v \in Visit : visit[v].step = "write" =>
       visit[v].account[1] = visit[v].profile
  /\ \A n \in Event : event[n] = "matched" => Owner(n[1][1]) = match[n]
  /\ \A u \in User : account[u] # NoAccount => Owner(account[u][1]) = u

\* A visit is of the profile of the user it found, and holds its account.
LEMMA VisitsStep ==
  ASSUME TypeOK, Named, Owned, [Next]_vars, NEW v \in Visit
  PROVE  /\ visit'[v].step \in {"fetch", "write"} =>
              zname'[visit'[v].profile][1] = visit'[v].user
         /\ visit'[v].step = "write" =>
              visit'[v].account[1] = visit'[v].profile
<1> USE DEF rowVars, zernioVars, eventVars
<1>0. ASSUME visit'[v] = visit[v]
      PROVE  /\ visit'[v].step \in {"fetch", "write"} =>
                  zname'[visit'[v].profile][1] = visit'[v].user
             /\ visit'[v].step = "write" =>
                  visit'[v].account[1] = visit'[v].profile
  <2>1. CASE visit[v].step \in {"fetch", "write"}
    <3>1. visit[v].profile \in Profile /\ visit[v].user \in User
      BY <2>1, VisitShape
    <3>2. zname[visit[v].profile] # NoName
      BY <2>1, <3>1, NamedIsOwned DEF Owned
    <3> QED
      BY <1>0, <2>1, <3>1, <3>2, NamesStay DEF Owned, Owner
  <2>2. CASE visit[v].step \notin {"fetch", "write"}
    BY <1>0, <2>2
  <2> QED
    BY <2>1, <2>2
<1>1. CASE \E w \in Visit, p \in Profile : VisitCallback(w, p)
  <2>1. PICK w \in Visit, p \in Profile : VisitCallback(w, p)
    BY <1>1
  <2>2. CASE visit' = [visit EXCEPT ![w] = Away("over")]
    BY <1>0, <2>2, AwayFacts DEF VisitMoves, Away
  <2>3. CASE \E u \in users :
          /\ profile[u] = p
          /\ visit' = [visit EXCEPT ![w] = [step |-> "fetch", profile |-> p,
                                            user |-> u, account |-> NoAccount]]
    <3>1. PICK u \in users :
          /\ profile[u] = p
          /\ visit' = [visit EXCEPT ![w] = [step |-> "fetch", profile |-> p,
                                            user |-> u, account |-> NoAccount]]
      BY <2>3
    <3>2. Owner(p) = u /\ UNCHANGED zname
      BY <2>1, <3>1, ConstantsAssumption DEF Named, TypeOK, VisitCallback
    <3> QED
      BY <1>0, <3>1, <3>2, BackFacts DEF VisitMoves, TypeOK, Owner
  <2> QED
    BY <2>1, <2>2, <2>3 DEF VisitCallback
<1>2. CASE \E w \in Visit : FetchAccounts(w)
  <2>1. PICK w \in Visit : FetchAccounts(w)
    BY <1>2
  <2>2. CASE visit' = [visit EXCEPT ![w] = Away("over")]
    BY <1>0, <2>2, AwayFacts DEF VisitMoves, Away
  <2>3. CASE \E a \in Usable(visit[w].profile) :
          visit' = [visit EXCEPT ![w].step = "write", ![w].account = a]
    <3>1. PICK a \in Account :
            /\ a[1] = visit[w].profile
            /\ visit' = [visit EXCEPT ![w].step = "write", ![w].account = a]
      BY <2>3 DEF Usable, Active
    <3>2. Owner(visit[w].profile) = visit[w].user /\ UNCHANGED zname
      BY <2>1 DEF Owned, FetchAccounts
    <3>3. VisitMoves(w, [step |-> "write", profile |-> visit[w].profile,
                         user |-> visit[w].user, account |-> a])
      BY <2>1, <3>1, FetchedFacts DEF FetchAccounts
    <3>4. CASE v = w
      BY <3>1, <3>2, <3>3, <3>4 DEF VisitMoves, Owner
    <3> QED
      BY <1>0, <3>3, <3>4 DEF VisitMoves
  <2> QED
    BY <2>1, <2>2, <2>3 DEF FetchAccounts
<1>3. CASE \E w \in Visit : WriteCallback(w)
  BY <1>0, <1>3, AwayFacts DEF WriteCallback, VisitMoves, Away
<1>4. CASE UNCHANGED visit
  BY <1>0, <1>4
<1> QED
  BY <1>1, <1>2, <1>3, <1>4 DEF Next, vars, Register, Request,
     SignUpWithGoogle, EnsureStep, Read, PostProfile, PostForbidden,
     RecoverProfileId, Save, GetConnectUrl, ZernioDown, Connect, Disconnect,
     Deliver, Apply, HandlerDies

LEMMA OwnedStep == TypeOK /\ Named /\ Owned /\ [Next]_vars => Owned'
<1> SUFFICES ASSUME TypeOK, Named, Owned, [Next]_vars PROVE Owned'
  OBVIOUS
<1> USE DEF rowVars, zernioVars, eventVars
<1>0. \A a \in Account : a[1] \in Profile
  BY DEF Account
<1>1. \A n \in Event : event'[n] = "matched" => zname'[n[1][1]][1] = match'[n]
  <2>0. ASSUME NEW n \in Event, event[n] = "matched", event'[n] = event[n],
               match'[n] = match[n]
        PROVE  zname'[n[1][1]][1] = match'[n]
    <3>1. n[1][1] \in Profile /\ n[1][1] \in offered
      BY <2>0 DEF Named, Event, Account
    <3> QED
      BY <2>0, <3>1, NamesStay DEF Named, Owned, Owner
  <2>1. CASE \E a \in Account : Connect(a) \/ Disconnect(a)
    <3>1. \A n \in Event : event'[n] = "matched" =>
             event[n] = "matched" /\ match'[n] = match[n]
      BY <2>1 DEF Connect, Disconnect, Announce, TypeOK, Event
    <3> QED
      BY <2>0, <3>1
  <2>2. CASE \E m \in Event : Deliver(m)
    <3>1. PICK m \in Event : Deliver(m)
      BY <2>2
    <3>2. ASSUME NEW u \in users, profile[u] = m[1][1],
                 match' = [match EXCEPT ![m] = u],
                 event' = [event EXCEPT ![m] = "matched"]
          PROVE  \A n \in Event :
                   event'[n] = "matched" => zname'[n[1][1]][1] = match'[n]
      <4>1. m[1][1] \in Profile
        BY DEF Event, Account
      <4>2. Owner(m[1][1]) = u /\ UNCHANGED zname
        BY <3>1, <3>2, <4>1, ConstantsAssumption DEF Named, TypeOK, Deliver
      <4> QED
        BY <2>0, <3>2, <4>2 DEF TypeOK, Owner
    <3>3. CASE event' = [event EXCEPT ![m] = "done"] /\ UNCHANGED match
      BY <2>0, <3>3 DEF TypeOK
    <3> QED
      BY <3>1, <3>2, <3>3 DEF Deliver
  <2>3. CASE \E m \in Event : Apply(m) \/ HandlerDies(m)
    <3>1. \A n \in Event : event'[n] = "matched" =>
             event[n] = "matched" /\ match'[n] = match[n]
      BY <2>3 DEF Apply, HandlerDies, TypeOK
    <3> QED
      BY <2>0, <3>1
  <2>4. CASE UNCHANGED eventVars
    BY <2>0, <2>4
  <2> QED
    BY <2>1, <2>2, <2>3, <2>4 DEF Next, vars, Register, Request,
       SignUpWithGoogle, EnsureStep, Read, PostProfile, PostForbidden,
       RecoverProfileId, Save, GetConnectUrl, ZernioDown, VisitCallback,
       FetchAccounts, WriteCallback
<1>2. \A u \in User : account'[u] # NoAccount => zname'[account'[u][1]][1] = u
  <2>0. ASSUME NEW u \in User, account'[u] = account[u], account[u] # NoAccount
        PROVE  zname'[account'[u][1]][1] = u
    <3>1. account[u][1] \in Profile /\ Owner(account[u][1]) = u
      BY <1>0, <2>0 DEF TypeOK, Owned
    <3> QED
      BY <2>0, <3>1, NamesStay, NamedIsOwned DEF Owner
  <2>1. CASE \E v \in Visit : WriteCallback(v)
    <3>1. PICK v \in Visit : WriteCallback(v)
      BY <2>1
    <3>2. /\ visit[v].user \in User /\ visit[v].account \in Account
          /\ visit[v].account[1] = visit[v].profile
          /\ Owner(visit[v].profile) = visit[v].user
      BY <3>1, VisitShape DEF WriteCallback, Owned
    <3>3. UNCHANGED zname
      BY <3>1 DEF WriteCallback
    <3>4. \/ account' = [account EXCEPT ![visit[v].user] = visit[v].account]
          \/ UNCHANGED account
      BY <3>1 DEF WriteCallback
    <3> QED
      BY <2>0, <3>2, <3>3, <3>4 DEF TypeOK, Owner
  <2>2. CASE \E n \in Event : Apply(n)
    <3>1. PICK n \in Event : Apply(n)
      BY <2>2
    <3>2. match[n] \in User /\ Owner(n[1][1]) = match[n]
      BY <3>1 DEF Apply, Owned, TypeOK
    <3>3. UNCHANGED zname
      BY <3>1 DEF Apply
    <3>4. account' = [account EXCEPT ![match[n]] = AccountAfter(n)]
      BY <3>1 DEF Apply
    <3>5. AccountAfter(n) \in {n[1], NoAccount}
      BY DEF AccountAfter
    <3> QED
      BY <2>0, <3>2, <3>3, <3>4, <3>5 DEF TypeOK, Owner
  <2>3. CASE UNCHANGED account
    BY <2>0, <2>3
  <2> QED
    BY <2>1, <2>2, <2>3 DEF Next, vars, Register, Request,
       SignUpWithGoogle, EnsureStep, Read, PostProfile, PostForbidden,
       RecoverProfileId, Save, GetConnectUrl, ZernioDown, VisitCallback,
       FetchAccounts, Connect, Disconnect, Deliver, HandlerDies
<1> QED
  BY <1>1, <1>2, VisitsStep DEF Owned, Owner

Base == TypeOK /\ Named /\ Owned

LEMMA BaseInit == Init => Base
<1> SUFFICES ASSUME Init PROVE Base
  OBVIOUS
<1>1. TypeOK
  BY DEF Init, TypeOK, EnsureState, VisitState
<1> QED
  BY <1>1 DEF Base, Named, Owned, Init, Asleep, Away

LEMMA Invariance == Spec => []Base
<1>1. Base /\ [Next]_vars => Base'
  BY TypeStep, NamedStep, OwnedStep DEF Base
<1> QED
  BY BaseInit, <1>1, PTL DEF Spec

\* The columns, the requests, callbacks and events keep their types, and what
\* a step holds in between belongs to a user.
THEOREM TypeCorrect == Spec => []TypeOK
<1>1. Base => TypeOK
  BY DEF Base
<1> QED
  BY Invariance, <1>1, PTL

\* For any users, requests, callbacks and webhooks, in any order and after any
\* fault, a row has the profile and the account of its own user.
THEOREM RowsAreOwn == Spec => []RowIsOwn
<1>1. Base => RowIsOwn
  BY DEF Base, Named, Owned, RowIsOwn
<1> QED
  BY Invariance, <1>1, PTL

-----------------------------------------------------------------------------
(* One profile per user, and the row knows it.                             *)

\* A user is there before the profile is; what is offered was saved before.
Known ==
  /\ \A e \in Ensure : ensure[e].step \in Busy => For(e) \in users
  /\ \A u \in User : profile[u] # NoProfile => u \in users
  /\ \A e \in Ensure :
       ensure[e].step = "connect" => profile[For(e)] # NoProfile
  /\ \A p \in offered : profile[Owner(p)] # NoProfile

\* Zernio has what the row or the one request that makes a profile holds.
Recorded(u) ==
  /\ \A e, f \in Creating(u) : e = f
  /\ \A e \in Creating(u) :
       /\ profile[u] = NoProfile
       /\ ensure[e].step = "save" => ProfilesOf(u) = {ensure[e].got}
       /\ ensure[e].step # "save" => ProfilesOf(u) = {}
  /\ Creating(u) = {} => ProfilesOf(u) = {profile[u]} \ {NoProfile}

\* What a step of one request does to the requests.
LEMMA EnsureMoves ==
  ASSUME TypeOK, Named, NEW e \in Ensure, EnsureStep(e)
  PROVE  /\ ensure[e].step \in Busy /\ For(e) \in User
         /\ \A f \in Ensure \ {e} : ensure'[f] = ensure[f]
         /\ \/ ensure'[e].step = "over" /\ ensure'[e].user = NoUser
            \/ ensure'[e].step \in Busy /\ ensure'[e].user = For(e)
<1> USE DEF rowVars, zernioVars, eventVars
<1>1. CASE Read(e)
  <2>1. For(e) \in User
    BY <1>1, RequestShape DEF Read, Busy
  <2>2. CASE HasProfile(For(e))
    <3>1. profile[For(e)] \in Profile /\ Ready(e, profile[For(e)])
      BY <1>1, <2>1, <2>2 DEF Read, HasProfile, TypeOK
    <3> QED
      BY <1>1, <2>1, <3>1, ReadyFacts DEF Read, Busy
  <2>3. CASE ~ HasProfile(For(e))
    BY <1>1, <2>1, <2>3, GotoFacts DEF Read, Busy
  <2> QED
    BY <2>2, <2>3
<1>2. CASE PostProfile(e)
  <2>1. For(e) \in User
    BY <1>2, RequestShape DEF PostProfile, Busy
  <2>2. PICK p \in Profile : Knows(e, p) \/ Ends(e)
    BY <1>2 DEF PostProfile
  <2> QED
    BY <1>2, <2>1, <2>2, KnowsFacts, EndsFacts DEF PostProfile, Busy
<1>3. CASE PostForbidden(e)
  <2>1. For(e) \in User
    BY <1>3, RequestShape DEF PostForbidden, Busy
  <2> QED
    BY <1>3, <2>1, GotoFacts DEF PostForbidden, Busy
<1>4. CASE RecoverProfileId(e)
  <2>1. For(e) \in User
    BY <1>4, RequestShape DEF RecoverProfileId, Busy
  <2>2. Ends(e) \/ \E p \in Profile : Knows(e, p)
    BY <1>4 DEF RecoverProfileId, Recoverable
  <2> QED
    BY <1>4, <2>1, <2>2, KnowsFacts, EndsFacts DEF RecoverProfileId, Busy
<1>5. CASE Save(e)
  <2>1. For(e) \in User /\ ensure[e].got \in Profile
    BY <1>5, RequestShape DEF Save, Busy
  <2>2. Ends(e) \/ Ready(e, ensure[e].got)
    BY <1>5 DEF Save
  <2> QED
    BY <1>5, <2>1, <2>2, ReadyFacts, EndsFacts DEF Save, Busy
<1>6. CASE GetConnectUrl(e) \/ ZernioDown(e)
  <2>1. For(e) \in User
    BY <1>6, RequestShape DEF GetConnectUrl, ZernioDown, Busy
  <2> QED
    BY <1>6, <2>1, EndsFacts DEF GetConnectUrl, ZernioDown, Busy
<1> QED
  BY <1>1, <1>2, <1>3, <1>4, <1>5, <1>6 DEF EnsureStep

LEMMA KnownStep == TypeOK /\ Named /\ Known /\ [Next]_vars => Known'
<1> SUFFICES ASSUME TypeOK, Named, Known, [Next]_vars PROVE Known'
  OBVIOUS
<1> USE DEF rowVars, zernioVars, eventVars
<1>1. users \subseteq users'
  BY DEF Next, vars, Register, Request, SignUpWithGoogle, EnsureStep, Read,
     PostProfile, PostForbidden, RecoverProfileId, Save, GetConnectUrl,
     ZernioDown, Connect, Disconnect, VisitCallback, FetchAccounts,
     WriteCallback, Deliver, Apply, HandlerDies
<1>2. \A f \in Ensure : ensure'[f].step \in Busy => ensure'[f].user \in users'
  <2>1. CASE \E e \in Ensure : EnsureStep(e)
    BY <1>1, <2>1, EnsureMoves DEF Known, For, Busy
  <2>2. CASE \E u \in User, e \in Ensure : Register(u, e) \/ Request(e, u)
    BY <1>1, <2>2, AskFacts DEF Register, Request, Purpose, Known, For
  <2>3. CASE UNCHANGED ensure
    BY <1>1, <2>3 DEF Known, For
  <2> QED
    BY <2>1, <2>2, <2>3 DEF Next, vars, SignUpWithGoogle, Connect, Disconnect,
       VisitCallback, FetchAccounts, WriteCallback, Deliver, Apply, HandlerDies
<1>3. \/ UNCHANGED profile
      \/ \E e \in Ensure :
           /\ Save(e) /\ For(e) \in users /\ ensure[e].got \in Profile
           /\ profile' = [profile EXCEPT ![For(e)] = ensure[e].got]
  <2>1. CASE \E e \in Ensure : Save(e)
    <3>1. PICK e \in Ensure : Save(e)
      BY <2>1
    <3>2. For(e) \in users /\ ensure[e].got \in Profile
      BY <3>1, RequestShape DEF Save, Known, Busy
    <3> QED
      BY <3>1, <3>2 DEF Save
  <2>2. CASE ~ \E e \in Ensure : Save(e)
    BY <2>2 DEF Next, vars, Register, Request, SignUpWithGoogle, EnsureStep,
       Read, PostProfile, PostForbidden, RecoverProfileId, GetConnectUrl,
       ZernioDown, Connect, Disconnect, VisitCallback, FetchAccounts,
       WriteCallback, Deliver, Apply, HandlerDies
  <2> QED
    BY <2>1, <2>2
<1>4. \A u \in User : profile[u] # NoProfile => profile'[u] # NoProfile
  BY <1>3, ConstantsAssumption DEF TypeOK
<1>5. \A u \in User : profile'[u] # NoProfile => u \in users'
  BY <1>1, <1>3 DEF Known, TypeOK
<1>6. \A f \in Ensure :
        ensure'[f].step = "connect" => profile'[ensure'[f].user] # NoProfile
  <2>0. ASSUME NEW f \in Ensure, ensure'[f] = ensure[f],
               ensure'[f].step = "connect"
        PROVE  profile'[ensure'[f].user] # NoProfile
    BY <1>4, <2>0, RequestShape DEF Known, For, Busy
  <2>1. CASE \E e \in Ensure : EnsureStep(e)
    <3>1. PICK e \in Ensure : EnsureStep(e)
      BY <2>1
    <3>2. ASSUME ensure'[e].step = "connect"
          PROVE  profile'[ensure'[e].user] # NoProfile
      <4>1. CASE Read(e)
        <5>1. For(e) \in User
          BY <4>1, RequestShape DEF Read, Busy
        <5>2. HasProfile(For(e))
          BY <3>2, <4>1, GotoFacts DEF Read
        <5> QED
          BY <1>4, <3>1, <3>2, <5>1, <5>2, EnsureMoves DEF HasProfile, Busy
      <4>2. CASE Save(e)
        <5>1. For(e) \in User /\ ensure[e].got \in Profile
          BY <4>2, RequestShape DEF Save, Busy
        <5>2. profile' = [profile EXCEPT ![For(e)] = ensure[e].got]
          BY <3>2, <4>2, EndsFacts DEF Save
        <5>3. ensure'[e].user = For(e)
          BY <3>1, <3>2, EnsureMoves
        <5> QED
          BY <5>1, <5>2, <5>3, ConstantsAssumption DEF TypeOK
      <4>3. CASE PostProfile(e)
        BY <3>2, <4>3, KnowsFacts, EndsFacts DEF PostProfile
      <4>4. CASE PostForbidden(e)
        BY <3>2, <4>4, GotoFacts DEF PostForbidden
      <4>5. CASE RecoverProfileId(e)
        BY <3>2, <4>5, KnowsFacts, EndsFacts DEF RecoverProfileId, Recoverable
      <4>6. CASE GetConnectUrl(e) \/ ZernioDown(e)
        BY <3>2, <4>6, EndsFacts DEF GetConnectUrl, ZernioDown
      <4> QED
        BY <3>1, <4>1, <4>2, <4>3, <4>4, <4>5, <4>6 DEF EnsureStep
    <3> QED
      BY <2>0, <3>1, <3>2, EnsureMoves
  <2>2. CASE \E u \in User, e \in Ensure : Register(u, e) \/ Request(e, u)
    BY <2>0, <2>2, AskFacts DEF Register, Request, Purpose
  <2>3. CASE UNCHANGED ensure
    BY <2>0, <2>3
  <2> QED
    BY <2>1, <2>2, <2>3 DEF Next, vars, SignUpWithGoogle, Connect, Disconnect,
       VisitCallback, FetchAccounts, WriteCallback, Deliver, Apply, HandlerDies
<1>7. \A p \in offered' : profile'[zname'[p][1]] # NoProfile
  <2>0. ASSUME NEW p \in offered PROVE profile'[zname'[p][1]] # NoProfile
    <3>1. p \in Profile /\ Owner(p) \in User /\ zname[p] # NoName
      BY OfferedAreOwned, NamedIsOwned
    <3>2. zname'[p] = zname[p]
      BY <3>1, NamesStay
    <3> QED
      BY <1>4, <3>1, <3>2 DEF Known, Owner
  <2>1. CASE \E e \in Ensure : GetConnectUrl(e)
    <3>1. PICK e \in Ensure : GetConnectUrl(e)
      BY <2>1
    <3>2. Owner(ensure[e].got) = For(e) /\ profile[For(e)] # NoProfile
      BY <3>1 DEF GetConnectUrl, Named, Known
    <3> QED
      BY <2>0, <3>1, <3>2 DEF GetConnectUrl, Owner
  <2>2. CASE UNCHANGED offered
    BY <2>0, <2>2
  <2> QED
    BY <2>1, <2>2 DEF Next, vars, Register, Request, SignUpWithGoogle,
       EnsureStep, Read, PostProfile, PostForbidden, RecoverProfileId, Save,
       ZernioDown, Connect, Disconnect, VisitCallback, FetchAccounts,
       WriteCallback, Deliver, Apply, HandlerDies
<1> QED
  BY <1>2, <1>5, <1>6, <1>7 DEF Known, For, Owner

LEMMA DoubtStays == TypeOK /\ [Next]_vars => doubtful \subseteq doubtful'
BY DEF Next, vars, Register, Request, SignUpWithGoogle, EnsureStep, Read,
   PostProfile, PostForbidden, RecoverProfileId, Save, GetConnectUrl,
   ZernioDown, Connect, Disconnect, Announce, VisitCallback, FetchAccounts,
   WriteCallback, Deliver, Apply, HandlerDies, rowVars, zernioVars, eventVars

\* A step that touches neither what a user has nor who is making it.
LEMMA RecordedSame ==
  ASSUME NEW u \in User, Recorded(u), Creating(u)' = Creating(u),
         \A f \in Creating(u) : ensure'[f] = ensure[f],
         profile'[u] = profile[u], ProfilesOf(u)' = ProfilesOf(u)
  PROVE  Recorded(u)'
BY DEF Recorded

\* Requests of other users, and steps before the making, leave it alone.
LEMMA CreatingSame ==
  ASSUME NEW u \in User, NEW e \in Ensure,
         \A f \in Ensure \ {e} : ensure'[f] = ensure[f],
         e \notin Creating(u), e \notin Creating(u)'
  PROVE  /\ Creating(u)' = Creating(u)
         /\ \A f \in Creating(u) : ensure'[f] = ensure[f]
BY DEF Creating, For

\* The request itself, from looking at the row to saving the profile.
LEMMA RecordedOwn ==
  ASSUME TypeOK, Named, NEW e \in Ensure, EnsureStep(e),
         NEW u \in User, u = For(e), u \notin doubtful', Recorded(u)
  PROVE  Recorded(u)'
<1> USE DEF rowVars, zernioVars, eventVars
<1>0. /\ u \in User /\ ensure[e].step \in Busy
      /\ \A f \in Ensure \ {e} : ensure'[f] = ensure[f]
      /\ \/ ensure'[e].step = "over" /\ ensure'[e].user = NoUser
         \/ ensure'[e].step \in Busy /\ ensure'[e].user = u
  BY EnsureMoves
<1>a. /\ \A f \in Ensure : f \in Creating(u) <=>
            ensure[f].user = u /\ ensure[f].step \in {"post", "recover", "save"}
      /\ \A f \in Ensure : f \in Creating(u)' <=>
            ensure'[f].user = u
              /\ ensure'[f].step \in {"post", "recover", "save"}
      /\ Creating(u) \subseteq Ensure /\ Creating(u)' \subseteq Ensure
      /\ ensure[e].user = u
  BY DEF Creating, For
<1>b. NoUser # u
  BY <1>0, ConstantsAssumption
<1>1. ASSUME Creating(u) = {}, Creating(u)' = {e},
             profile'[u] = NoProfile, profile[u] = NoProfile,
             ensure'[e].step # "save", UNCHANGED zname
      PROVE  Recorded(u)'
  BY <1>1 DEF Recorded, ProfilesOf
<1>2. ASSUME e \in Creating(u) PROVE Creating(u) = {e}
  BY <1>2, <1>0 DEF Recorded
<1>3. CASE Read(e)
  <2>1. CASE HasProfile(u)
    <3>1. profile[u] \in Profile /\ Ready(e, profile[u])
      BY <1>0, <1>3, <2>1 DEF Read, HasProfile, TypeOK
    <3>2. e \notin Creating(u) /\ e \notin Creating(u)'
      BY <1>0, <1>a, <1>b, <1>3, <3>1, ReadyFacts DEF Read
    <3> QED
      BY <1>0, <1>3, <3>2, CreatingSame, RecordedSame
      DEF Read, ProfilesOf
  <2>2. CASE ~ HasProfile(u)
    <3>1. Goto(e, "post")
      BY <1>3, <2>2 DEF Read
    <3>2. Creating(u) = {}
      BY <1>3, <2>2 DEF Read
    <3>3. e \in Creating(u)' /\ ensure'[e].step = "post"
      BY <1>0, <1>a, <1>3, <3>1, GotoFacts DEF Read
    <3>4. Creating(u)' = {e}
      BY <1>0, <1>a, <3>2, <3>3
    <3> QED
      BY <1>1, <1>3, <2>2, <3>2, <3>3, <3>4 DEF Read, HasProfile
  <2> QED
    BY <2>1, <2>2
<1>4. CASE PostProfile(e)
  <2>1. Creating(u) = {e} /\ profile[u] = NoProfile /\ ProfilesOf(u) = {}
    BY <1>0, <1>2, <1>a, <1>4 DEF PostProfile, Recorded
  <2>2. PICK p \in Profile \ Taken :
          zname' = [zname EXCEPT ![p] = NameOf(e)] /\ Knows(e, p)
    BY <1>4 DEF PostProfile
  <2>3. ensure'[e].step = "save" /\ ensure'[e].user = u /\ ensure'[e].got = p
    BY <1>4, <2>2, KnowsFacts DEF PostProfile
  <2>4. Creating(u)' = {e}
    BY <1>0, <1>a, <2>1, <2>3
  <2>5. NameOf(e)[1] = u
    BY <1>0, NameType
  <2>6. ProfilesOf(u)' = {p}
    BY <2>1, <2>2, <2>5 DEF ProfilesOf, TypeOK
  <2>7. profile'[u] = profile[u]
    BY <1>4 DEF PostProfile
  <2> QED
    BY <2>1, <2>3, <2>4, <2>6, <2>7 DEF Recorded
<1>5. CASE PostForbidden(e)
  <2>1. Creating(u) = {e} /\ profile[u] = NoProfile /\ ProfilesOf(u) = {}
    BY <1>0, <1>2, <1>a, <1>5 DEF PostForbidden, Recorded
  <2>2. ensure'[e].step = "recover" /\ ensure'[e].user = u
    BY <1>5, GotoFacts DEF PostForbidden
  <2>3. Creating(u)' = {e}
    BY <1>0, <1>a, <2>1, <2>2
  <2>4. ProfilesOf(u)' = {} /\ profile'[u] = profile[u]
    BY <1>5, <2>1 DEF PostForbidden, ProfilesOf
  <2> QED
    BY <2>1, <2>2, <2>3, <2>4 DEF Recorded
<1>6. ASSUME e \in Creating(u), ensure[e].step # "save", Ends(e),
             UNCHANGED <<zname, profile>>
      PROVE  Recorded(u)'
  <2>1. Creating(u) = {e} /\ profile[u] = NoProfile /\ ProfilesOf(u) = {}
    BY <1>0, <1>2, <1>6 DEF Recorded
  <2>2. Creating(u)' = {}
    BY <1>0, <1>a, <1>b, <1>6, <2>1, EndsFacts
  <2> QED
    BY <1>6, <2>1, <2>2 DEF Recorded, ProfilesOf
<1>7. CASE RecoverProfileId(e)
  <2>1. e \in Creating(u) /\ ensure[e].step # "save"
    BY <1>a, <1>7 DEF RecoverProfileId
  <2>2. Creating(u) = {e} /\ ProfilesOf(u) = {}
    BY <1>0, <1>2, <2>1 DEF Recorded
  <2>3. NameOf(e)[1] = u
    BY <1>0, NameType
  <2>4. Recoverable(e) = {}
    BY <2>2, <2>3 DEF Recoverable, ProfilesOf
  <2> QED
    BY <1>6, <1>7, <2>1, <2>4 DEF RecoverProfileId
<1>8. CASE Save(e)
  <2>1. e \in Creating(u)
    BY <1>a, <1>8 DEF Save
  <2>2. Creating(u) = {e} /\ ProfilesOf(u) = {ensure[e].got}
    BY <1>0, <1>2, <1>8, <2>1 DEF Save, Recorded
  <2>3. ensure[e].got \in Profile
    BY <1>8, RequestShape DEF Save
  <2>4. /\ profile' = [profile EXCEPT ![u] = ensure[e].got]
        /\ Ready(e, ensure[e].got)
    BY <1>8 DEF Save
  <2>5. e \notin Creating(u)'
    BY <1>8, <1>a, <1>b, <2>3, <2>4, ReadyFacts DEF Save
  <2>6. Creating(u)' = {}
    BY <1>0, <1>a, <2>2, <2>5
  <2>7. profile'[u] = ensure[e].got /\ ensure[e].got # NoProfile
    BY <1>0, <2>3, <2>4, ConstantsAssumption DEF TypeOK
  <2>8. ProfilesOf(u)' = {profile'[u]}
    BY <1>8, <2>2, <2>7 DEF Save, ProfilesOf
  <2> QED
    BY <2>6, <2>7, <2>8 DEF Recorded
<1>9. CASE ensure[e].step = "connect" /\ Ends(e) /\ UNCHANGED <<zname, profile>>
  <2>1. e \notin Creating(u) /\ e \notin Creating(u)'
    BY <1>0, <1>a, <1>b, <1>9, EndsFacts
  <2> QED
    BY <1>0, <1>9, <2>1, CreatingSame, RecordedSame DEF ProfilesOf
<1>10. CASE GetConnectUrl(e)
  BY <1>9, <1>10 DEF GetConnectUrl
<1>11. CASE ZernioDown(e)
  BY <1>6, <1>9, <1>11, <1>a DEF ZernioDown
<1> QED
  BY <1>3, <1>4, <1>5, <1>7, <1>8, <1>10, <1>11 DEF EnsureStep

LEMMA RecordedStep ==
  ASSUME TypeOK, Named, [Next]_vars, NEW u \in User, u \notin doubtful',
         Recorded(u)
  PROVE  Recorded(u)'
<1> USE DEF rowVars, zernioVars, eventVars
<1>1. CASE \E e \in Ensure : EnsureStep(e)
  <2>1. PICK e \in Ensure : EnsureStep(e)
    BY <1>1
  <2>2. CASE For(e) = u
    BY <2>1, <2>2, RecordedOwn
  <2>3. CASE For(e) # u
    <3>0. For(e) \in User /\ ensure[e].step \in Busy
      BY <2>1, EnsureMoves
    <3>1. e \notin Creating(u) /\ e \notin Creating(u)'
      BY <2>1, <2>3, EnsureMoves, ConstantsAssumption DEF Creating, For
    <3>2. profile'[u] = profile[u]
      BY <2>1, <2>3 DEF EnsureStep, Read, PostProfile, PostForbidden, TypeOK,
         RecoverProfileId, Save, GetConnectUrl, ZernioDown
    <3>3. ProfilesOf(u)' = ProfilesOf(u)
      <4>1. CASE PostProfile(e)
        <5>1. PICK p \in Profile \ Taken :
                zname' = [zname EXCEPT ![p] = NameOf(e)]
          BY <4>1 DEF PostProfile
        <5>2. NameOf(e)[1] # u
          BY <2>3, <3>0, NameType
        <5>3. zname[p][1] # u /\ zname'[p][1] # u
          BY <5>1, <5>2, ConstantsAssumption DEF Taken, NoName, TypeOK
        <5> QED
          BY <5>1, <5>3 DEF ProfilesOf, TypeOK
      <4>2. CASE UNCHANGED zname
        BY <4>2 DEF ProfilesOf
      <4> QED
        BY <2>1, <4>1, <4>2 DEF EnsureStep, Read, PostForbidden,
           RecoverProfileId, Save, GetConnectUrl, ZernioDown
    <3> QED
      BY <2>1, <3>1, <3>2, <3>3, EnsureMoves, CreatingSame, RecordedSame
  <2> QED
    BY <2>2, <2>3
<1>2. CASE \E w \in User, e \in Ensure : Register(w, e) \/ Request(e, w)
  <2>1. PICK w \in User, e \in Ensure : Register(w, e) \/ Request(e, w)
    BY <1>2
  <2>2. PICK why \in Purpose : Ask(e, w, why)
    BY <2>1 DEF Register, Request, Purpose
  <2>3. /\ e \notin Creating(u) /\ e \notin Creating(u)'
        /\ \A f \in Ensure \ {e} : ensure'[f] = ensure[f]
    BY <2>2, AskFacts DEF Creating, For
  <2> QED
    BY <2>1, <2>3, CreatingSame, RecordedSame
    DEF Register, Request, ProfilesOf
<1>3. CASE UNCHANGED <<ensure, profile, zname>>
  BY <1>3, RecordedSame DEF Creating, For, ProfilesOf
<1> QED
  BY <1>1, <1>2, <1>3 DEF Next, vars, SignUpWithGoogle, Connect, Disconnect,
     VisitCallback, FetchAccounts, WriteCallback, Deliver, Apply, HandlerDies

-----------------------------------------------------------------------------
(* The row and the accounts below the profile.                             *)

Coming(n) == event[n] \in {"sent", "matched"}

\* A profile has one active account; the row's two columns go together.
Linked ==
  /\ \A u \in User : linked[u] <=> account[u] # NoAccount
  /\ \A p \in Profile : \A a, b \in Active(p) : a = b

\* News that is coming is still true, and without any the row is.
NewsIsTrue(u) ==
  /\ \A n \in Event : (Owner(n[1][1]) = u /\ Coming(n)) =>
       /\ n[2] = "connected" => zaccount[n[1]] = "active"
       /\ n[2] = "disconnected" => Active(n[1][1]) = {}
  /\ \A v \in Visit : (visit[v].user = u /\ visit[v].step = "write") =>
       zaccount[visit[v].account] = "active"
  /\ (\A n \in Event : Owner(n[1][1]) = u => ~ Coming(n)) =>
       \A p \in ProfilesOf(u) : Active(p) = {account[u]} \ {NoAccount}

LEMMA LinkedStep == TypeOK /\ Linked /\ [Next]_vars => Linked'
<1> SUFFICES ASSUME TypeOK, Linked, [Next]_vars PROVE Linked'
  OBVIOUS
<1> USE DEF rowVars, zernioVars, eventVars
<1>1. \A u \in User : linked'[u] <=> account'[u] # NoAccount
  <2>1. CASE \E v \in Visit : WriteCallback(v)
    <3>1. PICK v \in Visit : WriteCallback(v)
      BY <2>1
    <3>2. visit[v].account # NoAccount /\ visit[v].user \in User
      BY <3>1, VisitShape, ConstantsAssumption DEF WriteCallback
    <3>3. \/ /\ linked' = [linked EXCEPT ![visit[v].user] = TRUE]
             /\ account' = [account EXCEPT ![visit[v].user] = visit[v].account]
          \/ UNCHANGED <<linked, account>>
      BY <3>1 DEF WriteCallback
    <3> QED
      BY <3>2, <3>3 DEF Linked, TypeOK
  <2>2. CASE \E n \in Event : Apply(n)
    <3>1. PICK n \in Event : Apply(n)
      BY <2>2
    <3>2. n[1] # NoAccount /\ match[n] \in User
      BY <3>1, ConstantsAssumption DEF Apply, TypeOK, Event
    <3>3. AccountAfter(n) # NoAccount <=> n[2] = "connected"
      BY <3>2 DEF AccountAfter
    <3>4. /\ linked' = [linked EXCEPT ![match[n]] = (n[2] = "connected")]
          /\ account' = [account EXCEPT ![match[n]] = AccountAfter(n)]
      BY <3>1 DEF Apply
    <3> QED
      BY <3>2, <3>3, <3>4 DEF Linked, TypeOK
  <2>3. CASE UNCHANGED <<linked, account>>
    BY <2>3 DEF Linked
  <2> QED
    BY <2>1, <2>2, <2>3 DEF Next, vars, Register, Request,
       SignUpWithGoogle, EnsureStep, Read, PostProfile, PostForbidden,
       RecoverProfileId, Save, GetConnectUrl, ZernioDown, VisitCallback,
       FetchAccounts, Connect, Disconnect, Deliver, HandlerDies
<1>2. \A p \in Profile : \A a, b \in Active(p)' : a = b
  <2>1. CASE \E c \in Account : Connect(c)
    BY <2>1 DEF Connect, Active, Linked, TypeOK
  <2>2. CASE \E c \in Account : Disconnect(c)
    BY <2>2 DEF Disconnect, Active, Linked, TypeOK
  <2>3. CASE UNCHANGED zaccount
    BY <2>3 DEF Active, Linked
  <2> QED
    BY <2>1, <2>2, <2>3 DEF Next, vars, Register, Request, SignUpWithGoogle,
       EnsureStep, Read, PostProfile, PostForbidden, RecoverProfileId, Save,
       GetConnectUrl, ZernioDown, VisitCallback, FetchAccounts,
       WriteCallback, Deliver, Apply, HandlerDies
<1> QED
  BY <1>1, <1>2 DEF Linked

\* A user whose profile is recorded has no other; that is, any two are one.
LEMMA OneProfile ==
  ASSUME NEW u \in User, Recorded(u),
         NEW p \in ProfilesOf(u), NEW q \in ProfilesOf(u)
  PROVE  p = q
<1>1. CASE Creating(u) = {}
  BY <1>1 DEF Recorded
<1>2. CASE \E e : e \in Creating(u)
  BY <1>2 DEF Recorded
<1> QED
  BY <1>1, <1>2

\* A user with an offered profile is found by it.
LEMMA OfferedIsFound ==
  ASSUME TypeOK, Named, Known, NEW p \in offered, Recorded(Owner(p))
  PROVE  /\ Owner(p) \in users
         /\ profile[Owner(p)] = p
<1>1. p \in Profile /\ Owner(p) \in User
  BY OfferedAreOwned
<1>2. profile[Owner(p)] # NoProfile
  BY DEF Known
<1>3. Creating(Owner(p)) = {}
  BY <1>2 DEF Recorded
<1>4. p \in ProfilesOf(Owner(p))
  BY <1>1 DEF ProfilesOf, Owner
<1> QED
  BY <1>1, <1>2, <1>3, <1>4 DEF Recorded, Known

All == Base /\ Known /\ Linked

\* Steps of the requests: a new profile has no account, nor has its user.
LEMMA NewsRequests ==
  ASSUME All, [Next]_vars, NEW u \in User, Recorded(u), NewsIsTrue(u),
         u \notin doubtful',
         UNCHANGED <<zaccount, event, visit, account>>
  PROVE  NewsIsTrue(u)'
<1> USE DEF rowVars, zernioVars, eventVars
<1>1. \A n \in Event : event[n] # "unsent" =>
         n[1][1] \in Profile /\ zname'[n[1][1]] = zname[n[1][1]]
  BY NamesStay DEF All, Base, Named, Event, Account
<1>2. \A n \in Event : Coming(n) => event[n] # "unsent"
  BY DEF Coming
<1>3. /\ \A n \in Event : Coming(n)' <=> Coming(n)
      /\ \A p \in Profile : Active(p)' = Active(p)
  BY DEF Coming, Active
<1>4. \A n \in Event : (zname'[n[1][1]][1] = u /\ Coming(n)) =>
         /\ n[2] = "connected" => zaccount'[n[1]] = "active"
         /\ n[2] = "disconnected" => Active(n[1][1])' = {}
  BY <1>1, <1>2, <1>3 DEF NewsIsTrue, Owner
<1>5. \A v \in Visit : (visit'[v].user = u /\ visit'[v].step = "write") =>
         zaccount'[visit'[v].account] = "active"
  BY DEF NewsIsTrue
<1>6. ASSUME \A n \in Event : zname'[n[1][1]][1] = u => ~ Coming(n)',
             NEW p \in ProfilesOf(u)'
      PROVE  Active(p)' = {account'[u]} \ {NoAccount}
  <2>0. p \in Profile /\ zname'[p][1] = u
    BY <1>6 DEF ProfilesOf
  <2>1. CASE p \in ProfilesOf(u)
    <3>1. \A n \in Event : Owner(n[1][1]) = u => ~ Coming(n)
      BY <1>1, <1>2, <1>3, <1>6 DEF Owner
    <3> QED
      BY <1>3, <2>0, <2>1, <3>1 DEF NewsIsTrue
  <2>2. CASE p \notin ProfilesOf(u)
    <3>1. zname[p] = NoName
      BY <2>0, <2>2, NamesStay DEF ProfilesOf, All, Base
    <3>2. Active(p) = {}
      BY <3>1 DEF Active, All, Base, Named
    <3>3. PICK e \in Ensure : PostProfile(e)
      BY <2>0, <2>2 DEF ProfilesOf, Next, vars, Register, Request,
         SignUpWithGoogle, EnsureStep, Read, PostForbidden, RecoverProfileId,
         Save, GetConnectUrl, ZernioDown, VisitCallback, FetchAccounts,
         Connect, Disconnect, WriteCallback, Deliver, Apply, HandlerDies
    <3>4. PICK q \in Profile \ Taken :
            zname' = [zname EXCEPT ![q] = NameOf(e)]
      BY <3>3 DEF PostProfile
    <3>5. For(e) = u
      <4>1. NameOf(e)[1] = For(e)
        BY DEF NameOf
      <4>2. q = p
        BY <2>0, <2>2, <3>4 DEF ProfilesOf, All, Base, TypeOK
      <4> QED
        BY <2>0, <3>4, <4>1, <4>2 DEF All, Base, TypeOK
    <3>6. ProfilesOf(u) = {}
      BY <3>3, <3>5 DEF PostProfile, Recorded, Creating
    <3>7. account[u] = NoAccount
      <4>1. account[u] # NoAccount => account[u][1] \in Profile
        BY DEF All, Base, TypeOK, Account
      <4> QED
        BY <3>6, <4>1 DEF All, Base, Owned, ProfilesOf, Owner
    <3> QED
      BY <1>3, <2>0, <3>2, <3>7
  <2> QED
    BY <2>1, <2>2
<1> QED
  BY <1>3, <1>4, <1>5, <1>6 DEF NewsIsTrue, Owner

\* Zernio's steps: what would make other news untrue puts the user in doubt.
LEMMA NewsZernio ==
  ASSUME All, NEW a \in Account, Connect(a) \/ Disconnect(a),
         NEW u \in User, Recorded(u), NewsIsTrue(u), u \notin doubtful'
  PROVE  NewsIsTrue(u)'
<1> USE DEF rowVars, zernioVars, eventVars
<1>1. a[1] \in Profile /\ a[1] \in offered /\ Owner(a[1]) \in User
  BY OfferedAreOwned DEF Connect, Disconnect, All, Base, Named, Account
<1>2. PICK kind \in {"connected", "disconnected"} :
        /\ event' = [event EXCEPT ![<<a, kind>>] = "sent"]
        /\ Owner(a[1]) = u => ~ UnderWay(a[1])
        /\ kind = "connected" => zaccount'[a] = "active"
        /\ kind = "disconnected" => zaccount'[a] = "inactive"
        /\ kind = "disconnected" => zaccount[a] = "active"
  BY DEF Connect, Disconnect, Announce, All, Base, TypeOK
<1>3. /\ UNCHANGED <<zname, visit, account>>
      /\ \A b \in Account \ {a} : zaccount'[b] = zaccount[b]
      /\ \A p \in Profile \ {a[1]} : Active(p)' = Active(p)
  BY DEF Connect, Disconnect, Active, All, Base, TypeOK
<1>4. kind = "disconnected" => Active(a[1])' = {}
  BY <1>1, <1>2, <1>3 DEF Active, All, Linked
<1>5. <<a, kind>> \in Event /\ event'[<<a, kind>>] = "sent"
  BY <1>2 DEF Event, All, Base, TypeOK
<1>6. \A n \in Event \ {<<a, kind>>} : event'[n] = event[n]
  BY <1>2 DEF All, Base, TypeOK
<1>7. ASSUME NEW n \in Event, Owner(n[1][1]) = u, Coming(n)'
      PROVE  /\ n[2] = "connected" => zaccount'[n[1]] = "active"
             /\ n[2] = "disconnected" => Active(n[1][1])' = {}
  <2>1. CASE n = <<a, kind>>
    BY <1>2, <1>4, <2>1
  <2>2. CASE n # <<a, kind>>
    <3>1. Coming(n)
      BY <1>6, <1>7, <2>2 DEF Coming
    <3>2. n[1][1] # a[1]
      BY <1>2, <1>7, <3>1 DEF UnderWay, Coming
    <3>3. n[1] \in Account /\ n[1][1] \in Profile /\ n[1] # a
      BY <3>2 DEF Event, Account
    <3> QED
      BY <1>3, <1>7, <3>1, <3>2, <3>3 DEF NewsIsTrue
  <2> QED
    BY <2>1, <2>2
<1>8. ASSUME NEW v \in Visit, visit'[v].user = u, visit'[v].step = "write"
      PROVE  zaccount'[visit'[v].account] = "active"
  <2>1. /\ visit[v].account \in Account
        /\ visit[v].account[1] = visit[v].profile
        /\ Owner(visit[v].profile) = u
    BY <1>3, <1>8, VisitShape DEF All, Base, Owned
  <2>2. visit[v].profile # a[1]
    BY <1>2, <1>3, <1>8, <2>1 DEF UnderWay
  <2> QED
    BY <1>3, <1>8, <2>1, <2>2 DEF NewsIsTrue
<1>9. ASSUME \A n \in Event : Owner(n[1][1]) = u => ~ Coming(n)',
             NEW p \in ProfilesOf(u)
      PROVE  Active(p)' = {account'[u]} \ {NoAccount}
  <2>1. Coming(<<a, kind>>)'
    BY <1>5 DEF Coming
  <2>2. Owner(a[1]) # u
    BY <1>5, <1>9, <2>1
  <2>3. p # a[1] /\ p \in Profile
    BY <2>2 DEF ProfilesOf, Owner
  <2>4. \A n \in Event : Owner(n[1][1]) = u => ~ Coming(n)
    BY <1>6, <1>9, <2>2 DEF Coming
  <2> QED
    BY <1>3, <2>3, <2>4 DEF NewsIsTrue
<1> QED
  BY <1>3, <1>7, <1>8, <1>9 DEF NewsIsTrue, Owner, ProfilesOf

\* The callback's steps: what it fetched stays true until it is written.
LEMMA NewsVisits ==
  ASSUME All, NEW v \in Visit,
         \/ \E p \in Profile : VisitCallback(v, p)
         \/ FetchAccounts(v) \/ WriteCallback(v),
         NEW u \in User, Recorded(u), NewsIsTrue(u)
  PROVE  NewsIsTrue(u)'
<1> USE DEF rowVars, zernioVars, eventVars
<1>1. /\ UNCHANGED <<zname, zaccount, event>>
      /\ \A p \in Profile : Active(p)' = Active(p)
      /\ \A n \in Event : Coming(n)' <=> Coming(n)
  BY DEF VisitCallback, FetchAccounts, WriteCallback, Active, Coming
<1>2. ASSUME NEW w \in Visit, visit'[w].user = u, visit'[w].step = "write"
      PROVE  zaccount[visit'[w].account] = "active"
  <2>0. CASE visit'[w] = visit[w]
    BY <1>2, <2>0 DEF NewsIsTrue
  <2>1. CASE \E p \in Profile : VisitCallback(v, p)
    BY <1>2, <2>0, <2>1, AwayFacts, BackFacts
    DEF VisitCallback, VisitMoves, Away, All, Base, TypeOK
  <2>2. CASE WriteCallback(v)
    BY <1>2, <2>0, <2>2, AwayFacts DEF WriteCallback, VisitMoves, Away, All, Base
  <2>3. CASE FetchAccounts(v)
    <3>1. CASE visit' = [visit EXCEPT ![v] = Away("over")]
      BY <1>2, <2>0, <3>1, AwayFacts DEF VisitMoves, Away, All, Base
    <3>2. ASSUME NEW a \in Account, zaccount[a] = "active",
                 visit' = [visit EXCEPT ![v].step = "write", ![v].account = a]
          PROVE  zaccount[visit'[w].account] = "active"
      <4>1. VisitMoves(v, [step |-> "write", profile |-> visit[v].profile,
                           user |-> visit[v].user, account |-> a])
        BY <2>3, <3>2, FetchedFacts DEF FetchAccounts, All, Base
      <4> QED
        BY <2>0, <3>2, <4>1 DEF VisitMoves
    <3> QED
      BY <2>3, <3>1, <3>2 DEF FetchAccounts, Usable, Active
  <2> QED
    BY <2>1, <2>2, <2>3
<1>3. ASSUME \A n \in Event : Owner(n[1][1]) = u => ~ Coming(n),
             NEW p \in ProfilesOf(u)
      PROVE  Active(p) = {account'[u]} \ {NoAccount}
  <2>1. CASE account'[u] = account[u]
    BY <1>3, <2>1 DEF NewsIsTrue
  <2>2. CASE account'[u] # account[u]
    <3>1. /\ WriteCallback(v)
          /\ account' = [account EXCEPT ![visit[v].user] = visit[v].account]
      BY <2>2 DEF VisitCallback, FetchAccounts, WriteCallback
    <3>2. visit[v].user = u /\ visit[v].step = "write"
      BY <2>2, <3>1 DEF WriteCallback, All, Base, TypeOK
    <3>3. /\ visit[v].account \in Account /\ visit[v].profile \in Profile
          /\ visit[v].account[1] = visit[v].profile
          /\ Owner(visit[v].profile) = u
      BY <3>2, VisitShape DEF All, Base, Owned
    <3>4. visit[v].profile \in ProfilesOf(u)
      BY <3>3 DEF ProfilesOf, Owner
    <3>5. p = visit[v].profile
      BY <1>3, <3>4, OneProfile
    <3>6. zaccount[visit[v].account] = "active"
      BY <3>2 DEF NewsIsTrue
    <3>7. visit[v].account \in Active(p)
      BY <3>3, <3>5, <3>6 DEF Active
    <3>8. Active(p) = {visit[v].account}
      BY <3>3, <3>5, <3>7 DEF All, Linked
    <3>9. account'[u] = visit[v].account
      BY <3>1, <3>2 DEF All, Base, TypeOK
    <3> QED
      BY <3>3, <3>8, <3>9, ConstantsAssumption
  <2> QED
    BY <2>1, <2>2
<1>4. ProfilesOf(u)' = ProfilesOf(u)
  BY <1>1 DEF ProfilesOf
<1>5. ASSUME \A n \in Event : Owner(n[1][1]) = u => ~ Coming(n),
             NEW p \in ProfilesOf(u)'
      PROVE  Active(p)' = {account'[u]} \ {NoAccount}
  BY <1>1, <1>3, <1>4, <1>5 DEF ProfilesOf
<1>6. \A n \in Event : (Owner(n[1][1]) = u /\ Coming(n)') =>
         /\ n[2] = "connected" => zaccount'[n[1]] = "active"
         /\ n[2] = "disconnected" => Active(n[1][1])' = {}
  BY <1>1 DEF NewsIsTrue, Event, Account
<1>7. \A q \in Profile : Owner(q)' = Owner(q)
  BY <1>1 DEF Owner
<1>8. (\A n \in Event : Owner(n[1][1]) = u => ~ Coming(n)') =>
         \A p \in ProfilesOf(u)' : Active(p)' = {account'[u]} \ {NoAccount}
  BY <1>1, <1>5
<1>9. \A n \in Event : n[1][1] \in Profile
  BY DEF Event, Account
<1>10. \A w \in Visit : (visit'[w].user = u /\ visit'[w].step = "write") =>
         zaccount'[visit'[w].account] = "active"
  BY <1>1, <1>2
<1> QED
  BY <1>6, <1>7, <1>8, <1>9, <1>10 DEF NewsIsTrue

\* The handler's steps: it finds the user, and what it applies is still true.
LEMMA NewsEvents ==
  ASSUME All, NEW m \in Event, Deliver(m) \/ Apply(m) \/ HandlerDies(m),
         NEW u \in User, Recorded(u), NewsIsTrue(u), u \notin doubtful'
  PROVE  NewsIsTrue(u)'
<1> USE DEF rowVars, zernioVars, eventVars
<1>1. /\ UNCHANGED <<zname, zaccount, visit>>
      /\ \A p \in Profile : Active(p)' = Active(p)
      /\ ProfilesOf(u)' = ProfilesOf(u)
      /\ \A n \in Event \ {m} : event'[n] = event[n]
      /\ Coming(m)
  BY DEF Deliver, Apply, HandlerDies, Active, ProfilesOf, Coming, All, Base,
     TypeOK
<1>2. \A n \in Event : Coming(n)' => Coming(n)
  BY <1>1 DEF Coming
<1>3. /\ m[1] \in Account /\ m[1][1] \in Profile /\ m[1][1] \in offered
      /\ m[2] \in {"connected", "disconnected"}
  BY <1>1 DEF Coming, All, Base, Named, Event, Account
<1>4. ASSUME \A n \in Event : Owner(n[1][1]) = u => ~ Coming(n)',
             NEW p \in ProfilesOf(u)
      PROVE  Active(p) = {account'[u]} \ {NoAccount}
  <2>1. CASE Owner(m[1][1]) # u
    <3>1. \A n \in Event : Owner(n[1][1]) = u => ~ Coming(n)
      BY <1>1, <1>4, <2>1 DEF Coming
    <3>2. account'[u] = account[u]
      BY <2>1 DEF Deliver, Apply, HandlerDies, All, Base, Owned, TypeOK
    <3> QED
      BY <3>1, <3>2 DEF NewsIsTrue
  <2>2. CASE Owner(m[1][1]) = u
    <3>1. m[1][1] \in ProfilesOf(u)
      BY <1>3, <2>2 DEF ProfilesOf, Owner
    <3>2. p = m[1][1]
      BY <1>4, <3>1, OneProfile
    <3>3. CASE Deliver(m)
      <4>1. profile[u] = m[1][1] /\ u \in users
        BY <1>3, <2>2, OfferedIsFound DEF All, Base
      <4>2. event' = [event EXCEPT ![m] = "matched"]
        BY <3>3, <4>1 DEF Deliver
      <4>3. Coming(m)'
        BY <4>2 DEF Coming, All, Base, TypeOK
      <4> QED
        BY <1>4, <2>2, <4>3
    <3>4. CASE Apply(m)
      <4>1. match[m] = u
        BY <2>2, <3>4 DEF Apply, All, Base, Owned
      <4>2. account'[u] = AccountAfter(m)
        BY <3>4, <4>1 DEF Apply, All, Base, TypeOK
      <4>3. CASE m[2] = "connected"
        <5>1. m[1] \in Active(p)
          BY <1>1, <1>3, <2>2, <3>2, <4>3 DEF NewsIsTrue, Active
        <5>2. Active(p) = {m[1]}
          BY <1>3, <3>2, <5>1 DEF All, Linked
        <5> QED
          BY <1>3, <4>2, <4>3, <5>2, ConstantsAssumption DEF AccountAfter
      <4>4. CASE m[2] = "disconnected"
        BY <1>1, <2>2, <3>2, <4>2, <4>4 DEF NewsIsTrue, AccountAfter
      <4> QED
        BY <1>3, <4>3, <4>4
    <3>5. CASE HandlerDies(m)
      BY <2>2, <3>5 DEF HandlerDies
    <3> QED
      BY <3>3, <3>4, <3>5
  <2> QED
    BY <2>1, <2>2
<1>5. \A v \in Visit : (visit'[v].user = u /\ visit'[v].step = "write") =>
         zaccount'[visit'[v].account] = "active"
  BY <1>1 DEF NewsIsTrue
<1>6. \A n \in Event : (Owner(n[1][1]) = u /\ Coming(n)') =>
         /\ n[2] = "connected" => zaccount'[n[1]] = "active"
         /\ n[2] = "disconnected" => Active(n[1][1])' = {}
  BY <1>1, <1>2 DEF NewsIsTrue, Event, Account
<1>7. \A q \in Profile : Owner(q)' = Owner(q)
  BY <1>1 DEF Owner
<1>8. (\A n \in Event : Owner(n[1][1]) = u => ~ Coming(n)') =>
         \A p \in ProfilesOf(u)' : Active(p)' = {account'[u]} \ {NoAccount}
  BY <1>1, <1>4 DEF ProfilesOf
<1>9. \A n \in Event : n[1][1] \in Profile
  BY DEF Event, Account
<1> QED
  BY <1>5, <1>6, <1>7, <1>8, <1>9 DEF NewsIsTrue

LEMMA NewsStep ==
  ASSUME All, [Next]_vars, NEW u \in User, u \notin doubtful',
         Recorded(u), NewsIsTrue(u)
  PROVE  NewsIsTrue(u)'
<1> USE DEF rowVars, zernioVars, eventVars
<1>1. CASE \E a \in Account : Connect(a) \/ Disconnect(a)
  BY <1>1, NewsZernio
<1>2. CASE \E v \in Visit : \/ \E p \in Profile : VisitCallback(v, p)
                            \/ FetchAccounts(v) \/ WriteCallback(v)
  BY <1>2, NewsVisits
<1>3. CASE \E n \in Event : Deliver(n) \/ Apply(n) \/ HandlerDies(n)
  BY <1>3, NewsEvents
<1>4. CASE UNCHANGED <<zaccount, event, visit, account>>
  BY <1>4, NewsRequests
<1> QED
  BY <1>1, <1>2, <1>3, <1>4 DEF Next, vars, Register, Request,
     SignUpWithGoogle, EnsureStep, Read, PostProfile, PostForbidden,
     RecoverProfileId, Save, GetConnectUrl, ZernioDown

-----------------------------------------------------------------------------
(* The theorems about users that are not in doubt.                         *)

Certain == \A u \in User \ doubtful : Recorded(u) /\ NewsIsTrue(u)

LEMMA CertainInit == Init => Known /\ Linked /\ Certain
<1> SUFFICES ASSUME Init PROVE Known /\ Linked /\ Certain
  OBVIOUS
<1>1. Known
  BY DEF Init, Known, Asleep, Busy
<1>2. Linked
  BY DEF Init, Linked, Active
<1>3. ASSUME NEW u \in User PROVE Recorded(u) /\ NewsIsTrue(u)
  <2>1. Creating(u) = {} /\ ProfilesOf(u) = {}
    BY <1>3, ConstantsAssumption
    DEF Init, Creating, ProfilesOf, Asleep, NoName
  <2> QED
    BY <1>3, <2>1 DEF Init, Recorded, NewsIsTrue, Coming, Away
<1> QED
  BY <1>1, <1>2, <1>3 DEF Certain

LEMMA Certainty == Spec => [](All /\ Certain)
<1>1. Init => All /\ Certain
  BY BaseInit, CertainInit DEF All
<1>2. All /\ Certain /\ [Next]_vars => All' /\ Certain'
  <2> SUFFICES ASSUME All, Certain, [Next]_vars PROVE All' /\ Certain'
    OBVIOUS
  <2>1. All'
    BY TypeStep, NamedStep, OwnedStep, KnownStep, LinkedStep DEF All, Base
  <2>2. ASSUME NEW u \in User \ doubtful'
        PROVE  (Recorded(u) /\ NewsIsTrue(u))'
    <3>1. u \in User /\ u \notin doubtful
      BY <2>2, DoubtStays DEF All, Base
    <3>2. Recorded(u) /\ NewsIsTrue(u)
      BY <3>1 DEF Certain
    <3>3. Recorded(u)'
      BY <2>2, <3>2, RecordedStep DEF All, Base
    <3>4. NewsIsTrue(u)'
      BY <2>2, <3>2, NewsStep
    <3> QED
      BY <3>3, <3>4
  <2> QED
    BY <2>1, <2>2 DEF Certain
<1> QED
  BY <1>1, <1>2, PTL DEF Spec

\* Unless two requests crossed or an answer or update was lost, a user has one
\* profile, and the row has it as soon as nobody is making it.
THEOREM ProfilesAreRecorded == Spec => []ProfileIsRecorded
<1>1. All /\ Certain => ProfileIsRecorded
  <2> SUFFICES ASSUME All, Certain, NEW u \in User \ doubtful
               PROVE  /\ \A p, q \in ProfilesOf(u) : p = q
                      /\ Creating(u) = {} =>
                           \A p \in ProfilesOf(u) : profile[u] = p
    BY DEF ProfileIsRecorded
  <2>1. Recorded(u)
    BY DEF Certain
  <2>2. \A p, q \in ProfilesOf(u) : p = q
    BY <2>1, OneProfile
  <2> QED
    BY <2>1, <2>2 DEF Recorded
<1> QED
  BY Certainty, <1>1, PTL

\* Unless a change overtook the news of an earlier one, or a handler died, the
\* row has Zernio's account once the callbacks and the webhooks are through.
THEOREM LinksAgree == Spec => []LinkAgrees
<1>1. All /\ Certain => LinkAgrees
  <2> SUFFICES ASSUME All, Certain, NEW u \in User \ doubtful, Quiet(u)
               PROVE  /\ linked[u] <=> account[u] # NoAccount
                      /\ \A p \in ProfilesOf(u) :
                           Active(p) = {account[u]} \ {NoAccount}
    BY DEF LinkAgrees
  <2>1. NewsIsTrue(u)
    BY DEF Certain
  <2>2. \A n \in Event : Owner(n[1][1]) = u => ~ Coming(n)
    BY DEF Quiet, Coming
  <2> QED
    BY <2>1, <2>2 DEF NewsIsTrue, All, Linked
<1> QED
  BY Certainty, <1>1, PTL

=============================================================================
