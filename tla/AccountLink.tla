------------------------------ MODULE AccountLink ------------------------------
(***************************************************************************)
(* The Zernio columns of a user's row: the profile that ensureProfile      *)
(* makes for a user, and the TikTok account that is linked below it.       *)
(*                                                                         *)
(* The row is written by requests that read it first and wait for Zernio   *)
(* in between: registration, POST profiles and the link URL make the       *)
(* profile; the TikTok callback and the account webhooks, in any order and *)
(* at any time, link and unlink the account.                               *)
(***************************************************************************)
EXTENDS Naturals, FiniteSets

CONSTANTS
  User,
  Profile,       \* the ids Zernio may give to profiles
  MaxAccounts,   \* how often an account is connected below one profile
  Ensure,        \* requests that need a profile
  Visit,         \* requests of the TikTok callback
  PlanLimit,     \* profiles that the Zernio plan allows
  Nameless,      \* users without a displayName
  Faults,        \* what goes wrong in this instance, see FaultKind
  NoUser, NoProfile, NoAccount

FaultKind == {"down",      \* Zernio does not answer, or with an error
              "lost",      \* Zernio makes a profile and its answer is lost
              "dberror",   \* the update of the user's row fails
              "die"}       \* a webhook handler stops after it logged the event

Account == Profile \X (1 .. MaxAccounts)

ASSUME ConstantsAssumption ==
  /\ IsFiniteSet(Profile)
  /\ MaxAccounts \in Nat
  /\ PlanLimit \in Nat /\ PlanLimit <= Cardinality(Profile)
  /\ Nameless \subseteq User
  /\ Faults \subseteq FaultKind
  /\ NoUser \notin User /\ NoProfile \notin Profile /\ NoAccount \notin Account

\* A profile's name: the display name or the email address, and the user's id.
Name == User \X {"display", "email"}
NoName == <<NoUser, "none">>

Purpose == {"register", "profiles", "link"}
Event == Account \X {"connected", "disconnected"}

VARIABLES
  users,       \* the rows that exist
  profile,     \* User.zernioProfileId
  linked,      \* User.tiktokLinked
  account,     \* User.zernioTiktokAccountId
  ensure,      \* where a request for a profile is, and what it holds
  visit,       \* where a request of the callback is, and what it holds
  zname,       \* Zernio's profiles, by name
  zaccount,    \* Zernio's accounts
  offered,     \* profiles a connect URL was handed out for
  event,       \* account webhooks: sent by Zernio, then handled
  match,       \* the user the handler found for an event
  doubtful     \* history: users whose requests or events crossed or were lost

rowVars == <<users, profile, linked, account>>
zernioVars == <<zname, zaccount>>
eventVars == <<event, match>>
vars == <<rowVars, ensure, visit, zernioVars, offered, eventVars, doubtful>>

\* A request begins without memory, and ends so.
Asleep(s) == [step |-> s, user |-> NoUser, why |-> "profiles",
              got |-> NoProfile]
Away(s) == [step |-> s, profile |-> NoProfile, user |-> NoUser,
            account |-> NoAccount]

EnsureState ==
  {Asleep("idle"), Asleep("over")}
  \cup [step : {"read", "post", "recover"}, user : User, why : Purpose,
        got : {NoProfile}]
  \cup [step : {"save", "connect"}, user : User, why : Purpose, got : Profile]

VisitState ==
  {Away("idle"), Away("over")}
  \cup [step : {"fetch"}, profile : Profile, user : User,
        account : {NoAccount}]
  \cup [step : {"write"}, profile : Profile, user : User, account : Account]

TypeOK ==
  /\ users \in SUBSET User
  /\ profile \in [User -> Profile \cup {NoProfile}]
  /\ linked \in [User -> BOOLEAN]
  /\ account \in [User -> Account \cup {NoAccount}]
  /\ ensure \in [Ensure -> EnsureState]
  /\ visit \in [Visit -> VisitState]
  /\ zname \in [Profile -> Name \cup {NoName}]
  /\ zaccount \in [Account -> {"none", "active", "inactive"}]
  /\ offered \in SUBSET Profile
  /\ event \in [Event -> {"unsent", "sent", "matched", "done"}]
  /\ match \in [Event -> User \cup {NoUser}]
  /\ \A n \in Event : event[n] = "matched" => match[n] \in User
  /\ doubtful \in SUBSET User

Init ==
  /\ users = {}
  /\ profile = [u \in User |-> NoProfile]
  /\ linked = [u \in User |-> FALSE]
  /\ account = [u \in User |-> NoAccount]
  /\ ensure = [e \in Ensure |-> Asleep("idle")]
  /\ visit = [v \in Visit |-> Away("idle")]
  /\ zname = [p \in Profile |-> NoName]
  /\ zaccount = [a \in Account |-> "none"]
  /\ offered = {}
  /\ event = [n \in Event |-> "unsent"]
  /\ match = [n \in Event |-> NoUser]
  /\ doubtful = {}

-----------------------------------------------------------------------------
(* Users come, and ask for a profile.                                      *)

Becomes(e, s) == ensure' = [ensure EXCEPT ![e] = s]
Goto(e, next) == ensure' = [ensure EXCEPT ![e].step = next]
Ends(e) == Becomes(e, Asleep("over"))

Ask(e, u, why) ==
  /\ ensure[e] = Asleep("idle")
  /\ Becomes(e, [step |-> "read", user |-> u, why |-> why, got |-> NoProfile])

\* register: the profile is made in the background, and its failure only logged.
Register(u, e) ==
  /\ u \notin users
  /\ users' = users \cup {u}
  /\ Ask(e, u, "register")
  /\ UNCHANGED <<profile, linked, account, visit, zernioVars, offered,
                 eventVars, doubtful>>

\* validateGoogleUser: a new user without a profile.  An identity that exists,
\* or is added to the row with the same email, leaves these columns alone.
SignUpWithGoogle(u) ==
  /\ u \notin users
  /\ users' = users \cup {u}
  /\ UNCHANGED <<profile, linked, account, ensure, visit, zernioVars, offered,
                 eventVars, doubtful>>

\* POST publisher/profiles and GET publisher/tiktok/link-url.
Request(e, u) ==
  /\ u \in users
  /\ \E why \in {"profiles", "link"} : Ask(e, u, why)
  /\ UNCHANGED <<rowVars, visit, zernioVars, offered, eventVars, doubtful>>

-----------------------------------------------------------------------------
(* ensureProfile.                                                          *)

For(e) == ensure[e].user

Creating(u) ==
  {e \in Ensure : For(e) = u /\ ensure[e].step \in {"post", "recover", "save"}}

\* Once the profile is known, generateConnectUrl asks for a URL.
Ready(e, p) ==
  IF ensure[e].why = "link"
    THEN Becomes(e, [ensure[e] EXCEPT !.step = "connect", !.got = p])
    ELSE Ends(e)

\* Variant: the profile of the row is not looked at.
HasProfile_Never(u) == FALSE

HasProfile(u) == profile[u] # NoProfile

Read(e) ==
  /\ ensure[e].step = "read"
  /\ IF HasProfile(For(e))
       THEN Ready(e, profile[For(e)]) /\ UNCHANGED doubtful
       ELSE /\ Goto(e, "post")
            /\ doubtful' = IF Creating(For(e)) = {} THEN doubtful
                           ELSE doubtful \cup {For(e)}
  /\ UNCHANGED <<rowVars, visit, zernioVars, offered, eventVars>>

\* POST profiles passes no display name.
NameOf(e) ==
  <<For(e), IF ensure[e].why = "profiles" \/ For(e) \in Nameless THEN "email"
            ELSE "display">>

Taken == {p \in Profile : zname[p] # NoName}

\* The profile is known and still to be saved.
Knows(e, p) == Becomes(e, [ensure[e] EXCEPT !.step = "save", !.got = p])

\* Zernio makes a profile; names need not differ.
PostProfile(e) ==
  /\ ensure[e].step = "post"
  /\ Cardinality(Taken) < PlanLimit
  /\ \E p \in Profile \ Taken :
       /\ zname' = [zname EXCEPT ![p] = NameOf(e)]
       /\ \/ Knows(e, p) /\ UNCHANGED doubtful
          \/ /\ "lost" \in Faults
             /\ Ends(e)
             /\ doubtful' = doubtful \cup {For(e)}
  /\ UNCHANGED <<rowVars, visit, zaccount, offered, eventVars>>

\* The plan's limit is answered with 403.
PostForbidden(e) ==
  /\ ensure[e].step = "post"
  /\ Cardinality(Taken) >= PlanLimit
  /\ Goto(e, "recover")
  /\ UNCHANGED <<rowVars, visit, zernioVars, offered, eventVars, doubtful>>

\* Variant: whatever profile there is.
Recoverable_Any(e) == Taken

Recoverable(e) == {p \in Profile : zname[p] = NameOf(e)}

\* recoverProfileId: a profile of the expected name, or a 400.
RecoverProfileId(e) ==
  /\ ensure[e].step = "recover"
  /\ \/ \E p \in Recoverable(e) : Knows(e, p)
     \/ Recoverable(e) = {} /\ Ends(e)
  /\ UNCHANGED <<rowVars, visit, zernioVars, offered, eventVars, doubtful>>

\* The row takes the profile, whatever it holds by now.
Save(e) ==
  /\ ensure[e].step = "save"
  /\ \/ /\ profile' = [profile EXCEPT ![For(e)] = ensure[e].got]
        /\ Ready(e, ensure[e].got)
        /\ UNCHANGED doubtful
     \/ /\ "dberror" \in Faults
        /\ Ends(e)
        /\ doubtful' = doubtful \cup {For(e)}
        /\ UNCHANGED profile
  /\ UNCHANGED <<users, linked, account, visit, zernioVars, offered, eventVars>>

GetConnectUrl(e) ==
  /\ ensure[e].step = "connect"
  /\ offered' = offered \cup {ensure[e].got}
  /\ Ends(e)
  /\ UNCHANGED <<rowVars, visit, zernioVars, eventVars, doubtful>>

\* An error other than the plan's limit is thrown to the caller.
ZernioDown(e) ==
  /\ "down" \in Faults
  /\ ensure[e].step \in {"post", "recover", "connect"}
  /\ Ends(e)
  /\ UNCHANGED <<rowVars, visit, zernioVars, offered, eventVars, doubtful>>

EnsureStep(e) ==
  \/ Read(e) \/ PostProfile(e) \/ PostForbidden(e) \/ RecoverProfileId(e)
  \/ Save(e) \/ GetConnectUrl(e) \/ ZernioDown(e)

-----------------------------------------------------------------------------
(* Zernio (external): a user connects or removes an account in its pages.  *)

Owner(p) == zname[p][1]

Active(p) == {a \in Account : a[1] = p /\ zaccount[a] = "active"}

\* News of the profile's accounts that has not reached the row yet.
UnderWay(p) ==
  \/ \E n \in Event : n[1][1] = p /\ event[n] \in {"sent", "matched"}
  \/ \E v \in Visit : visit[v].profile = p /\ visit[v].step = "write"

\* A change is announced; what overtakes earlier news is in doubt.
Announce(a, kind) ==
  /\ event' = [event EXCEPT ![<<a, kind>>] = "sent"]
  /\ doubtful' = IF UnderWay(a[1]) THEN doubtful \cup {Owner(a[1])}
                 ELSE doubtful

\* One TikTok account of a profile at a time.
Connect(a) ==
  /\ a[1] \in offered
  /\ zaccount[a] = "none" /\ Active(a[1]) = {}
  /\ zaccount' = [zaccount EXCEPT ![a] = "active"]
  /\ Announce(a, "connected")
  /\ UNCHANGED <<rowVars, ensure, visit, zname, offered, match>>

Disconnect(a) ==
  /\ zaccount[a] = "active"
  /\ zaccount' = [zaccount EXCEPT ![a] = "inactive"]
  /\ Announce(a, "disconnected")
  /\ UNCHANGED <<rowVars, ensure, visit, zname, offered, match>>

-----------------------------------------------------------------------------
(* handleTikTokCallback: find the user, ask Zernio, write the row.         *)

\* The browser comes back from Zernio, or to the same URL again later.
VisitCallback(v, p) ==
  /\ visit[v] = Away("idle")
  /\ p \in offered
  /\ \/ \E u \in users :
          /\ profile[u] = p
          /\ visit' = [visit EXCEPT ![v] = [step |-> "fetch", profile |-> p,
                                           user |-> u, account |-> NoAccount]]
     \/ /\ \A u \in users : profile[u] # p
        /\ visit' = [visit EXCEPT ![v] = Away("over")]
  /\ UNCHANGED <<rowVars, ensure, zernioVars, offered, eventVars, doubtful>>

\* Variant: an account that was removed is taken too.
Usable_Inactive(p) == {a \in Account : a[1] = p /\ zaccount[a] # "none"}

Usable(p) == Active(p)

\* GET accounts; an error, or no active account, ends in the error page.
FetchAccounts(v) ==
  /\ visit[v].step = "fetch"
  /\ \/ \E a \in Usable(visit[v].profile) :
          visit' = [visit EXCEPT ![v].step = "write", ![v].account = a]
     \/ /\ Usable(visit[v].profile) = {} \/ "down" \in Faults
        /\ visit' = [visit EXCEPT ![v] = Away("over")]
  /\ UNCHANGED <<rowVars, ensure, zernioVars, offered, eventVars, doubtful>>

WriteCallback(v) ==
  /\ visit[v].step = "write"
  /\ \/ /\ linked' = [linked EXCEPT ![visit[v].user] = TRUE]
        /\ account' = [account EXCEPT ![visit[v].user] = visit[v].account]
     \/ "dberror" \in Faults /\ UNCHANGED <<linked, account>>
  /\ visit' = [visit EXCEPT ![v] = Away("over")]
  /\ UNCHANGED <<users, profile, ensure, zernioVars, offered, eventVars,
                 doubtful>>

-----------------------------------------------------------------------------
(* handleWebhook and handleAccountEvent.                                   *)

\* The event id is inserted, so a repetition of the delivery ends at once; and
\* the user is looked up: an event of a profile that no row has is dropped.
Deliver(n) ==
  /\ event[n] = "sent"
  /\ \/ \E u \in users :
          /\ profile[u] = n[1][1]
          /\ match' = [match EXCEPT ![n] = u]
          /\ event' = [event EXCEPT ![n] = "matched"]
     \/ /\ \A u \in users : profile[u] # n[1][1]
        /\ event' = [event EXCEPT ![n] = "done"]
        /\ UNCHANGED match
  /\ UNCHANGED <<rowVars, ensure, visit, zernioVars, offered, doubtful>>

\* Variant: the event's profile id is stored.
AccountAfter_Profile(n) == IF n[2] = "connected" THEN n[1][1] ELSE NoAccount

\* Connected: the event's account, disconnected: none.
AccountAfter(n) == IF n[2] = "connected" THEN n[1] ELSE NoAccount

\* The row is written whatever account it holds; a failing update is an event
\* that was logged and never applied.
Apply(n) ==
  /\ event[n] = "matched"
  /\ linked' = [linked EXCEPT ![match[n]] = n[2] = "connected"]
  /\ account' = [account EXCEPT ![match[n]] = AccountAfter(n)]
  /\ event' = [event EXCEPT ![n] = "done"]
  /\ match' = [match EXCEPT ![n] = NoUser]
  /\ UNCHANGED <<users, profile, ensure, visit, zernioVars, offered, doubtful>>

HandlerDies(n) ==
  /\ "die" \in Faults
  /\ event[n] \in {"sent", "matched"}
  /\ event' = [event EXCEPT ![n] = "done"]
  /\ match' = [match EXCEPT ![n] = NoUser]
  /\ doubtful' = doubtful \cup {Owner(n[1][1])}
  /\ UNCHANGED <<rowVars, ensure, visit, zernioVars, offered>>

-----------------------------------------------------------------------------
Next ==
  \/ \E u \in User, e \in Ensure : Register(u, e) \/ Request(e, u)
  \/ \E u \in User : SignUpWithGoogle(u)
  \/ \E e \in Ensure : EnsureStep(e)
  \/ \E a \in Account : Connect(a) \/ Disconnect(a)
  \/ \E v \in Visit, p \in Profile : VisitCallback(v, p)
  \/ \E v \in Visit : FetchAccounts(v) \/ WriteCallback(v)
  \/ \E n \in Event : Deliver(n) \/ Apply(n) \/ HandlerDies(n)

Spec == Init /\ [][Next]_vars

-----------------------------------------------------------------------------
ProfilesOf(u) == {p \in Profile : zname[p][1] = u}

\* No request, callback or webhook, in any order and after any fault, gives a
\* user the profile or the account of another: not the recovery from the list
\* of all profiles either.
RowIsOwn ==
  \A u \in User :
    /\ profile[u] # NoProfile => Owner(profile[u]) = u
    /\ account[u] # NoAccount => Owner(account[u][1]) = u

\* One profile per user, and the row has it once nobody is making it: unless
\* two requests found the row without one at the same time, or the answer or
\* the update was lost after Zernio had made it.
ProfileIsRecorded ==
  \A u \in User \ doubtful :
    /\ \A p, q \in ProfilesOf(u) : p = q
    /\ Creating(u) = {} => \A p \in ProfilesOf(u) : profile[u] = p

\* News of the user's accounts that a handler still has to write.
Quiet(u) ==
  /\ \A n \in Event : Owner(n[1][1]) = u => event[n] \in {"unsent", "done"}
  /\ \A v \in Visit : visit[v].user = u => visit[v].step # "write"

\* Callback and webhooks together leave the row with the account that Zernio
\* has for the user, and with none if it has none: a callback visited again
\* after the account was removed, or one that fails, does not spoil it.  Only
\* changes that overtake the news of earlier ones may.
LinkAgrees ==
  \A u \in User \ doubtful : Quiet(u) =>
    /\ linked[u] <=> account[u] # NoAccount
    /\ \A p \in ProfilesOf(u) : Active(p) = {account[u]} \ {NoAccount}

=============================================================================
