------------------------------- MODULE Session -------------------------------
(***************************************************************************)
(* Signing in, registering and signing out, and the screens they lead to.  *)
(*                                                                         *)
(* The window shows a navigation controller with the login screen.  Every  *)
(* login screen adds an auth-state listener, which is never removed and    *)
(* presents a home screen in a navigation controller of its own, over the  *)
(* one it finds; signing out pushes a further login screen there.  Requests *)
(* are answered on a queue of the auth client, which posts a notification  *)
(* of the new currentUser to the main queue.  A listener is called when it *)
(* is new, and when the current user is not the one it was told of last.   *)
(***************************************************************************)
EXTENDS Integers, Sequences

CONSTANTS
    Users,        \* accounts by uid
    None,         \* nobody is signed in
    Unheard,      \* a listener that has not been called yet
    MaxRequests,  \* bound: sign-ins and registrations on their way
    MaxNavs       \* bound: navigation controllers over one another

ASSUME SessionAssumption ==
    /\ None \notin Users /\ Unheard \notin Users \cup {None}
    /\ MaxRequests \in Nat /\ MaxNavs \in Nat \ {0}

VARIABLES
    accounts,     \* server: accounts that exist
    currentUser,  \* Auth.auth().currentUser, kept in the keychain
    told,         \* per login screen, oldest first: the user its listener was told of last
    requests,     \* signIn and createUser calls not answered
    navs,         \* the navigation controllers, each a sequence of screens
    alert,        \* an alert is up
    overlapped,   \* history: another account became current behind a home screen
    expired,      \* history: the session of a home screen ended by force
    missed        \* history: why the newest listener, last called, presented nothing

history == <<overlapped, expired, missed>>
vars == <<accounts, currentUser, told, requests, navs, alert, history>>

-----------------------------------------------------------------------------
\* A screen, with the user it took from currentUser when it was made.
Login == [kind |-> "login", user |-> None]
Register == [kind |-> "register", user |-> None]
Home(u) == [kind |-> "home", user |-> u]
Detail(u) == [kind |-> "detail", user |-> u]

TopNav == navs[Len(navs)]
Top == TopNav[Len(TopNav)]
Touchable(kind) == ~alert /\ Top.kind = kind

Push(s) == navs' = [navs EXCEPT ![Len(navs)] = Append(@, s)]
Pop == navs' = [navs EXCEPT ![Len(navs)] = SubSeq(@, 1, Len(@) - 1)]

Without(q, i) == SubSeq(q, 1, i - 1) \o SubSeq(q, i + 1, Len(q))

Init ==
    /\ accounts \in SUBSET Users
    /\ currentUser \in accounts \cup {None}
    /\ told = <<Unheard>>
    /\ requests = << >>
    /\ navs = << <<Login>> >>
    /\ alert = FALSE
    /\ overlapped = FALSE
    /\ expired = FALSE
    /\ missed = "no"

\* Mutant: only the listener of the first login screen is left.
CanPresentFromRoot == ~alert /\ Len(navs) = 1 /\ Top.kind \in {"login", "register"}

\* present() of a login screen: refused by a controller that presents already,
\* be it an alert or the next navigation controller.
CanPresent == ~alert /\ Top.kind \in {"login", "register"}

-----------------------------------------------------------------------------
(* Touches.                                                                *)

\* Both buttons stay enabled while a request is on its way.
Request(kind, from, u) ==
    /\ Touchable(from)
    /\ Len(requests) < MaxRequests
    /\ requests' = Append(requests, [kind |-> kind, user |-> u, nav |-> Len(navs)])
    /\ UNCHANGED <<accounts, currentUser, told, navs, alert, history>>

ActionLogin(u) == Request("signIn", "login", u)
ActionRegisterUser(u) == Request("createUser", "register", u)

Navigate(from) ==
    /\ Touchable(from)
    /\ UNCHANGED <<accounts, currentUser, told, requests, alert, history>>

ActionRegister == Navigate("login") /\ Push(Register)
ActionPopRegister == Navigate("register") /\ Pop
ActionConfigUser == Navigate("home") /\ currentUser # None /\ Push(Detail(currentUser))
ActionBackButton == Navigate("detail") /\ Pop

\* "Ok"
DismissAlert ==
    /\ alert
    /\ alert' = FALSE
    /\ UNCHANGED <<accounts, currentUser, told, requests, navs, history>>

\* Mutants: back to the first screen, or the login screen in its place.
LeaveByPopping == navs' = [navs EXCEPT ![Len(navs)] = SubSeq(@, 1, 1)]
LeaveByReplacing == navs' = [navs EXCEPT ![Len(navs)] = <<Login>>]

\* actionSairConta goes on to a new login screen, over all the others.
Leave == Push(Login)

\* viewDidLoad of a login screen adds a listener, whose first call is on its way.
AddStateListener == told' = Append(told, Unheard)

ActionSairConta ==
    /\ Touchable("detail")
    /\ Len(navs) < MaxNavs
    /\ \/ /\ currentUser' = None
          /\ Leave
          /\ AddStateListener
          /\ overlapped' = FALSE /\ expired' = FALSE
          /\ UNCHANGED alert
       \/ \* signOut throws
          /\ alert' = TRUE
          /\ UNCHANGED <<currentUser, told, navs, overlapped, expired>>
    /\ UNCHANGED <<accounts, requests, missed>>

-----------------------------------------------------------------------------
(* Answers.                                                                *)

\* The request succeeds: a new account for createUser, and either way its user
\* is the current one from now on.
Accepted(i) ==
    /\ i \in DOMAIN requests
    /\ LET u == requests[i].user IN
       /\ (requests[i].kind = "signIn") <=> (u \in accounts)
       /\ accounts' = accounts \cup {u}
       /\ currentUser' = u
       /\ overlapped' = (overlapped \/ currentUser \notin {u, None})
    /\ requests' = Without(requests, i)
    /\ UNCHANGED <<told, navs, alert, expired, missed>>

\* The request fails.  The alert of a sign-in is presented by its login screen;
\* that of a registration never, alert being nil.
Rejected(i) ==
    /\ i \in DOMAIN requests
    /\ requests' = Without(requests, i)
    /\ \/ /\ requests[i].kind = "signIn" /\ requests[i].nav = Len(navs) /\ CanPresent
          /\ alert' = TRUE
       \/ /\ ~(requests[i].kind = "signIn" /\ requests[i].nav = Len(navs)
               /\ Touchable("login"))
          /\ UNCHANGED alert
    /\ UNCHANGED <<accounts, currentUser, told, navs, history>>

\* The main queue runs the notification of a change, and behind it the first call
\* of a new listener: those told of another user, or of none yet, are called,
\* oldest first.  The older login screens all present already; the newest, while
\* it is covered, may or may not be let present.
AuthStateChanged ==
    /\ \E n \in DOMAIN told : told[n] # currentUser
    /\ told' = [n \in DOMAIN told |-> currentUser]
    /\ \/ /\ currentUser # None /\ CanPresent
          /\ navs' = Append(navs, <<Home(currentUser)>>)
          /\ missed' = "no"
       \/ /\ currentUser = None
          /\ missed' = "no"
          /\ UNCHANGED navs
       \/ /\ currentUser # None /\ ~(CanPresent /\ Top.kind = "login")
          /\ missed' = IF alert THEN "alert"
                       ELSE IF Top.kind = "register" THEN "covered" ELSE "presenting"
          /\ UNCHANGED navs
    /\ UNCHANGED <<accounts, currentUser, requests, alert, overlapped, expired>>

\* The token is refused for good: signOutByForceWithUserID.
ForcedSignOut ==
    /\ currentUser # None
    /\ currentUser' = None
    /\ expired' = TRUE
    /\ UNCHANGED <<accounts, told, requests, navs, alert, overlapped, missed>>

\* The process ends and is started again; a createUser on its way may have
\* made its account.
Relaunch ==
    /\ \E S \in SUBSET {requests[i].user : i \in
                           {j \in DOMAIN requests : requests[j].kind = "createUser"}} :
         accounts' = accounts \cup S
    /\ told' = <<Unheard>>
    /\ requests' = << >>
    /\ navs' = << <<Login>> >>
    /\ alert' = FALSE
    /\ overlapped' = FALSE /\ expired' = FALSE /\ missed' = "no"
    /\ UNCHANGED currentUser

\* The profile screen asks for document(""), which stops the process.
OpenProfileOfNobody ==
    /\ Touchable("home")
    /\ currentUser = None
    /\ Relaunch

Next ==
    \/ \E u \in Users : ActionLogin(u)
    \/ \E u \in Users : ActionRegisterUser(u)
    \/ ActionRegister
    \/ ActionPopRegister
    \/ ActionConfigUser
    \/ ActionBackButton
    \/ DismissAlert
    \/ ActionSairConta
    \/ \E i \in 1 .. MaxRequests : Accepted(i)
    \/ \E i \in 1 .. MaxRequests : Rejected(i)
    \/ AuthStateChanged
    \/ ForcedSignOut
    \/ Relaunch
    \/ OpenProfileOfNobody

Spec == Init /\ [][Next]_vars

\* The main queue runs the notification; nothing is assumed of anybody else.
FairSpec == Spec /\ WF_vars(AuthStateChanged)

-----------------------------------------------------------------------------
(* Properties.                                                             *)

\* The screens a navigation controller may hold, bottom first: the window's own
\* one, and those a login screen presents.
RootNavs == {<<Login>>, <<Login, Register>>}
HomeNavs ==
    {<<Home(u)>> : u \in Users} \cup
    {<<Home(u), Detail(v)>> : u, v \in Users} \cup
    {<<Home(u), Detail(v), Login>> : u, v \in Users} \cup
    {<<Home(u), Detail(v), Login, Register>> : u, v \in Users}

(* Every variable has its type; the window's own controller holds the login *)
(* screen, every other one starts with a home screen.                       *)
TypeOK ==
    /\ accounts \subseteq Users
    /\ currentUser \in accounts \cup {None} 
    /\ told \in Seq(Users \cup {None, Unheard}) /\ told # << >>
    /\ requests \in Seq([kind : {"signIn", "createUser"}, user : Users, nav : 1 .. MaxNavs])
    /\ navs \in Seq(RootNavs \cup HomeNavs) /\ navs # << >>
    /\ \A n \in 1 .. Len(navs) : navs[n] \in RootNavs <=> n = 1
    /\ {alert, overlapped, expired} \subseteq BOOLEAN
    /\ missed \in {"no", "alert", "covered", "presenting"}

(* What is on screen is the current user's: a home or profile screen was    *)
(* made for the current user, unless a second sign-in to another account    *)
(* was accepted behind it or the session was ended by force; and nobody is  *)
(* signed in behind one only if the session was ended by force, which is    *)
(* when the profile and chat screens would ask for document("").  The       *)
(* listeners pile up, the home screens do not: however many of them hear of *)
(* a sign-in, a further home screen appears only over a login screen.       *)
ScreensOfSession ==
    /\ (Top.kind \in {"home", "detail"} /\ Top.user # currentUser) =>
           expired \/ (overlapped /\ currentUser # None)
    /\ \A n \in 1 .. Len(navs) - 1 :
           navs[n][Len(navs[n])].kind \in {"login", "register"}

(* Whoever signs in leaves the login screen, unless the alert of an earlier *)
(* attempt or the registration screen was in the way of present() when its  *)
(* listener was told of them: it is not told again.  A sign-out that the    *)
(* older listeners never heard of, the same user being back, is no          *)
(* exception: the login screen it pushed has a listener yet to be called.   *)
SignedInReachesHome ==
    currentUser # None ~>
        \/ currentUser = None
        \/ Top.kind \in {"home", "detail"}
        \/ told[Len(told)] = currentUser /\ missed \in {"alert", "covered"}
=============================================================================
