---------------------------- MODULE SessionProofs ----------------------------
(***************************************************************************)
(* Theorems about the screens of a session, for any number of accounts, of *)
(* requests on their way and of navigation controllers over one another.   *)
(***************************************************************************)
EXTENDS Session, SequenceTheorems, TLAPS

USE SessionAssumption

Screens == {Login, Register} \cup {Home(u) : u \in Users} \cup {Detail(u) : u \in Users}
Requests == [kind : {"signIn", "createUser"}, user : Users, nav : 1 .. MaxNavs]

-----------------------------------------------------------------------------
(* The screens of one navigation controller.                               *)

(* Sequences of up to four screens are known by their elements.             *)
LEMMA Written ==
    ASSUME NEW S, NEW q \in Seq(S), NEW t \in Seq(S), Len(q) = Len(t), Len(t) \in {1, 2, 3, 4},
           q[1] = t[1], Len(t) > 1 => q[2] = t[2], Len(t) > 2 => q[3] = t[3],
           Len(t) > 3 => q[4] = t[4]
    PROVE  q = t
<1>1. \A i \in 1 .. Len(q) : q[i] = t[i]
  <2> TAKE i \in 1 .. Len(q)
  <2>1. i \in {1, 2, 3, 4} /\ i <= Len(t)
    OBVIOUS
  <2> QED
    BY <2>1
<1> QED
  BY <1>1, SeqEqual, Zenon

(* A screen pushed on a controller, and popped again.                       *)
LEMMA Pairs ==
    ASSUME NEW a \in Screens, NEW b \in Screens
    PROVE  Append(<<a>>, b) = <<a, b>> /\ SubSeq(<<a, b>>, 1, 1) = <<a>>
<1>1. Append(<<a>>, b) = <<a, b>>
  <2> DEFINE q == Append(<<a>>, b)
             t == <<a, b>>
  <2>1. q \in Seq(Screens) /\ t \in Seq(Screens) /\ Len(q) = 2 /\ Len(t) = 2
    OBVIOUS
  <2>2. q[1] = t[1] /\ q[2] = t[2]
    OBVIOUS
  <2> HIDE DEF q, t
  <2>3. q = t
    BY <2>1, <2>2, Written
  <2> QED
    BY <2>3 DEF q, t
<1>2. SubSeq(<<a, b>>, 1, 1) = <<a>>
  <2> DEFINE q == SubSeq(<<a, b>>, 1, 1)
             t == <<a>>
  <2>1. q \in Seq(Screens) /\ t \in Seq(Screens) /\ Len(q) = 1 /\ Len(t) = 1
    OBVIOUS
  <2>2. q[1] = t[1]
    OBVIOUS
  <2> HIDE DEF q, t
  <2>3. q = t
    BY <2>1, <2>2, Written
  <2> QED
    BY <2>3 DEF q, t
<1> QED
  BY <1>1, <1>2

(* The window's own controller: a registration screen comes and goes over   *)
(* the login screen.                                                       *)
LEMMA RootNav ==
    ASSUME NEW q \in RootNavs
    PROVE  /\ q \in Seq(Screens) /\ Len(q) \in {1, 2}
           /\ q[1] = Login
           /\ q[Len(q)].kind \in {"login", "register"}
           /\ q[Len(q)].kind = "login" =>
                /\ Append(q, Register) \in RootNavs
                /\ Append(q, Register)[Len(Append(q, Register))].kind = "register"
           /\ q[Len(q)].kind = "register" =>
                /\ SubSeq(q, 1, Len(q) - 1) \in RootNavs
                /\ SubSeq(q, 1, Len(q) - 1)[Len(SubSeq(q, 1, Len(q) - 1))].kind = "login"
<1>1. /\ Login \in Screens /\ Register \in Screens
      /\ Login.kind = "login" /\ Register.kind = "register"
  BY DEF Screens, Login, Register
<1>2. <<Login>> \in RootNavs /\ <<Login, Register>> \in RootNavs
  BY DEF RootNavs
<1>3. CASE q = <<Login>>
  <2>1. q \in Seq(Screens) /\ Len(q) = 1 /\ q[1] = Login
    BY <1>1, <1>3
  <2>2. Append(q, Register) = <<Login, Register>>
    BY <1>1, <1>3, Pairs
  <2>3. Append(q, Register)[Len(Append(q, Register))] = Register
    BY <2>2
  <2> QED
    BY <1>1, <1>2, <2>1, <2>2, <2>3
<1>4. CASE q = <<Login, Register>>
  <2>1. q \in Seq(Screens) /\ Len(q) = 2 /\ q[1] = Login /\ q[2] = Register
    BY <1>1, <1>4
  <2>2. SubSeq(q, 1, 1) = <<Login>>
    BY <1>1, <1>4, Pairs
  <2>3. SubSeq(q, 1, Len(q) - 1) = <<Login>>
    BY <2>1, <2>2
  <2>4. SubSeq(q, 1, Len(q) - 1)[Len(SubSeq(q, 1, Len(q) - 1))] = Login
    <3> DEFINE r == SubSeq(q, 1, Len(q) - 1)
    <3> SUFFICES r[Len(r)] = Login
      OBVIOUS
    <3>1. r = <<Login>>
      BY <2>3
    <3> HIDE DEF r
    <3> QED
      BY <3>1
  <2> QED
    BY <1>1, <1>2, <2>1, <2>3, <2>4
<1> QED
  BY <1>3, <1>4 DEF RootNavs

(* A controller presented by a login screen: home, profile, and over those  *)
(* the login screen of a sign-out, to which there is no way back but one of *)
(* its own registration screen.                                            *)
LEMMA HomeNav ==
    ASSUME NEW q \in HomeNavs
    PROVE  /\ q \in Seq(Screens) /\ Len(q) \in {1, 2, 3, 4}
           /\ \E u \in Users : q[1] = Home(u)
           /\ q[Len(q)].kind = "home" => \E u \in Users : q = <<Home(u)>>
           /\ q[Len(q)].kind = "detail" =>
                \E u \in Users, v \in Users : q = <<Home(u), Detail(v)>>
           /\ q[Len(q)].kind = "login" =>
                /\ Append(q, Register) \in HomeNavs
                /\ Append(q, Register)[Len(Append(q, Register))].kind = "register"
           /\ q[Len(q)].kind = "register" =>
                /\ SubSeq(q, 1, Len(q) - 1) \in HomeNavs
                /\ SubSeq(q, 1, Len(q) - 1)[Len(SubSeq(q, 1, Len(q) - 1))].kind = "login"
<1>1. /\ Login \in Screens /\ Register \in Screens
      /\ Login.kind = "login" /\ Register.kind = "register"
      /\ \A u \in Users : /\ Home(u) \in Screens /\ Detail(u) \in Screens
                          /\ Home(u).kind = "home" /\ Detail(u).kind = "detail"
  BY DEF Screens, Login, Register, Home, Detail
<1>2. \A u, v \in Users : /\ <<Home(u), Detail(v), Login>> \in HomeNavs
                         /\ <<Home(u), Detail(v), Login, Register>> \in HomeNavs
  BY DEF HomeNavs
<1>3. ASSUME NEW u \in Users, q = <<Home(u)>>
      PROVE  /\ q \in Seq(Screens) /\ Len(q) = 1
             /\ q[Len(q)].kind = "home" /\ q[1] = Home(u)
  BY <1>1, <1>3
<1>4. ASSUME NEW u \in Users, NEW v \in Users, q = <<Home(u), Detail(v)>>
      PROVE  /\ q \in Seq(Screens) /\ Len(q) = 2
             /\ q[Len(q)].kind = "detail" /\ q[1] = Home(u)
  BY <1>1, <1>4
<1>5. ASSUME NEW u \in Users, NEW v \in Users, q = <<Home(u), Detail(v), Login>>
      PROVE  /\ q \in Seq(Screens) /\ Len(q) = 3
             /\ q[Len(q)].kind = "login" /\ q[1] = Home(u)
             /\ Append(q, Register) \in HomeNavs
             /\ Append(q, Register)[Len(Append(q, Register))].kind = "register"
  <2>1. q \in Seq(Screens) /\ Len(q) = 3 /\ q[3] = Login /\ q[1] = Home(u)
    BY <1>1, <1>5
  <2>2. Append(q, Register) = <<Home(u), Detail(v), Login, Register>>
    <3> DEFINE a == Home(u)
               b == Detail(v)
    <3>1. a \in Screens /\ b \in Screens
      BY <1>1
    <3> HIDE DEF a, b
    <3>2. Append(<<a, b, Login>>, Register) = <<a, b, Login, Register>>
      <4> DEFINE p == Append(<<a, b, Login>>, Register)
                 t == <<a, b, Login, Register>>
      <4>1. p \in Seq(Screens) /\ t \in Seq(Screens) /\ Len(p) = 4 /\ Len(t) = 4
        BY <1>1, <3>1
      <4>2. p[1] = t[1] /\ p[2] = t[2] /\ p[3] = t[3] /\ p[4] = t[4]
        BY <1>1, <3>1
      <4> HIDE DEF p, t
      <4>3. p = t
        BY <4>1, <4>2, Written
      <4> QED
        BY <4>3 DEF p, t
    <3> QED
      BY <1>5, <3>2, Zenon DEF a, b
  <2>3. Append(q, Register)[Len(Append(q, Register))] = Register
    BY <2>2
  <2> QED
    BY <1>1, <1>2, <2>1, <2>2, <2>3
<1>6. ASSUME NEW u \in Users, NEW v \in Users, q = <<Home(u), Detail(v), Login, Register>>
      PROVE  /\ q \in Seq(Screens) /\ Len(q) = 4
             /\ q[Len(q)].kind = "register" /\ q[1] = Home(u)
             /\ SubSeq(q, 1, Len(q) - 1) \in HomeNavs
             /\ SubSeq(q, 1, Len(q) - 1)[Len(SubSeq(q, 1, Len(q) - 1))].kind = "login"
  <2>1. q \in Seq(Screens) /\ Len(q) = 4 /\ q[4] = Register /\ q[1] = Home(u)
    BY <1>1, <1>6
  <2>2. SubSeq(q, 1, 3) = <<Home(u), Detail(v), Login>>
    <3> DEFINE a == Home(u)
               b == Detail(v)
    <3>1. a \in Screens /\ b \in Screens
      BY <1>1
    <3> HIDE DEF a, b
    <3>2. SubSeq(<<a, b, Login, Register>>, 1, 3) = <<a, b, Login>>
      <4> DEFINE p == SubSeq(<<a, b, Login, Register>>, 1, 3)
                 t == <<a, b, Login>>
      <4>1. p \in Seq(Screens) /\ t \in Seq(Screens) /\ Len(p) = 3 /\ Len(t) = 3
        BY <1>1, <3>1
      <4>2. p[1] = t[1] /\ p[2] = t[2] /\ p[3] = t[3]
        BY <1>1, <3>1
      <4> HIDE DEF p, t
      <4>3. p = t
        BY <4>1, <4>2, Written
      <4> QED
        BY <4>3 DEF p, t
    <3> QED
      BY <1>6, <3>2, Zenon DEF a, b
  <2>3. SubSeq(q, 1, Len(q) - 1) = <<Home(u), Detail(v), Login>>
    BY <2>1, <2>2
  <2>4. SubSeq(q, 1, Len(q) - 1)[Len(SubSeq(q, 1, Len(q) - 1))] = Login
    <3> DEFINE r == SubSeq(q, 1, Len(q) - 1)
    <3> SUFFICES r[Len(r)] = Login
      OBVIOUS
    <3>1. r = <<Home(u), Detail(v), Login>>
      BY <2>3
    <3> HIDE DEF r
    <3> QED
      BY <3>1
  <2> QED
    BY <1>1, <1>2, <2>1, <2>3, <2>4
<1>7. \/ \E u \in Users : q = <<Home(u)>>
      \/ \E u, v \in Users : q = <<Home(u), Detail(v)>>
      \/ \E u, v \in Users : q = <<Home(u), Detail(v), Login>>
      \/ \E u, v \in Users : q = <<Home(u), Detail(v), Login, Register>>
  BY DEF HomeNavs
<1>8. CASE \E u \in Users : q = <<Home(u)>>
  BY <1>3, <1>8
<1>9. CASE \E u, v \in Users : q = <<Home(u), Detail(v)>>
  BY <1>4, <1>9
<1>10. CASE \E u, v \in Users : q = <<Home(u), Detail(v), Login>>
  <2>1. PICK u \in Users, v \in Users : q = <<Home(u), Detail(v), Login>>
    BY <1>10
  <2> QED
    BY <1>5, <2>1
<1>11. CASE \E u, v \in Users : q = <<Home(u), Detail(v), Login, Register>>
  <2>1. PICK u \in Users, v \in Users : q = <<Home(u), Detail(v), Login, Register>>
    BY <1>11
  <2> QED
    BY <1>6, <2>1
<1> QED
  BY <1>7, <1>8, <1>9, <1>10, <1>11

(* The two kinds of controllers are told apart by their first screen.       *)
LEMMA NavsApart == RootNavs \cap HomeNavs = {}
<1> SUFFICES ASSUME NEW q \in RootNavs, q \in HomeNavs PROVE FALSE
  OBVIOUS
<1>1. q[1] = Login /\ \E u \in Users : q[1] = Home(u)
  BY RootNav, HomeNav
<1> QED
  BY <1>1 DEF Login, Home

-----------------------------------------------------------------------------
(* The invariant.                                                          *)

\* A screen made for x may stand on top.
Fits(x) == x # currentUser => expired \/ (overlapped /\ currentUser # None)

\* While no login screen covers them, the home and profile screens of the top
\* controller fit the current user, the one the back button leads to included.
TopFits ==
    Top.kind \in {"home", "detail"} =>
        \A i \in 1 .. Len(TopNav) : Fits(TopNav[i].user)

\* Only a login screen, or one over it, is covered by another controller.
Covered ==
    \A n \in 1 .. Len(navs) - 1 : navs[n][Len(navs[n])].kind \in {"login", "register"}

\* Requests come from a controller that is counted: actionSairConta stops adding
\* login screens in time.
Bounded == Top.kind \in {"login", "register"} => Len(navs) <= MaxNavs

NavsOK ==
    /\ navs \in Seq(RootNavs \cup HomeNavs) /\ navs # << >>
    /\ \A n \in 1 .. Len(navs) : navs[n] \in RootNavs <=> n = 1
    /\ Covered /\ Bounded

RestOK ==
    /\ accounts \subseteq Users
    /\ currentUser \in accounts \cup {None}
    /\ told \in Seq(Users \cup {None, Unheard}) /\ told # << >>
    /\ requests \in Seq(Requests)
    /\ alert \in BOOLEAN /\ overlapped \in BOOLEAN /\ expired \in BOOLEAN
    /\ missed \in {"no", "alert", "covered", "presenting"}

SessionInv == NavsOK /\ RestOK /\ TopFits

-----------------------------------------------------------------------------
(* What the touches and the listeners do to the controllers.               *)

(* The top controller, whichever it is.                                     *)
LEMMA TopIs ==
    ASSUME NavsOK
    PROVE  /\ Len(navs) \in Nat /\ Len(navs) >= 1
           /\ Len(navs) = 1 => TopNav \in RootNavs
           /\ Len(navs) > 1 => TopNav \in HomeNavs
           /\ TopNav \in Seq(Screens)
           /\ Top.kind \in {"home", "detail"} => TopNav \in HomeNavs
<1>1. Len(navs) \in Nat /\ Len(navs) >= 1
  BY DEF NavsOK
<1>2. CASE Len(navs) = 1
  <2>1. TopNav \in RootNavs
    BY <1>2 DEF NavsOK, TopNav
  <2>2. TopNav \in Seq(Screens) /\ Top.kind \in {"login", "register"}
    BY <2>1, RootNav DEF Top
  <2> QED
    BY <1>1, <1>2, <2>1, <2>2
<1>3. CASE Len(navs) # 1
  <2>1. TopNav \in HomeNavs
    <3>1. TopNav \in RootNavs \cup HomeNavs
      BY <1>1 DEF NavsOK, TopNav
    <3>2. TopNav \notin RootNavs
      <4>1. Len(navs) \in 1 .. Len(navs)
        BY <1>1
      <4>2. navs[Len(navs)] \in RootNavs <=> Len(navs) = 1
        BY <4>1 DEF NavsOK
      <4> QED
        BY <1>3, <4>2 DEF TopNav
    <3> QED
      BY <3>1, <3>2
  <2>2. TopNav \in Seq(Screens)
    BY <2>1, HomeNav
  <2> QED
    BY <1>1, <1>3, <2>1, <2>2
<1> QED
  BY <1>2, <1>3

(* Another screen on top of the same controller.                           *)
LEMMA Replaced ==
    ASSUME NavsOK, NEW q,
           Len(navs) = 1 => q \in RootNavs,
           Len(navs) > 1 => q \in HomeNavs,
           q[Len(q)].kind \in {"login", "register"} => Len(navs) <= MaxNavs,
           navs' = [navs EXCEPT ![Len(navs)] = q]
    PROVE  NavsOK' /\ TopNav' = q /\ Top' = q[Len(q)]
<1>0. Len(navs) \in Nat /\ Len(navs) >= 1
  BY TopIs
<1>1. /\ Len(navs) \in Nat /\ Len(navs) >= 1
      /\ navs \in Seq(RootNavs \cup HomeNavs)
  BY <1>0 DEF NavsOK
<1>2. /\ q \in RootNavs \cup HomeNavs
      /\ q \in RootNavs <=> Len(navs) = 1
  <2>1. CASE Len(navs) = 1
    BY <2>1
  <2>2. CASE Len(navs) # 1
    <3>1. q \in HomeNavs
      <4>1. Len(navs) > 1
        <5> DEFINE L == Len(navs)
        <5>1. L \in Nat /\ L >= 1 /\ L # 1
          BY <1>0, <2>2
        <5> HIDE DEF L
        <5>2. L > 1
          BY <5>1
        <5> QED
          BY <5>2 DEF L
      <4> QED
        BY <4>1
    <3> QED
      BY <2>2, <3>1, NavsApart
  <2> QED
    BY <2>1, <2>2
<1>3. /\ navs' \in Seq(RootNavs \cup HomeNavs)
      /\ Len(navs') = Len(navs)
      /\ navs'[Len(navs)] = q
      /\ \A n \in 1 .. Len(navs) : n # Len(navs) => navs'[n] = navs[n]
      /\ navs' # << >>
  <2> DEFINE S == RootNavs \cup HomeNavs
             L == Len(navs)
  <2>1. L \in 1 .. L /\ L \in Nat /\ navs \in Seq(S) /\ q \in S
    BY <1>1, <1>2
  <2> HIDE DEF S
  <2>2. /\ navs' \in Seq(S)
        /\ Len(navs') = L
        /\ navs'[L] = q
        /\ \A n \in 1 .. L : n # L => navs'[n] = navs[n]
    BY <2>1
  <2>3. navs' # << >>
    <3>1. L >= 1
      BY <1>0
    <3>2. Len(navs') # 0
      <4>1. Len(navs') = L /\ L \in Nat
        BY <2>1, <2>2
      <4> HIDE DEF L
      <4> QED
        BY <3>1, <4>1
    <3> QED
      BY <3>2
  <2> QED
    BY <2>2, <2>3 DEF S
<1>4. TopNav' = q /\ Top' = q[Len(q)]
  BY <1>3 DEF TopNav, Top
<1>5. \A n \in 1 .. Len(navs') : navs'[n] \in RootNavs <=> n = 1
  <2> TAKE n \in 1 .. Len(navs')
  <2>1. CASE n = Len(navs)
    BY <1>2, <1>3, <2>1
  <2>2. CASE n # Len(navs)
    BY <1>3, <2>2 DEF NavsOK
  <2> QED
    BY <2>1, <2>2
<1>6. Covered'
  <2>1. \A n \in 1 .. Len(navs) - 1 :
          n \in 1 .. Len(navs) /\ n # Len(navs) /\ navs'[n] = navs[n]
    <3> TAKE n \in 1 .. Len(navs) - 1
    <3>1. n \in 1 .. Len(navs) /\ n # Len(navs)
      BY <1>1
    <3> QED
      BY <1>3, <3>1
  <2> QED
    BY <1>1, <1>3, <2>1 DEF NavsOK, Covered
<1>7. Bounded'
  BY <1>3, <1>4 DEF Bounded
<1> QED
  BY <1>3, <1>4, <1>5, <1>6, <1>7 DEF NavsOK

(* A home screen presented over a login screen.                            *)
LEMMA Presented ==
    ASSUME NavsOK, Top.kind \in {"login", "register"}, NEW u \in Users,
           navs' = Append(navs, <<Home(u)>>)
    PROVE  NavsOK' /\ TopNav' = <<Home(u)>> /\ Top' = Home(u)
<1>1. /\ Len(navs) \in Nat /\ Len(navs) >= 1
      /\ navs \in Seq(RootNavs \cup HomeNavs)
  BY TopIs DEF NavsOK
<1>2. <<Home(u)>> \in HomeNavs
  <2>1. <<Home(u)>> \in {<<Home(x)>> : x \in Users}
    OBVIOUS
  <2> QED
    BY <2>1 DEF HomeNavs
<1>3. /\ navs' \in Seq(RootNavs \cup HomeNavs)
      /\ Len(navs') = Len(navs) + 1
      /\ navs'[Len(navs) + 1] = <<Home(u)>>
      /\ \A n \in 1 .. Len(navs) : navs'[n] = navs[n]
  BY <1>1, <1>2
<1>4. TopNav' = <<Home(u)>> /\ Top' = Home(u)
  BY <1>3 DEF TopNav, Top
<1>5. \A n \in 1 .. Len(navs') : navs'[n] \in RootNavs <=> n = 1
  <2> TAKE n \in 1 .. Len(navs')
  <2>1. CASE n = Len(navs) + 1
    BY <1>1, <1>2, <1>3, <2>1, NavsApart
  <2>2. CASE n # Len(navs) + 1
    <3>1. n \in 1 .. Len(navs)
      BY <1>1, <1>3, <2>2
    <3> QED
      BY <1>3, <3>1 DEF NavsOK
  <2> QED
    BY <2>1, <2>2
<1>6. Covered'
  <2> SUFFICES ASSUME NEW n \in 1 .. Len(navs)
               PROVE  navs[n][Len(navs[n])].kind \in {"login", "register"}
    BY <1>1, <1>3 DEF Covered
  <2>1. CASE n = Len(navs)
    BY <2>1 DEF Top, TopNav
  <2>2. CASE n # Len(navs)
    <3>1. n \in 1 .. Len(navs) - 1
      BY <1>1, <2>2
    <3> QED
      BY <3>1 DEF NavsOK, Covered
  <2> QED
    BY <2>1, <2>2
<1>7. Bounded'
  BY <1>4 DEF Bounded, Home
<1>8. navs' # << >>
  BY <1>1, <1>3
<1> QED
  BY <1>3, <1>4, <1>5, <1>6, <1>7, <1>8 DEF NavsOK

(* The screens of a process that has just been started.                    *)
LEMMA Started ==
    ASSUME navs' = << <<Login>> >>
    PROVE  NavsOK' /\ Top' = Login
<1>1. <<Login>> \in RootNavs
  BY DEF RootNavs
<1>2. navs' \in Seq(RootNavs \cup HomeNavs) /\ Len(navs') = 1 /\ navs'[1] = <<Login>>
  BY <1>1
<1>3. Top' = Login
  BY <1>2 DEF Top, TopNav
<1>4. Covered' /\ Bounded'
  BY <1>2 DEF Covered, Bounded
<1>5. navs' # << >> /\ \A n \in 1 .. Len(navs') : navs'[n] \in RootNavs <=> n = 1
  BY <1>1, <1>2
<1> QED
  BY <1>2, <1>3, <1>4, <1>5 DEF NavsOK

(* A request leaves the queue.                                              *)
LEMMA WithoutType ==
    ASSUME NEW q \in Seq(Requests), NEW i \in DOMAIN q
    PROVE  Without(q, i) \in Seq(Requests)
<1>1. i \in 1 .. Len(q) /\ Len(q) \in Nat
  OBVIOUS
<1>2. SubSeq(q, 1, i - 1) \in Seq(Requests) /\ SubSeq(q, i + 1, Len(q)) \in Seq(Requests)
  BY <1>1
<1> QED
  BY <1>2 DEF Without

-----------------------------------------------------------------------------
(* Every action keeps the invariant.                                       *)

(* A touch, an answer or a notification that leaves the screens, the        *)
(* current user and the history of overlaps alone.                         *)
LEMMA ScreensKept ==
    ASSUME SessionInv, UNCHANGED <<navs, currentUser, overlapped, expired>>
    PROVE  NavsOK' /\ TopFits'
<1>1. NavsOK'
  BY DEF SessionInv, NavsOK, Covered, Bounded, Top, TopNav
<1> QED
  BY <1>1 DEF SessionInv, TopFits, Fits, Top, TopNav

(* The sign-in and registration buttons: the answer comes back to the       *)
(* controller that asked.                                                  *)
LEMMA RequestStep ==
    ASSUME SessionInv, NEW u \in Users, ActionLogin(u) \/ ActionRegisterUser(u)
    PROVE  SessionInv'
<1>1. PICK kind \in {"signIn", "createUser"}, from \in {"login", "register"} :
        Request(kind, from, u)
  BY DEF ActionLogin, ActionRegisterUser
<1>2. Len(navs) \in 1 .. MaxNavs
  <2>1. Len(navs) \in Nat /\ Len(navs) >= 1
    BY TopIs DEF SessionInv
  <2>2. Len(navs) <= MaxNavs
    BY <1>1 DEF Request, Touchable, SessionInv, NavsOK, Bounded
  <2> QED
    BY <2>1, <2>2
<1>3. requests' \in Seq(Requests)
  <2>1. [kind |-> kind, user |-> u, nav |-> Len(navs)] \in Requests
    BY <1>2 DEF Requests
  <2> QED
    BY <1>1, <2>1 DEF Request, SessionInv, RestOK
<1>4. NavsOK' /\ TopFits'
  BY <1>1, ScreensKept DEF Request, history
<1> QED
  BY <1>1, <1>3, <1>4 DEF Request, history, SessionInv, RestOK

(* A registration screen comes and goes over a login screen.                *)
LEMMA RegisterScreenStep ==
    ASSUME SessionInv, ActionRegister \/ ActionPopRegister
    PROVE  SessionInv'
<1>1. /\ Len(navs) \in Nat /\ Len(navs) >= 1
      /\ Len(navs) = 1 => TopNav \in RootNavs
      /\ Len(navs) > 1 => TopNav \in HomeNavs
  BY TopIs DEF SessionInv
<1>0. Len(navs) = 1 \/ Len(navs) > 1
  <2> DEFINE L == Len(navs)
  <2>1. L \in Nat /\ L >= 1
    BY <1>1
  <2> HIDE DEF L
  <2>2. L = 1 \/ L > 1
    BY <2>1
  <2> QED
    BY <2>2 DEF L
<1>2. NavsOK' /\ Top'.kind \in {"login", "register"}
  <2>1. CASE ActionRegister
    <3> DEFINE q == Append(TopNav, Register)
    <3>1. Top.kind = "login" /\ navs' = [navs EXCEPT ![Len(navs)] = q]
      BY <2>1 DEF ActionRegister, Navigate, Touchable, Push, TopNav
    <3>2. TopNav[Len(TopNav)].kind = "login"
      BY <3>1 DEF Top
    <3>3. Len(navs) = 1 => q \in RootNavs /\ q[Len(q)].kind = "register"
      BY <1>1, <3>2, RootNav
    <3>4. Len(navs) > 1 => q \in HomeNavs /\ q[Len(q)].kind = "register"
      BY <1>1, <3>2, HomeNav
    <3>5. q[Len(q)].kind = "register"
      <4> QED
        BY <1>0, <3>3, <3>4
    <3>6. Len(navs) <= MaxNavs /\ NavsOK
      BY <3>1 DEF SessionInv, NavsOK, Bounded
    <3> HIDE DEF q
    <3>7. NavsOK' /\ Top' = q[Len(q)]
      BY <3>1, <3>3, <3>4, <3>6, Replaced
    <3> QED
      BY <3>5, <3>7
  <2>2. CASE ActionPopRegister
    <3> DEFINE q == SubSeq(TopNav, 1, Len(TopNav) - 1)
    <3>1. Top.kind = "register" /\ navs' = [navs EXCEPT ![Len(navs)] = q]
      BY <2>2 DEF ActionPopRegister, Navigate, Touchable, Pop, TopNav
    <3>2. TopNav[Len(TopNav)].kind = "register"
      BY <3>1 DEF Top
    <3>3. Len(navs) = 1 => q \in RootNavs /\ q[Len(q)].kind = "login"
      BY <1>1, <3>2, RootNav
    <3>4. Len(navs) > 1 => q \in HomeNavs /\ q[Len(q)].kind = "login"
      BY <1>1, <3>2, HomeNav
    <3>5. q[Len(q)].kind = "login"
      <4> QED
        BY <1>0, <3>3, <3>4
    <3>6. Len(navs) <= MaxNavs /\ NavsOK
      BY <3>1 DEF SessionInv, NavsOK, Bounded
    <3> HIDE DEF q
    <3>7. NavsOK' /\ Top' = q[Len(q)]
      BY <3>1, <3>3, <3>4, <3>6, Replaced
    <3> QED
      BY <3>5, <3>7
  <2> QED
    BY <2>1, <2>2
<1>3. TopFits'
  BY <1>2 DEF TopFits
<1>4. RestOK'
  BY DEF ActionRegister, ActionPopRegister, Navigate, history, SessionInv, RestOK
<1> QED
  BY <1>2, <1>3, <1>4 DEF SessionInv

(* The profile screen is made for the current user, whoever that is by then,*)
(* over a home screen that may have been made for another.                 *)
LEMMA ConfigStep ==
    ASSUME SessionInv, ActionConfigUser
    PROVE  SessionInv' /\ Top'.kind = "detail"
<1>1. /\ Top.kind = "home" /\ currentUser \in Users
      /\ navs' = [navs EXCEPT ![Len(navs)] = Append(TopNav, Detail(currentUser))]
      /\ UNCHANGED <<accounts, currentUser, told, requests, alert, history>>
  BY DEF ActionConfigUser, Navigate, Touchable, Push, TopNav, SessionInv, RestOK
<1>2. TopNav \in HomeNavs /\ NavsOK
  BY <1>1, TopIs DEF SessionInv
<1>0. PICK c \in Users : c = currentUser
  BY <1>1
<1>3. PICK u \in Users : TopNav = <<Home(u)>>
  BY <1>1, <1>2, HomeNav DEF Top
<1> DEFINE a == Home(u)
           b == Detail(c)
           q == <<a, b>>
<1>4. a \in Screens /\ b \in Screens
  BY <1>1 DEF Screens
<1>5. Append(TopNav, b) = q
  <2> HIDE DEF a, b
  <2>1. Append(<<a>>, b) = <<a, b>>
    BY <1>4, Pairs
  <2> QED
    BY <1>3, <2>1, Zenon DEF a
<1>6. q \in HomeNavs
  BY <1>1 DEF HomeNavs
<1>7. b.kind = "detail" /\ a.user = u /\ b.user = c
  BY DEF Home, Detail
<1> HIDE DEF a, b
<1>8. Len(q) = 2 /\ q[1] = a /\ q[2] = b
  OBVIOUS
<1>9. navs' = [navs EXCEPT ![Len(navs)] = q]
  BY <1>0, <1>1, <1>5 DEF b
<1>10. Len(navs) # 1
  BY <1>2, TopIs, NavsApart
<1> HIDE DEF q
<1>11. NavsOK' /\ TopNav' = q /\ Top' = b
  BY <1>2, <1>6, <1>7, <1>8, <1>9, <1>10, Replaced
<1>12. TopFits'
  <2>1. Fits(u)
    <3>1. Len(TopNav) = 1 /\ TopNav[1].user = u
      BY <1>3 DEF Home
    <3> QED
      BY <1>1, <3>1 DEF SessionInv, TopFits
  <2>2. Fits(u)' /\ Fits(c)'
    BY <1>0, <1>1, <2>1 DEF Fits, history
  <2>3. \A i \in 1 .. Len(q) : q[i].user \in {u, c}
    BY <1>7, <1>8
  <2> QED
    BY <1>11, <2>2, <2>3 DEF TopFits, Fits
<1>13. RestOK'
  BY <1>1 DEF history, SessionInv, RestOK
<1> QED
  BY <1>7, <1>11, <1>12, <1>13 DEF SessionInv

(* The back button leads to a home screen that fits as before.              *)
LEMMA BackStep ==
    ASSUME SessionInv, ActionBackButton
    PROVE  SessionInv' /\ Top'.kind = "home"
<1>1. /\ Top.kind = "detail"
      /\ navs' = [navs EXCEPT ![Len(navs)] = SubSeq(TopNav, 1, Len(TopNav) - 1)]
      /\ UNCHANGED <<accounts, currentUser, told, requests, alert, history>>
  BY DEF ActionBackButton, Navigate, Touchable, Pop, TopNav
<1>2. TopNav \in HomeNavs /\ NavsOK
  BY <1>1, TopIs DEF SessionInv
<1>3. PICK u \in Users, v \in Users : TopNav = <<Home(u), Detail(v)>>
  BY <1>1, <1>2, HomeNav DEF Top
<1> DEFINE a == Home(u)
           b == Detail(v)
           q == <<a>>
<1>4. a \in Screens /\ b \in Screens /\ q \in HomeNavs
  BY DEF Screens, HomeNavs
<1>5. a.kind = "home" /\ a.user = u
  BY DEF Home
<1>6. TopNav = <<a, b>>
  BY <1>3
<1> HIDE DEF a, b
<1>7. SubSeq(TopNav, 1, Len(TopNav) - 1) = q /\ Len(TopNav) = 2 /\ TopNav[1] = a
  <2>1. SubSeq(<<a, b>>, 1, 1) = <<a>>
    BY <1>4, Pairs
  <2>2. Len(TopNav) - 1 = 1 /\ Len(TopNav) = 2 /\ TopNav[1] = a
    BY <1>6
  <2>3. SubSeq(TopNav, 1, 1) = q
    BY <1>6, <2>1, Zenon
  <2> QED
    BY <2>2, <2>3
<1>8. Len(q) = 1 /\ q[1] = a /\ q[Len(q)] = a
  OBVIOUS
<1>9. navs' = [navs EXCEPT ![Len(navs)] = q]
  BY <1>1, <1>7
<1>10. Len(navs) # 1
  BY <1>2, TopIs, NavsApart
<1> HIDE DEF q
<1>11. NavsOK' /\ TopNav' = q /\ Top' = a
  BY <1>2, <1>4, <1>5, <1>8, <1>9, <1>10, Replaced
<1>12. TopFits'
  <2>1. Fits(u)
    BY <1>1, <1>5, <1>7 DEF SessionInv, TopFits
  <2>2. Fits(u)'
    BY <1>1, <2>1 DEF Fits, history
  <2>3. \A i \in 1 .. Len(q) : q[i].user = u
    BY <1>5, <1>8
  <2> QED
    BY <1>11, <2>2, <2>3 DEF TopFits, Fits
<1>13. RestOK'
  BY <1>1 DEF history, SessionInv, RestOK
<1> QED
  BY <1>5, <1>11, <1>12, <1>13 DEF SessionInv

(* Signing out covers the screens of the one who leaves by a login screen.  *)
LEMMA SairContaStep ==
    ASSUME SessionInv, ActionSairConta
    PROVE  SessionInv'
<1>1. Top.kind = "detail" /\ Len(navs) < MaxNavs
  BY DEF ActionSairConta, Touchable
<1>2. CASE currentUser' = currentUser /\ UNCHANGED <<told, navs, overlapped, expired>>
  <2>1. NavsOK' /\ TopFits'
    BY <1>2, ScreensKept
  <2>2. alert' \in BOOLEAN
    BY DEF ActionSairConta, SessionInv, RestOK
  <2> QED
    BY <1>2, <2>1, <2>2 DEF ActionSairConta, SessionInv, RestOK
<1>3. CASE /\ currentUser' = None /\ Leave /\ AddStateListener
           /\ overlapped' = FALSE /\ expired' = FALSE
           /\ UNCHANGED alert
  <2>1. TopNav \in HomeNavs /\ NavsOK /\ Len(navs) \in Nat
    BY <1>1, TopIs DEF SessionInv
  <2>2. PICK u \in Users, v \in Users : TopNav = <<Home(u), Detail(v)>>
    BY <1>1, <2>1, HomeNav DEF Top
  <2> DEFINE a == Home(u)
             b == Detail(v)
             q == <<a, b, Login>>
             p == Append(TopNav, Login)
  <2>3. a \in Screens /\ b \in Screens /\ Login \in Screens
    BY DEF Screens
  <2>4. q \in HomeNavs
    BY DEF HomeNavs
  <2>5. TopNav = <<a, b>>
    BY <2>2
  <2> HIDE DEF a, b
  <2>6. q[1] = a /\ q[2] = b /\ q[3] = Login /\ Len(q) = 3 /\ q \in Seq(Screens)
    BY <2>3
  <2>7. p[1] = a /\ p[2] = b /\ p[3] = Login /\ Len(p) = 3 /\ p \in Seq(Screens)
    BY <2>3, <2>5
  <2>8. navs' = [navs EXCEPT ![Len(navs)] = p]
    BY <1>3 DEF Leave, Push, TopNav
  <2> HIDE DEF p, q
  <2>9. p = q
    BY <2>6, <2>7, Written
  <2>10. Len(navs) # 1
    BY <2>1, TopIs, NavsApart
  <2>11. NavsOK' /\ Top' = Login
    <3>1. navs' = [navs EXCEPT ![Len(navs)] = q]
      BY <2>8, <2>9
    <3>2. Len(navs) <= MaxNavs /\ q[Len(q)] = Login
      BY <1>1, <2>1, <2>6
    <3> QED
      BY <2>1, <2>4, <2>10, <3>1, <3>2, Replaced
  <2>12. TopFits'
    BY <2>11 DEF TopFits, Login
  <2>13. RestOK'
    <3>1. told' \in Seq(Users \cup {None, Unheard}) /\ told' # << >>
      BY <1>3 DEF AddStateListener, SessionInv, RestOK
    <3> QED
      BY <1>3, <3>1 DEF ActionSairConta, SessionInv, RestOK
  <2> QED
    BY <2>11, <2>12, <2>13 DEF SessionInv
<1> QED
  BY <1>2, <1>3 DEF ActionSairConta

(* A sign-in accepted behind another account's screens overlaps them.       *)
LEMMA AcceptedStep ==
    ASSUME SessionInv, NEW i \in 1 .. MaxRequests, Accepted(i)
    PROVE  SessionInv'
<1>1. i \in DOMAIN requests /\ requests \in Seq(Requests)
  BY DEF Accepted, SessionInv, RestOK
<1> DEFINE u == requests[i].user
<1>2. u \in Users
  <2>1. requests[i] \in Requests
    BY <1>1
  <2> QED
    BY <2>1 DEF Requests
<1> HIDE DEF u
<1>3. /\ accounts' = accounts \cup {u} /\ currentUser' = u
      /\ overlapped' = (overlapped \/ currentUser \notin {u, None})
      /\ requests' = Without(requests, i)
      /\ UNCHANGED <<told, navs, alert, expired, missed>>
  BY DEF Accepted, u
<1>4. requests' \in Seq(Requests)
  BY <1>1, <1>3, WithoutType
<1>5. RestOK'
  <2>1. overlapped' \in BOOLEAN
    BY <1>3 DEF SessionInv, RestOK
  <2> QED
    BY <1>2, <1>3, <1>4, <2>1 DEF SessionInv, RestOK
<1>6. NavsOK'
  BY <1>3 DEF SessionInv, NavsOK, Covered, Bounded, Top, TopNav
<1>7. TopFits'
  <2> SUFFICES ASSUME Top.kind \in {"home", "detail"}, NEW n \in 1 .. Len(TopNav)
               PROVE  Fits(TopNav[n].user)'
    BY <1>3 DEF TopFits, Fits, Top, TopNav
  <2>1. TopNav[n].user \in Users
    <3>1. TopNav \in HomeNavs /\ TopNav \in Seq(Screens)
      BY TopIs, HomeNav DEF SessionInv
    <3>2. Top = TopNav[Len(TopNav)]
      BY DEF Top
    <3>3. TopNav \in {<<Home(x)>> : x \in Users} \cup {<<Home(x), Detail(y)>> : x, y \in Users}
      <4>1. \/ \E x \in Users : TopNav = <<Home(x)>>
            \/ \E x \in Users, y \in Users : TopNav = <<Home(x), Detail(y)>>
        BY <3>1, <3>2, HomeNav
      <4> QED
        BY <4>1
    <3> QED
      BY <3>3 DEF Home, Detail
  <2>2. Fits(TopNav[n].user)
    BY DEF SessionInv, TopFits
  <2>3. TopNav' = TopNav
    BY <1>3 DEF TopNav
  <2>4. u # None
    BY <1>2
  <2> DEFINE x == TopNav[n].user
  <2>5. (x # u => expired \/ ((overlapped \/ currentUser \notin {u, None}) /\ u # None))
    BY <2>1, <2>2, <2>4 DEF Fits
  <2> QED
    BY <1>3, <2>3, <2>5 DEF Fits
<1> QED
  BY <1>5, <1>6, <1>7 DEF SessionInv

(* A refused request, a dismissed alert: the screens stay.                  *)
LEMMA AlertStep ==
    ASSUME SessionInv, DismissAlert \/ \E i \in 1 .. MaxRequests : Rejected(i)
    PROVE  SessionInv'
<1>1. /\ UNCHANGED <<accounts, currentUser, told, navs, overlapped, expired, missed>>
      /\ alert' \in BOOLEAN
  BY DEF DismissAlert, Rejected, history, SessionInv, RestOK
<1>2. requests' \in Seq(Requests)
  <2>1. CASE DismissAlert
    BY <2>1 DEF DismissAlert, SessionInv, RestOK
  <2>2. ASSUME NEW i \in 1 .. MaxRequests, Rejected(i) PROVE requests' \in Seq(Requests)
    BY <2>2, WithoutType DEF Rejected, SessionInv, RestOK
  <2> QED
    BY <2>1, <2>2
<1>3. NavsOK' /\ TopFits'
  BY <1>1, ScreensKept
<1> QED
  BY <1>1, <1>2, <1>3 DEF SessionInv, RestOK

(* Each listener, the newest among them, has been told of the current user. *)
LEMMA CalledListeners ==
    ASSUME RestOK, AuthStateChanged
    PROVE  /\ told' \in Seq(Users \cup {None, Unheard}) /\ told' # << >>
           /\ told'[Len(told')] = currentUser
<1> DEFINE L == Len(told)
<1>1. L \in Nat /\ L >= 1 /\ DOMAIN told = 1 .. L
  BY DEF RestOK
<1>2. told' = [n \in 1 .. L |-> currentUser] /\ currentUser \in Users \cup {None, Unheard}
  BY <1>1 DEF AuthStateChanged, RestOK
<1> HIDE DEF L
<1>3. told' \in Seq(Users \cup {None, Unheard}) /\ Len(told') = L
  BY <1>1, <1>2
<1> QED
  BY <1>1, <1>2, <1>3

(* The listener of a login screen presents the home screen of the user it   *)
(* is told of, who is still the current one.                               *)
LEMMA NotifiedStep ==
    ASSUME SessionInv, AuthStateChanged
    PROVE  SessionInv'
<1>1. RestOK'
  <2>1. missed' \in {"no", "alert", "covered", "presenting"}
    BY DEF AuthStateChanged
  <2>2. told' \in Seq(Users \cup {None, Unheard}) /\ told' # << >>
    BY CalledListeners DEF SessionInv, RestOK
  <2> QED
    BY <2>1, <2>2 DEF AuthStateChanged, SessionInv, RestOK
<1>2. CASE navs' = navs
  BY <1>1, <1>2, ScreensKept DEF AuthStateChanged, SessionInv
<1>3. CASE currentUser # None /\ CanPresent /\ navs' = Append(navs, <<Home(currentUser)>>)
  <2>1. currentUser \in Users /\ Top.kind \in {"login", "register"} /\ NavsOK
    BY <1>3 DEF CanPresent, SessionInv, RestOK
  <2>2. NavsOK' /\ TopNav' = <<Home(currentUser)>>
    BY <1>3, <2>1, Presented
  <2>3. currentUser' = currentUser
    BY DEF AuthStateChanged
  <2>4. \A n \in 1 .. Len(TopNav') : TopNav'[n].user = currentUser'
    BY <2>2, <2>3 DEF Home
  <2>5. TopFits'
    BY <2>4 DEF TopFits, Fits
  <2> QED
    BY <1>1, <2>2, <2>5 DEF SessionInv
<1> QED
  BY <1>2, <1>3 DEF AuthStateChanged

(* A session that ends by force leaves the screens of its user behind.      *)
LEMMA ForcedStep ==
    ASSUME SessionInv, ForcedSignOut
    PROVE  SessionInv'
<1>1. NavsOK'
  BY DEF ForcedSignOut, SessionInv, NavsOK, Covered, Bounded, Top, TopNav
<1>2. TopFits'
  BY DEF ForcedSignOut, TopFits, Fits
<1>3. RestOK'
  BY DEF ForcedSignOut, SessionInv, RestOK
<1> QED
  BY <1>1, <1>2, <1>3 DEF SessionInv

(* A new process starts at the login screen of the window.                  *)
LEMMA RelaunchStep ==
    ASSUME SessionInv, Relaunch \/ OpenProfileOfNobody
    PROVE  SessionInv'
<1>1. Relaunch
  BY DEF OpenProfileOfNobody
<1>2. NavsOK' /\ Top' = Login
  BY <1>1, Started DEF Relaunch
<1>3. TopFits'
  BY <1>2 DEF TopFits, Login
<1>4. accounts' \subseteq Users /\ accounts \subseteq accounts'
  <2>1. PICK S \in SUBSET {requests[i].user : i \in
                     {j \in DOMAIN requests : requests[j].kind = "createUser"}} :
          accounts' = accounts \cup S
    BY <1>1 DEF Relaunch
  <2>2. requests \in Seq(Requests) /\ accounts \subseteq Users
    BY DEF SessionInv, RestOK
  <2>3. \A j \in DOMAIN requests : requests[j].user \in Users
    <3> TAKE j \in DOMAIN requests
    <3>1. requests[j] \in Requests
      BY <2>2
    <3> QED
      BY <3>1 DEF Requests
  <2> QED
    BY <2>1, <2>2, <2>3
<1>5. requests' \in Seq(Requests)
  BY <1>1 DEF Relaunch
<1>6. RestOK'
  <2>1. told' \in Seq(Users \cup {None, Unheard}) /\ told' # << >>
    BY <1>1 DEF Relaunch
  <2>2. currentUser' \in accounts' \cup {None} /\ accounts' \subseteq Users
    BY <1>1, <1>4 DEF Relaunch, SessionInv, RestOK
  <2> QED
    BY <1>1, <1>5, <2>1, <2>2, Zenon DEF Relaunch, RestOK
<1> QED
  BY <1>2, <1>3, <1>6 DEF SessionInv

-----------------------------------------------------------------------------
(* A listener that was called and presented nothing.                        *)

(* A login screen in sight whose listener has been told of somebody was     *)
(* kept from presenting the home screen by an alert or by its own           *)
(* registration screen: the part of SignedInReachesHome that needs no       *)
(* fairness.                                                               *)
HeardOfIsHindered ==
    Top.kind \in {"login", "register"} /\ told[Len(told)] \in Users =>
        missed \in {"alert", "covered"}

(* A login screen comes into sight with a listener yet to be called, and the *)
(* call that finds nothing in the way covers it.                            *)
LEMMA HinderedStep == SessionInv /\ HeardOfIsHindered /\ [Next]_vars => HeardOfIsHindered'
<1> SUFFICES ASSUME SessionInv, HeardOfIsHindered, [Next]_vars PROVE HeardOfIsHindered'
  OBVIOUS
<1>1. CASE UNCHANGED <<told, navs, missed>>
  BY <1>1 DEF HeardOfIsHindered, Top, TopNav
<1>2. CASE UNCHANGED vars \/ DismissAlert \/ ForcedSignOut
  BY <1>1, <1>2 DEF vars, history, DismissAlert, ForcedSignOut
<1>3. CASE \E u \in Users : ActionLogin(u) \/ ActionRegisterUser(u)
  BY <1>1, <1>3 DEF ActionLogin, ActionRegisterUser, Request, history
<1>4. CASE \E i \in 1 .. MaxRequests : Accepted(i) \/ Rejected(i)
  BY <1>1, <1>4 DEF Accepted, Rejected, history
<1>5. CASE ActionRegister \/ ActionPopRegister
  BY <1>5 DEF ActionRegister, ActionPopRegister, Navigate, Touchable, history, HeardOfIsHindered
<1>6. CASE ActionConfigUser \/ ActionBackButton
  BY <1>6, ConfigStep, BackStep DEF HeardOfIsHindered
<1>7. CASE ActionSairConta
  <2>1. CASE UNCHANGED <<told, navs>>
    BY <1>1, <1>7, <2>1 DEF ActionSairConta
  <2>2. CASE AddStateListener
    <3>1. told'[Len(told')] = Unheard
      BY <2>2 DEF AddStateListener, SessionInv, RestOK
    <3> QED
      BY <3>1 DEF HeardOfIsHindered
  <2> QED
    BY <1>7, <2>1, <2>2 DEF ActionSairConta
<1>8. CASE AuthStateChanged
  <2>1. CASE currentUser = None
    <3>1. told'[Len(told')] = None
      BY <1>8, <2>1, CalledListeners DEF SessionInv
    <3> QED
      BY <3>1 DEF HeardOfIsHindered
  <2>2. CASE currentUser # None /\ CanPresent /\ navs' = Append(navs, <<Home(currentUser)>>)
    <3>1. currentUser \in Users /\ Top.kind \in {"login", "register"} /\ NavsOK
      BY <2>2 DEF CanPresent, SessionInv, RestOK
    <3>2. Top' = Home(currentUser)
      BY <2>2, <3>1, Presented
    <3>3. Top'.kind = "home"
      BY <3>2 DEF Home
    <3> QED
      BY <3>3 DEF HeardOfIsHindered
  <2>3. CASE /\ ~(CanPresent /\ Top.kind = "login")
             /\ missed' = IF alert THEN "alert"
                          ELSE IF Top.kind = "register" THEN "covered" ELSE "presenting"
             /\ UNCHANGED navs
    <3>1. Top' = Top
      BY <2>3 DEF Top, TopNav
    <3>2. Top.kind = "login" => alert
      BY <2>3 DEF CanPresent
    <3> QED
      BY <2>3, <3>1, <3>2 DEF HeardOfIsHindered
  <2> QED
    BY <1>8, <2>1, <2>2, <2>3 DEF AuthStateChanged
<1>9. CASE Relaunch \/ OpenProfileOfNobody
  <2>1. told' = <<Unheard>>
    BY <1>9 DEF OpenProfileOfNobody, Relaunch
  <2>2. told'[Len(told')] = Unheard
    BY <2>1
  <2> QED
    BY <2>2 DEF HeardOfIsHindered
<1> QED
  BY <1>2, <1>3, <1>4, <1>5, <1>6, <1>7, <1>8, <1>9 DEF Next

-----------------------------------------------------------------------------
(* The theorems.                                                           *)

(* The screens, requests and history of a session are as SessionInv says in *)
(* every state of the application.                                         *)
LEMMA Invariance == Spec => []SessionInv
<1>1. Init => SessionInv
  <2> SUFFICES ASSUME Init PROVE SessionInv
    OBVIOUS
  <2>1. <<Login>> \in RootNavs
    BY DEF RootNavs
  <2>2. navs \in Seq(RootNavs \cup HomeNavs) /\ Len(navs) = 1 /\ navs[1] = <<Login>>
    BY <2>1 DEF Init
  <2>3. Top = Login
    BY <2>2 DEF Top, TopNav
  <2>4. Covered /\ Bounded
    BY <2>2 DEF Covered, Bounded
  <2>5. NavsOK
    BY <2>1, <2>2, <2>4 DEF NavsOK
  <2>6. TopFits
    BY <2>3 DEF TopFits, Login
  <2>7. RestOK
    <3>1. requests \in Seq(Requests) /\ told \in Seq(Users \cup {None, Unheard}) /\ told # << >>
      BY DEF Init
    <3> QED
      BY <3>1, Zenon DEF Init, RestOK
  <2> QED
    BY <2>5, <2>6, <2>7 DEF SessionInv
<1>2. SessionInv /\ [Next]_vars => SessionInv'
  <2> SUFFICES ASSUME SessionInv, [Next]_vars PROVE SessionInv'
    OBVIOUS
  <2>1. CASE UNCHANGED vars
    <3>1. NavsOK' /\ TopFits'
      BY <2>1, ScreensKept DEF vars, history
    <3> QED
      BY <2>1, <3>1 DEF vars, history, SessionInv, RestOK
  <2>2. CASE \E u \in Users : ActionLogin(u) \/ ActionRegisterUser(u)
    BY <2>2, RequestStep
  <2>3. CASE ActionRegister \/ ActionPopRegister
    BY <2>3, RegisterScreenStep
  <2>4. CASE ActionConfigUser
    BY <2>4, ConfigStep
  <2>5. CASE ActionBackButton
    BY <2>5, BackStep
  <2>6. CASE ActionSairConta
    BY <2>6, SairContaStep
  <2>7. CASE \E i \in 1 .. MaxRequests : Accepted(i)
    BY <2>7, AcceptedStep
  <2>8. CASE DismissAlert \/ \E i \in 1 .. MaxRequests : Rejected(i)
    BY <2>8, AlertStep
  <2>9. CASE AuthStateChanged
    BY <2>9, NotifiedStep
  <2>10. CASE ForcedSignOut
    BY <2>10, ForcedStep
  <2>11. CASE Relaunch \/ OpenProfileOfNobody
    BY <2>11, RelaunchStep
  <2> QED
    BY <2>1, <2>2, <2>3, <2>4, <2>5, <2>6, <2>7, <2>8, <2>9, <2>10, <2>11 DEF Next
<1> QED
  BY <1>1, <1>2, PTL DEF Spec

(* Every variable keeps its type, and the controllers their shape: the      *)
(* window's own one starts with the login screen, every other one with a    *)
(* home screen, whatever is touched and answered in whatever order.         *)
THEOREM TypeCorrect == Spec => []TypeOK
<1>1. SessionInv => TypeOK
  BY DEF SessionInv, NavsOK, RestOK, TypeOK, Requests
<1> QED
  BY <1>1, Invariance, PTL

(* The home or profile screen on top was made for the current user unless   *)
(* another account was accepted behind it or its session ended by force,    *)
(* and only login and registration screens are covered by a controller.     *)
THEOREM ScreensFollowSession == Spec => []ScreensOfSession
<1>1. SessionInv => ScreensOfSession
  <2> SUFFICES ASSUME SessionInv PROVE ScreensOfSession
    OBVIOUS
  <2>1. \A n \in 1 .. Len(navs) - 1 : navs[n][Len(navs[n])].kind \in {"login", "register"}
    BY DEF SessionInv, NavsOK, Covered
  <2>2. ASSUME Top.kind \in {"home", "detail"} PROVE Fits(Top.user)
    <3>1. TopNav \in HomeNavs
      BY <2>2, TopIs DEF SessionInv
    <3>2. Len(TopNav) \in 1 .. Len(TopNav)
      BY <3>1, HomeNav
    <3> QED
      BY <2>2, <3>2 DEF SessionInv, TopFits, Top
  <2> QED
    BY <2>1, <2>2 DEF ScreensOfSession, Fits
<1> QED
  BY <1>1, Invariance, PTL

(* Whoever a login screen in sight has heard of could not be shown their    *)
(* home screen for an alert or a registration screen in the way, however    *)
(* sign-ins, sign-outs and notifications fell together.                     *)
THEOREM HeardOfAreHindered == Spec => []HeardOfIsHindered
<1>1. Init => HeardOfIsHindered
  <2> SUFFICES ASSUME Init PROVE HeardOfIsHindered
    OBVIOUS
  <2>1. told[Len(told)] = Unheard
    BY DEF Init
  <2> QED
    BY <2>1 DEF HeardOfIsHindered
<1> QED
  BY <1>1, Invariance, HinderedStep, PTL DEF Spec
=============================================================================
