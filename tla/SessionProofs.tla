--------------------------- MODULE SessionProofs ---------------------------
(***************************************************************************)
(* Theorems about Session, for every set of users and every bound: its     *)
(* type invariant, that profiles are complete and main screens have one,   *)
(* what the places that know who is signed in agree upon, and that an      *)
(* abandoned account never gets a profile.                                 *)
(***************************************************************************)
EXTENDS Session, TLAPS

-----------------------------------------------------------------------------
(* Views on a stack.                                                       *)

ViewType == [kind : Screens, user : Users \cup {None}, of : Nat]
CallType == [kind : CallKinds, user : Users, of : Nat, pic : Users \cup {None},
             tap : Nat]

LEMMA ViewFields ==
  ASSUME NEW kind \in Screens, NEW user \in Users \cup {None}, NEW of \in Nat
  PROVE  /\ View(kind, user, of) \in ViewType
         /\ View(kind, user, of).kind = kind /\ View(kind, user, of).user = user
         /\ View(kind, user, of).of = of
  BY DEF View, ViewType

LEMMA AppendViews ==
  ASSUME NEW S, NEW s \in Seq(S), NEW v \in S
  PROVE  /\ Append(s, v) \in Seq(S) /\ Range(Append(s, v)) = Range(s) \cup {v}
         /\ Append(s, v) # <<>> /\ Last(Append(s, v)) = v
  <1>1. /\ Append(s, v) \in Seq(S) /\ Len(Append(s, v)) = Len(s) + 1
        /\ Append(s, v)[Len(s) + 1] = v
        /\ \A i \in 1 .. Len(s) : Append(s, v)[i] = s[i]
    OBVIOUS
  <1>2. Range(Append(s, v)) = Range(s) \cup {v}
    <2>1. DOMAIN s = 1 .. Len(s) /\ DOMAIN Append(s, v) = (1 .. Len(s)) \cup {Len(s) + 1}
      BY <1>1
    <2> QED
      BY <1>1, <2>1 DEF Range
  <1> QED
    BY <1>1, <1>2 DEF Last

LEMMA FrontViews ==
  ASSUME NEW S, NEW s \in Seq(S), s # <<>>
  PROVE  /\ Front(s) \in Seq(S) /\ Range(Front(s)) \subseteq Range(s)
         /\ Len(Front(s)) = Len(s) - 1
         /\ \A i \in 1 .. Len(s) - 1 : Front(s)[i] = s[i]
         /\ Last(s) \in Range(s) /\ Last(s) \in S
  <1>1. /\ Len(s) \in Nat /\ Len(s) > 0 /\ DOMAIN s = 1 .. Len(s)
        /\ \A i \in 1 .. Len(s) : s[i] \in S
    OBVIOUS
  <1>2. /\ Front(s) \in Seq(S) /\ Len(Front(s)) = Len(s) - 1
        /\ \A i \in 1 .. Len(s) - 1 : Front(s)[i] = s[i]
    BY <1>1 DEF Front
  <1>3. Range(Front(s)) \subseteq Range(s)
    BY <1>1, <1>2 DEF Range
  <1> QED
    BY <1>1, <1>2, <1>3 DEF Range, Last

LEMMA OneView ==
  ASSUME NEW S, NEW v \in S
  PROVE  <<v>> \in Seq(S) /\ Range(<<v>>) = {v} /\ <<v>> # <<>> /\ Last(<<v>>) = v
  BY DEF Range, Last

LEMMA NoView == ASSUME NEW S PROVE <<>> \in Seq(S) /\ Range(<<>>) = {}
  BY DEF Range

LEMMA RangeViews ==
  ASSUME NEW S, NEW s \in Seq(S)
  PROVE  /\ Range(s) \subseteq S
         /\ s # <<>> => Last(s) \in Range(s)
         /\ s = <<>> <=> Range(s) = {}
  <1>1. Len(s) \in Nat /\ DOMAIN s = 1 .. Len(s) /\ \A i \in 1 .. Len(s) : s[i] \in S
    OBVIOUS
  <1>2. s # <<>> => Len(s) \in 1 .. Len(s)
    OBVIOUS
  <1>3. Range(s) \subseteq S /\ (s # <<>> => Last(s) \in Range(s))
    BY <1>1, <1>2 DEF Range, Last
  <1> QED
    BY <1>3, NoView

(* present(_:animated:) leaves the stack alone or adds the view.           *)
LEMMA PresentViews ==
  ASSUME NEW kind, NEW of, NEW view \in ViewType, stack \in Seq(ViewType),
         Present(kind, of, view)
  PROVE  /\ stack' \in Seq(ViewType)
         /\ stack' = <<>> <=> stack = <<>>
         /\ \A v \in Range(stack') :
              \/ v \in Range(stack)
              \/ v = view /\ \E w \in Range(stack) : w.kind = kind /\ w.of = of
  <1>1. CASE OnTop(kind, of)
    BY <1>1, AppendViews, RangeViews DEF Present, OnTop
  <1>2. CASE ~OnTop(kind, of)
    BY <1>2 DEF Present
  <1> QED
    BY <1>1, <1>2

-----------------------------------------------------------------------------
(* The invariant: what is on its way to the server, and on the stack, is   *)
(* good for what it leads to.                                              *)

Registering == {"createUser", "upload", "saveProfile"}
SigningIn == {"launch", "signIn", "getUserData"}
Forms == {"form", "credentials"}

(* The spinner of a launch is alone on the screen, and with its call.      *)
Launching ==
  \A c \in calls :
    c.kind = "launch" => stack = <<>> /\ calls = {c} /\ c.of = screen /\ auth # None

(* Whoever is welcomed is signed in; a login screen is the newest.         *)
ViewPlaced(v) ==
  /\ v.kind \in {"authorized", "registered", "main"} => v.user \in Users /\ auth # None
  /\ v.kind \in {"registered", "main"} => profile[v.user] # None
  /\ v.kind \in {"login", "authorized"} => v.of = screen
  /\ v.kind \in Forms => v.of \in 1 .. form

(* A call whose answer still meets its screen is one of a session that     *)
(* lasts; an account comes before its photo, a photo before the profile.   *)
CallPlaced(c) ==
  /\ c.kind \in Registering => c.of \in 1 .. form
  /\ c.kind \in SigningIn => c.of <= screen
  /\ c.kind = "getUserData" /\ c.of = screen => auth # None
  /\ c.kind \in {"upload", "saveProfile"} =>
       /\ c.user \in accounts
       /\ \A v \in Range(stack) : v.kind \in Forms /\ v.of = c.of => auth # None
  /\ c.kind = "saveProfile" => c.pic \in avatars

ModelsNamed == \A f \in 1 .. MaxForms : model[f].id # None => model[f].id \in accounts

Inv ==
  /\ TypeOK
  /\ ProfileIsComplete
  /\ Launching
  /\ \A v \in Range(stack) : ViewPlaced(v)
  /\ \A c \in calls : CallPlaced(c)
  /\ ModelsNamed

-----------------------------------------------------------------------------
(* Every step keeps it.                                                    *)

LEMMA InvInit == ASSUME Init PROVE Inv
  <1> USE SessionAssumption
  <1>1. View("login", None, 1) \in ViewType
    BY DEF View, ViewType, Screens
  <1>2. stack \in Seq(ViewType) /\ Range(stack) = {View("login", None, 1)}
    BY <1>1, OneView DEF Init
  <1>3. TypeOK
    <2>1. /\ accounts \subseteq Users /\ avatars \subseteq Users
          /\ profile \in [Users -> Users \cup {None}]
          /\ model \in [1 .. MaxForms -> [id : Users \cup {None}, avatar : Users \cup {None}]]
          /\ busy \in [1 .. MaxForms -> BOOLEAN]
      BY DEF Init, NoModel
    <2>2. /\ auth = None /\ current = None /\ screen = 1 /\ form = 0 /\ taps = 0
          /\ faults = 0 /\ calls = {} /\ crash = "no" /\ listening = FALSE /\ hasty = FALSE
      BY DEF Init
    <2>3. form \in 0 .. MaxForms /\ taps \in 0 .. MaxTaps /\ faults \in 0 .. MaxFaults
      BY <2>2
    <2>4. stack \in Seq([kind : Screens, user : Users \cup {None}, of : Nat])
      BY <1>2 DEF ViewType
    <2> QED
      BY <2>1, <2>2, <2>3, <2>4 DEF TypeOK
  <1>4. ProfileIsComplete /\ Launching /\ ModelsNamed /\ \A c \in calls : CallPlaced(c)
    BY DEF Init, ProfileIsComplete, Launching, ModelsNamed, NoModel
  <1>5. \A v \in Range(stack) : ViewPlaced(v)
    BY <1>2 DEF Init, ViewPlaced, View, Forms
  <1> QED
    BY <1>3, <1>4, <1>5 DEF Inv

LEMMA LoginTappedInv ==
  ASSUME Inv, NEW u \in Users, LoginTapped(u) PROVE Inv'
  <1> USE SessionAssumption DEF server, client, forms
  <1> DEFINE c == Call("signIn", u, screen, None)
  <1>1. c \in CallType /\ c.kind = "signIn" /\ c.of = screen
    BY DEF Inv, TypeOK, Call, CallType, CallKinds
  <1>2. stack # <<>> /\ calls' = calls \cup {c}
    BY DEF LoginTapped, OnTop
  <1>3. TypeOK'
    BY <1>1, <1>2 DEF Inv, TypeOK, CallType, LoginTapped, Tap
  <1>4. Launching'
    BY <1>1, <1>2 DEF Inv, Launching, LoginTapped
  <1>5. \A d \in calls' : CallPlaced(d)'
    BY <1>1, <1>2 DEF Inv, TypeOK, CallPlaced, LoginTapped, Registering, SigningIn
  <1> QED
    BY <1>3, <1>4, <1>5 DEF Inv, LoginTapped, ProfileIsComplete, ViewPlaced, ModelsNamed

LEMMA SignInAnsweredInv ==
  ASSUME Inv, NEW c \in calls, SignInAnswered(c) PROVE Inv'
  <1> USE SessionAssumption DEF server, forms
  <1>1. /\ c \in CallType /\ stack \in Seq(ViewType) /\ calls' = calls \ {c}
        /\ auth' = auth \/ auth' = c.user
        /\ auth # None => auth' # None
    BY DEF Inv, TypeOK, ViewType, CallType, SignInAnswered, Answer
  <1>2. PICK v \in ViewType :
          /\ Present("login", c.of, v)
          /\ \/ v.kind = "error"
             \/ v.kind = "authorized" /\ v.user = c.user /\ v.of = c.of /\ auth' = c.user
    <2> DEFINE welcome == View("authorized", c.user, c.of)
    <2>1. CASE c.user \in accounts
      <3>1. /\ welcome \in ViewType /\ welcome.kind = "authorized" /\ welcome.user = c.user
            /\ welcome.of = c.of
        BY <1>1, ViewFields DEF CallType, Screens
      <3> QED
        BY <2>1, <3>1 DEF SignInAnswered
    <2>2. CASE c.user \notin accounts
      BY <1>1, <2>2, ViewFields DEF SignInAnswered, CallType, Screens
    <2> QED
      BY <2>1, <2>2
  <1>3. /\ stack' \in Seq(ViewType)
        /\ stack' = <<>> <=> stack = <<>>
        /\ \A w \in Range(stack') :
             \/ w \in Range(stack)
             \/ w = v /\ \E x \in Range(stack) : x.kind = "login" /\ x.of = c.of
    BY <1>1, <1>2, PresentViews
  <1>4. TypeOK'
    BY <1>1, <1>3 DEF Inv, TypeOK, CallType, ViewType, SignInAnswered
  <1>5. Launching'
    BY <1>1, <1>3 DEF Inv, Launching, SignInAnswered
  <1>6. \A w \in Range(stack') : ViewPlaced(w)'
    BY <1>1, <1>2, <1>3 DEF Inv, ViewPlaced, SignInAnswered, CallType, Forms
  <1>7. \A d \in calls' : CallPlaced(d)'
    BY <1>1, <1>2, <1>3 DEF Inv, CallPlaced, SignInAnswered, Forms
  <1> QED
    BY <1>1, <1>4, <1>5, <1>6, <1>7 DEF Inv, SignInAnswered, ProfileIsComplete, ModelsNamed

LEMMA LaunchAnsweredInv ==
  ASSUME Inv, NEW c \in calls, LaunchAnswered(c) PROVE Inv'
  <1> USE SessionAssumption DEF server, forms
  <1>1. /\ c \in CallType /\ calls' = {} /\ auth' = auth /\ screen' = screen
        /\ auth # None /\ c.of = screen
    BY DEF Inv, TypeOK, Launching, CallType, LaunchAnswered, Answer
  <1>2. PICK v \in ViewType :
          /\ stack' = <<v>>
          /\ \/ v.kind = "main" /\ v.user = c.user /\ profile[c.user] # None
             \/ v.kind = "login" /\ v.of = screen
    <2> DEFINE main == View("main", c.user, 0)
               login == View("login", None, c.of)
    <2>1. /\ main \in ViewType /\ main.kind = "main" /\ main.user = c.user
          /\ login \in ViewType /\ login.kind = "login" /\ login.of = screen
      BY <1>1, ViewFields DEF CallType, Screens
    <2>2. CASE profile[c.user] # None
      BY <2>1, <2>2 DEF LaunchAnswered
    <2>3. CASE profile[c.user] = None
      BY <2>1, <2>3 DEF LaunchAnswered
    <2> QED
      BY <2>2, <2>3
  <1>3. stack' \in Seq(ViewType) /\ Range(stack') = {v}
    BY <1>2, OneView
  <1>4. TypeOK'
    BY <1>1, <1>3 DEF Inv, TypeOK, CallType, ViewType, LaunchAnswered
  <1>5. \A w \in Range(stack') : ViewPlaced(w)'
    BY <1>1, <1>2, <1>3 DEF ViewPlaced, LaunchAnswered, CallType, Forms
  <1> QED
    BY <1>1, <1>4, <1>5 DEF Inv, Launching, LaunchAnswered, ProfileIsComplete, ModelsNamed

LEMMA UserDataAnsweredInv ==
  ASSUME Inv, NEW c \in calls, UserDataAnswered(c) PROVE Inv'
  <1> USE SessionAssumption DEF server, forms
  <1>1. /\ c \in CallType /\ stack \in Seq(ViewType) /\ calls' = calls \ {c}
        /\ auth' = auth /\ profile' = profile /\ screen' = screen
        /\ c.of = screen => auth # None
    BY DEF Inv, TypeOK, ViewType, CallType, CallPlaced, UserDataAnswered, Answer
  <1>2. PICK v \in ViewType :
          /\ Present("login", c.of, v)
          /\ \/ v.kind = "error"
             \/ v.kind = "main" /\ v.user = c.user /\ profile[c.user] # None
    <2> DEFINE main == View("main", c.user, 0)
               error == View("error", None, 0)
    <2>1. /\ main \in ViewType /\ main.kind = "main" /\ main.user = c.user
          /\ error \in ViewType /\ error.kind = "error"
      BY SMTT(30), <1>1, ViewFields DEF CallType, Screens
    <2>2. CASE profile[c.user] # None
      BY <2>1, <2>2 DEF UserDataAnswered
    <2>3. CASE profile[c.user] = None
      BY <2>1, <2>3 DEF UserDataAnswered
    <2> QED
      BY <2>2, <2>3
  <1>3. /\ stack' \in Seq(ViewType)
        /\ stack' = <<>> <=> stack = <<>>
        /\ \A w \in Range(stack') :
             \/ w \in Range(stack)
             \/ w = v /\ \E x \in Range(stack) : x.kind = "login" /\ x.of = c.of
    BY <1>1, <1>2, PresentViews
  <1>4. TypeOK'
    BY <1>1, <1>3 DEF Inv, TypeOK, CallType, ViewType, UserDataAnswered
  <1>5. Launching'
    BY <1>1, <1>3 DEF Inv, Launching
  <1>6. \A w \in Range(stack') : ViewPlaced(w)'
    BY <1>1, <1>2, <1>3 DEF Inv, ViewPlaced, UserDataAnswered, CallType, Forms
  <1>7. \A d \in calls' : CallPlaced(d)'
    BY <1>1, <1>2, <1>3 DEF Inv, CallPlaced, UserDataAnswered, Forms
  <1> QED
    BY <1>4, <1>5, <1>6, <1>7 DEF Inv, UserDataAnswered, ProfileIsComplete, ModelsNamed

LEMMA AlertConfirmedInv ==
  ASSUME Inv, AlertConfirmed PROVE Inv'
  <1> USE SessionAssumption DEF server, client, forms
  <1> DEFINE top == Last(stack)
             main == View("main", top.user, 0)
             read == Call("getUserData", top.user, top.of, None)
  <1>1. /\ stack \in Seq(ViewType) /\ stack # <<>> /\ top \in Range(stack) /\ top \in ViewType
        /\ ViewPlaced(top)
    BY FrontViews DEF Inv, TypeOK, ViewType, AlertConfirmed, Shows
  <1>2. Front(stack) \in Seq(ViewType) /\ Range(Front(stack)) \subseteq Range(stack)
    BY <1>1, FrontViews
  <1>3. ~ \E c \in calls : c.kind = "launch"
    BY <1>1 DEF Inv, Launching
  <1>4. CASE Shows("registered")
    <2>1. main \in ViewType /\ main.kind = "main" /\ main.user = top.user
      BY <1>1, <1>4, ViewFields DEF Shows, ViewType, Screens
    <2>2. stack' \in Seq(ViewType) /\ Range(stack') \subseteq Range(stack) \cup {main}
      <3>1. stack' = Append(Front(stack), main)
        BY <1>4 DEF AlertConfirmed, Shows
      <3> QED
        BY <1>2, <2>1, <3>1, AppendViews
    <2>3. TypeOK'
      BY <1>4, <2>2 DEF Inv, TypeOK, ViewType, AlertConfirmed, Shows
    <2>4. \A v \in Range(stack') : ViewPlaced(v)'
      BY <1>1, <1>4, <2>1, <2>2 DEF Inv, ViewPlaced, AlertConfirmed, Shows, Forms
    <2>5. \A c \in calls' : CallPlaced(c)'
      BY <1>4, <2>1, <2>2 DEF Inv, CallPlaced, AlertConfirmed, Shows, Forms
    <2> QED
      BY <1>3, <1>4, <2>3, <2>4, <2>5
      DEF Inv, Launching, AlertConfirmed, Shows, ProfileIsComplete, ModelsNamed
  <1>5. CASE Shows("authorized")
    <2>1. read \in CallType /\ read.kind = "getUserData" /\ read.of = screen /\ auth # None
      BY <1>1, <1>5 DEF Inv, TypeOK, Shows, ViewPlaced, ViewType, CallType, CallKinds, Call
    <2>2. stack' = Front(stack) /\ calls' = calls \cup {read}
      BY <1>5 DEF AlertConfirmed, Shows
    <2>3. TypeOK'
      BY <1>2, <1>5, <2>1, <2>2 DEF Inv, TypeOK, ViewType, CallType, AlertConfirmed, Shows
    <2>4. \A v \in Range(stack') : ViewPlaced(v)'
      BY <1>2, <2>2 DEF Inv, ViewPlaced, AlertConfirmed
    <2>5. \A c \in calls' : CallPlaced(c)'
      BY <1>2, <2>1, <2>2 DEF Inv, TypeOK, CallPlaced, AlertConfirmed, Registering, SigningIn
    <2> QED
      BY <1>3, <2>1, <2>2, <2>3, <2>4, <2>5
      DEF Inv, Launching, AlertConfirmed, ProfileIsComplete, ModelsNamed
  <1>6. CASE Shows("error")
    <2>1. stack' = Front(stack) /\ UNCHANGED <<calls, listening>>
      BY <1>6 DEF AlertConfirmed, Shows
    <2>2. TypeOK'
      BY <1>2, <2>1 DEF Inv, TypeOK, ViewType, AlertConfirmed
    <2>3. \A v \in Range(stack') : ViewPlaced(v)'
      BY <1>2, <2>1 DEF Inv, ViewPlaced, AlertConfirmed
    <2>4. \A c \in calls' : CallPlaced(c)'
      BY <1>2, <2>1 DEF Inv, CallPlaced, AlertConfirmed
    <2> QED
      BY <1>3, <2>1, <2>2, <2>3, <2>4
      DEF Inv, Launching, AlertConfirmed, ProfileIsComplete, ModelsNamed
  <1> QED
    BY <1>4, <1>5, <1>6 DEF AlertConfirmed

LEMMA RegistrationOpenedInv ==
  ASSUME Inv, RegistrationOpened PROVE Inv'
  <1> USE SessionAssumption DEF server, client
  <1> DEFINE v == View("form", None, form')
  <1>1. /\ form \in Nat /\ form' = form + 1 /\ form' \in 1 .. MaxForms
        /\ stack \in Seq(ViewType) /\ stack # <<>>
    BY DEF Inv, TypeOK, ViewType, RegistrationOpened, OnTop
  <1>2. v \in ViewType /\ v.kind = "form" /\ v.of = form'
    BY <1>1, ViewFields DEF Screens
  <1>3. stack' \in Seq(ViewType) /\ Range(stack') = Range(stack) \cup {v} /\ stack' # <<>>
    BY <1>1, <1>2, AppendViews DEF RegistrationOpened
  <1>4. TypeOK'
    BY <1>1, <1>3 DEF Inv, TypeOK, ViewType, RegistrationOpened, Tap
  <1>5. Launching'
    BY <1>1 DEF Inv, Launching, RegistrationOpened
  <1>6. \A w \in Range(stack') : ViewPlaced(w)'
    BY <1>1, <1>2, <1>3 DEF Inv, ViewPlaced, RegistrationOpened, Forms
  <1>7. \A d \in calls' : CallPlaced(d)'
    BY <1>1, <1>2, <1>3 DEF Inv, CallPlaced, RegistrationOpened, Registering
  <1> QED
    BY <1>4, <1>5, <1>6, <1>7 DEF Inv, RegistrationOpened, ProfileIsComplete, ModelsNamed

LEMMA NextTappedInv ==
  ASSUME Inv, NextTapped PROVE Inv'
  <1> USE SessionAssumption DEF server, client
  <1> DEFINE v == View("credentials", None, form)
  <1>1. /\ form \in Nat /\ form' = form /\ stack \in Seq(ViewType) /\ stack # <<>>
        /\ Last(stack) \in Range(stack) /\ Last(stack).kind = "form" /\ Last(stack).of = form
    BY RangeViews DEF Inv, TypeOK, ViewType, NextTapped, OnTop
  <1>2. v \in ViewType /\ v.kind = "credentials" /\ v.of = form
    BY <1>1, ViewFields DEF Screens
  <1>3. stack' \in Seq(ViewType) /\ Range(stack') = Range(stack) \cup {v} /\ stack' # <<>>
    BY <1>1, <1>2, AppendViews DEF NextTapped
  <1>4. form \in 1 .. MaxForms /\ form \in 1 .. form
    BY <1>1 DEF Inv, TypeOK, ViewPlaced, Forms
  <1>5. TypeOK'
    BY <1>3 DEF Inv, TypeOK, ViewType, NextTapped, Tap, NoModel
  <1>6. Launching'
    BY <1>1 DEF Inv, Launching, NextTapped
  <1>7. \A w \in Range(stack') : ViewPlaced(w)'
    BY <1>2, <1>3, <1>4 DEF Inv, ViewPlaced, NextTapped, Forms
  <1>8. \A d \in calls' : CallPlaced(d)'
    BY <1>1, <1>2, <1>3 DEF Inv, CallPlaced, NextTapped, Forms
  <1>9. ModelsNamed'
    BY DEF Inv, TypeOK, ModelsNamed, NextTapped, NoModel
  <1> QED
    BY <1>5, <1>6, <1>7, <1>8, <1>9 DEF Inv, NextTapped, ProfileIsComplete

LEMMA BackTappedInv ==
  ASSUME Inv, BackTapped PROVE Inv'
  <1> USE SessionAssumption DEF server, client, forms
  <1>1. /\ stack \in Seq(ViewType) /\ stack # <<>> /\ stack' = Front(stack)
        /\ UNCHANGED <<server, client, screen, forms, listening, calls, crash, taps, faults>>
    BY DEF Inv, TypeOK, ViewType, BackTapped, OnTop
  <1>2. stack' \in Seq(ViewType) /\ Range(stack') \subseteq Range(stack)
    BY <1>1, FrontViews
  <1>3. TypeOK'
    BY <1>1, <1>2 DEF Inv, TypeOK, ViewType, BackTapped, Tap
  <1>4. Launching'
    BY <1>1 DEF Inv, Launching
  <1>5. \A w \in Range(stack') : ViewPlaced(w)'
    BY <1>1, <1>2 DEF Inv, ViewPlaced
  <1>6. \A d \in calls' : CallPlaced(d)'
    BY <1>1, <1>2 DEF Inv, CallPlaced
  <1> QED
    BY <1>1, <1>3, <1>4, <1>5, <1>6 DEF Inv, ProfileIsComplete, ModelsNamed

LEMMA RegisterTappedInv ==
  ASSUME Inv, NEW u \in Users, RegisterTapped(u) PROVE Inv'
  <1> USE SessionAssumption DEF server, client, forms
  <1> DEFINE c == Call("createUser", u, form, None)
  <1>1. c \in CallType /\ c.kind = "createUser" /\ c.of = form
    BY DEF Inv, TypeOK, Call, CallType, CallKinds
  <1>2. stack # <<>> /\ calls' = calls \cup {c} /\ form \in 1 .. form
    <2>1. stack # <<>> /\ calls' = calls \cup {c} /\ Last(stack).of = form
          /\ Last(stack).kind = "credentials" /\ stack \in Seq(ViewType)
      BY DEF Inv, TypeOK, ViewType, RegisterTapped, OnTop
    <2> QED
      BY <2>1, RangeViews DEF Inv, ViewPlaced, Forms
  <1>3. TypeOK'
    BY <1>1, <1>2 DEF Inv, TypeOK, CallType, RegisterTapped, Tap
  <1>4. Launching'
    BY <1>1, <1>2 DEF Inv, Launching, RegisterTapped
  <1>5. \A d \in calls' : CallPlaced(d)'
    BY <1>1, <1>2 DEF Inv, CallPlaced, RegisterTapped, Registering, SigningIn
  <1> QED
    BY <1>3, <1>4, <1>5 DEF Inv, RegisterTapped, ProfileIsComplete, ViewPlaced, ModelsNamed

LEMMA CreateUserAnsweredInv ==
  ASSUME Inv, NEW c \in calls, CreateUserAnswered(c) PROVE Inv'
  <1> USE SessionAssumption DEF server, client, forms
  <1>1. /\ c \in CallType /\ c.kind = "createUser" /\ stack \in Seq(ViewType)
        /\ c.of \in 1 .. MaxForms /\ c.of \in 1 .. form
    BY DEF Inv, TypeOK, ViewType, CallType, CallPlaced, CreateUserAnswered, Registering
  <1>2. CASE c.user \notin accounts
    <2> DEFINE n == [c EXCEPT !.kind = "upload"]
    <2>1. n \in CallType /\ n.kind = "upload" /\ n.user = c.user /\ n.of = c.of
      BY <1>1 DEF CallType, CallKinds
    <2>2. /\ accounts' = accounts \cup {c.user} /\ auth' = c.user /\ auth' # None
          /\ model' = [model EXCEPT ![c.of].id = c.user]
          /\ busy' = [busy EXCEPT ![c.of] = TRUE]
          /\ calls' = (calls \ {c}) \cup {n}
          /\ UNCHANGED <<stack, avatars, profile, current, screen, form, listening, crash,
                         hasty, taps, faults>>
      BY <1>1, <1>2 DEF CreateUserAnswered, Answer, CallType
    <2>3. TypeOK'
      BY ZenonT(60), <1>1, <2>1, <2>2 DEF Inv, TypeOK, CallType
    <2>4. Launching'
      BY <1>1, <2>1, <2>2 DEF Inv, Launching
    <2>5. \A w \in Range(stack') : ViewPlaced(w)'
      BY <2>2 DEF Inv, ViewPlaced
    <2>6. \A d \in calls' : CallPlaced(d)'
      BY <1>1, <2>1, <2>2 DEF Inv, CallPlaced, Registering, SigningIn
    <2>7. ModelsNamed'
      BY <1>1, <2>2 DEF Inv, TypeOK, ModelsNamed
    <2> QED
      BY <2>2, <2>3, <2>4, <2>5, <2>6, <2>7 DEF Inv, ProfileIsComplete
  <1>3. CASE c.user \in accounts
    <2> DEFINE v == View("error", None, 0)
    <2>1. v \in ViewType /\ v.kind = "error"
      BY ViewFields DEF Screens
    <2>2. /\ Present("credentials", c.of, v) /\ calls' = calls \ {c}
          /\ UNCHANGED <<accounts, auth, busy, model, avatars, profile, current, screen,
                         form, listening, crash, hasty, taps, faults>>
      BY <1>3 DEF CreateUserAnswered, Answer
    <2>3. /\ stack' \in Seq(ViewType)
          /\ stack' = <<>> <=> stack = <<>>
          /\ \A w \in Range(stack') : w \in Range(stack) \/ w = v
      BY <1>1, <2>1, <2>2, PresentViews
    <2>4. TypeOK'
      BY <2>2, <2>3 DEF Inv, TypeOK, CallType, ViewType
    <2>5. Launching'
      BY <2>2, <2>3 DEF Inv, Launching
    <2>6. \A w \in Range(stack') : ViewPlaced(w)'
      BY <2>1, <2>2, <2>3 DEF Inv, ViewPlaced, Forms
    <2>7. \A d \in calls' : CallPlaced(d)'
      BY <2>1, <2>2, <2>3 DEF Inv, CallPlaced, Forms
    <2> QED
      BY <2>2, <2>4, <2>5, <2>6, <2>7 DEF Inv, ProfileIsComplete, ModelsNamed
  <1> QED
    BY <1>2, <1>3

LEMMA UploadAnsweredInv ==
  ASSUME Inv, NEW c \in calls, UploadAnswered(c) PROVE Inv'
  <1> USE SessionAssumption DEF client
  <1> DEFINE n == [c EXCEPT !.kind = "saveProfile", !.user = model[c.of].id, !.pic = c.user]
  <1>1. /\ c \in CallType /\ c.kind = "upload"
        /\ c.of \in 1 .. MaxForms /\ c.of \in 1 .. form
        /\ avatars' = avatars \cup {c.user}
        /\ UNCHANGED <<accounts, profile, client, stack, screen, form, busy, listening, hasty,
                       taps, faults>>
    BY DEF Inv, TypeOK, CallType, CallPlaced, UploadAnswered, Registering
  <1>2. /\ model' \in [1 .. MaxForms -> [id : Users \cup {None}, avatar : Users \cup {None}]]
        /\ \A f \in 1 .. MaxForms : model'[f].id = model[f].id
    BY <1>1 DEF Inv, TypeOK, UploadAnswered, CallType
  <1>3. ModelsNamed'
    BY <1>1, <1>2 DEF Inv, ModelsNamed
  <1>4. CASE model[c.of].id = None
    <2>1. calls' = calls \ {c} /\ crash' = "path"
      BY <1>4 DEF UploadAnswered, Answer
    <2>2. TypeOK'
      BY <1>1, <1>2, <2>1 DEF Inv, TypeOK, CallType
    <2>3. Launching'
      BY <1>1, <2>1 DEF Inv, Launching
    <2>4. \A w \in Range(stack') : ViewPlaced(w)'
      BY <1>1 DEF Inv, ViewPlaced
    <2>5. \A d \in calls' : CallPlaced(d)'
      BY <1>1, <2>1 DEF Inv, CallPlaced
    <2> QED
      BY <1>1, <1>3, <2>2, <2>3, <2>4, <2>5 DEF Inv, ProfileIsComplete
  <1>5. CASE model[c.of].id # None
    <2>1. model[c.of].id \in accounts /\ model[c.of].id \in Users
      BY <1>1, <1>5 DEF Inv, TypeOK, ModelsNamed
    <2>2. /\ n \in CallType /\ n.kind = "saveProfile" /\ n.user \in accounts
          /\ n.of = c.of /\ n.pic = c.user
      BY <1>1, <2>1 DEF CallType, CallKinds
    <2>3. calls' = (calls \ {c}) \cup {n} /\ crash' = crash
      BY <1>5 DEF UploadAnswered, Answer
    <2>4. TypeOK'
      BY <1>1, <1>2, <2>2, <2>3 DEF Inv, TypeOK, CallType
    <2>5. Launching'
      BY <1>1, <2>2, <2>3 DEF Inv, Launching
    <2>6. \A w \in Range(stack') : ViewPlaced(w)'
      BY <1>1 DEF Inv, ViewPlaced
    <2>7. \A d \in calls' : CallPlaced(d)'
      BY <1>1, <2>2, <2>3 DEF Inv, CallPlaced, Registering, SigningIn
    <2> QED
      BY <1>1, <1>3, <2>4, <2>5, <2>6, <2>7 DEF Inv, ProfileIsComplete
  <1> QED
    BY <1>4, <1>5

LEMMA SaveProfileAnsweredInv ==
  ASSUME Inv, NEW c \in calls, SaveProfileAnswered(c) PROVE Inv'
  <1> USE SessionAssumption DEF client, forms
  <1> DEFINE v == View("registered", c.user, c.of)
  <1>1. /\ c \in CallType /\ c.kind = "saveProfile" /\ stack \in Seq(ViewType)
        /\ c.user \in accounts /\ c.pic \in avatars /\ c.pic # None
        /\ profile' = [profile EXCEPT ![c.user] = c.pic]
        /\ calls' = calls \ {c} /\ Present("credentials", c.of, v)
        /\ UNCHANGED <<accounts, avatars, client, screen, forms, listening, hasty, taps, faults>>
    BY DEF Inv, TypeOK, ViewType, CallType, CallPlaced, SaveProfileAnswered, Answer
  <1>2. v \in ViewType /\ v.kind = "registered" /\ v.user = c.user
    BY <1>1, ViewFields DEF CallType, Screens
  <1>3. /\ stack' \in Seq(ViewType)
        /\ stack' = <<>> <=> stack = <<>>
        /\ \A w \in Range(stack') :
             \/ w \in Range(stack)
             \/ w = v /\ \E x \in Range(stack) : x.kind = "credentials" /\ x.of = c.of
    BY <1>1, <1>2, PresentViews
  <1>4. crash' \in {"no", "listener", "currentUser", "path"}
    BY DEF Inv, TypeOK, SaveProfileAnswered, Added
  <1>5. TypeOK'
    BY <1>1, <1>3, <1>4 DEF Inv, TypeOK, CallType, ViewType
  <1>6. ProfileIsComplete'
    BY <1>1 DEF Inv, TypeOK, ProfileIsComplete
  <1>7. Launching'
    BY <1>1, <1>3 DEF Inv, Launching
  <1>8. \A w \in Range(stack') : ViewPlaced(w)'
    <2>1. \A w \in Range(stack) : ViewPlaced(w)'
      BY <1>1 DEF Inv, TypeOK, ViewPlaced
    <2>2. (\E x \in Range(stack) : x.kind = "credentials" /\ x.of = c.of) => auth # None
      BY <1>1 DEF Inv, CallPlaced, Forms
    <2>3. c.user \in Users /\ profile'[c.user] # None /\ auth' = auth
      BY <1>1 DEF Inv, TypeOK, CallType
    <2> QED
      BY <1>2, <1>3, <2>1, <2>2, <2>3 DEF ViewPlaced, Forms
  <1>9. \A d \in calls' : CallPlaced(d)'
    BY <1>1, <1>2, <1>3 DEF Inv, CallPlaced, Forms
  <1> QED
    BY <1>1, <1>5, <1>6, <1>7, <1>8, <1>9 DEF Inv, ModelsNamed

LEMMA SignOutInv ==
  ASSUME Inv, SignOut PROVE Inv'
  <1> USE SessionAssumption DEF server, forms
  <1> DEFINE v == View("login", None, screen')
  <1>1. /\ screen \in Nat /\ screen' = screen + 1 /\ stack # <<>> /\ auth' = None
        /\ UNCHANGED <<server, current, forms, listening, calls, crash, taps, faults>>
    BY DEF Inv, TypeOK, SignOut, Shows
  <1>2. v \in ViewType /\ v.kind = "login" /\ v.of = screen'
    BY <1>1, ViewFields DEF Screens
  <1>3. stack' \in Seq(ViewType) /\ Range(stack') = {v}
    BY <1>2, OneView DEF SignOut
  <1>4. TypeOK'
    BY <1>1, <1>3 DEF Inv, TypeOK, ViewType, SignOut, Tap
  <1>5. Launching'
    BY <1>1 DEF Inv, Launching
  <1>6. \A w \in Range(stack') : ViewPlaced(w)'
    BY <1>2, <1>3 DEF ViewPlaced, Forms
  <1>7. \A d \in calls' : CallPlaced(d)'
    BY <1>1, <1>2, <1>3 DEF Inv, TypeOK, CallPlaced, Forms, SigningIn
  <1> QED
    BY <1>1, <1>4, <1>5, <1>6, <1>7 DEF Inv, ProfileIsComplete, ModelsNamed

LEMMA OtherRegistersInv ==
  ASSUME Inv, NEW u \in Users, OtherRegisters(u) PROVE Inv'
  <1> USE SessionAssumption DEF client, forms
  <1>1. /\ accounts' = accounts \cup {u} /\ avatars' = avatars \cup {u} /\ u # None
        /\ profile' = [profile EXCEPT ![u] = u]
        /\ UNCHANGED <<client, stack, screen, forms, listening, calls, hasty, taps, faults>>
    BY DEF OtherRegisters
  <1>2. TypeOK'
    BY <1>1 DEF Inv, TypeOK, OtherRegisters, Added
  <1>3. ProfileIsComplete'
    BY <1>1 DEF Inv, TypeOK, ProfileIsComplete
  <1>4. \A w \in Range(stack') : ViewPlaced(w)'
    BY <1>1 DEF Inv, TypeOK, ViewPlaced
  <1>5. \A d \in calls' : CallPlaced(d)'
    BY <1>1 DEF Inv, CallPlaced
  <1> QED
    BY <1>1, <1>2, <1>3, <1>4, <1>5 DEF Inv, Launching, ModelsNamed

LEMMA CallFailsInv ==
  ASSUME Inv, NEW c \in calls, CallFails(c) PROVE Inv'
  <1> USE SessionAssumption DEF server, client, forms
  <1>1. /\ c \in CallType /\ stack \in Seq(ViewType) /\ calls' = calls \ {c}
        /\ UNCHANGED <<server, client, screen, forms, listening, crash, hasty, taps>>
    BY DEF Inv, TypeOK, ViewType, CallType, CallFails
  <1>2. /\ stack' \in Seq(ViewType)
        /\ \A w \in Range(stack') :
             w \in Range(stack) \/ w.kind = "error" \/ (w.kind = "login" /\ w.of = screen)
        /\ ~ (\E d \in calls' : d.kind = "launch")
    <2>1. CASE c.kind = "launch"
      <3> DEFINE login == View("login", None, c.of)
      <3>1. c.of = screen /\ calls' = {}
        BY <1>1, <2>1 DEF Inv, Launching
      <3>2. login \in ViewType /\ login.kind = "login" /\ login.of = screen
        BY <1>1, <3>1, ViewFields DEF CallType, Screens
      <3>3. stack' = <<login>>
        BY <2>1 DEF CallFails
      <3> QED
        BY <3>1, <3>2, <3>3, OneView
    <2>2. CASE c.kind # "launch"
      <3> DEFINE error == View("error", None, 0)
      <3>1. error \in ViewType /\ error.kind = "error"
        BY ViewFields DEF Screens
      <3>2. PICK kind : Present(kind, c.of, error)
        BY <2>2 DEF CallFails
      <3>3. ~ (\E d \in calls : d.kind = "launch")
        BY <2>2 DEF Inv, Launching
      <3> QED
        BY <1>1, <3>1, <3>2, <3>3, PresentViews
    <2> QED
      BY <2>1, <2>2
  <1>3. TypeOK'
    BY SMTT(30), <1>1, <1>2 DEF Inv, TypeOK, CallType, ViewType, CallFails
  <1>4. Launching'
    BY <1>2 DEF Launching
  <1>5. \A w \in Range(stack') : ViewPlaced(w)'
    BY <1>1, <1>2 DEF Inv, ViewPlaced, Forms
  <1>6. \A d \in calls' : CallPlaced(d)'
    BY <1>1, <1>2 DEF Inv, CallPlaced, Forms
  <1> QED
    BY <1>1, <1>3, <1>4, <1>5, <1>6 DEF Inv, ProfileIsComplete, ModelsNamed

LEMMA RelaunchInv ==
  ASSUME Inv, Relaunch PROVE Inv'
  <1> USE SessionAssumption DEF forms
  <1>1. /\ screen \in Nat /\ screen' = screen + 1 /\ current' = None /\ listening' = FALSE
        /\ faults' \in 0 .. MaxFaults
        /\ UNCHANGED <<auth, forms, crash, hasty, taps>>
    BY DEF Inv, TypeOK, Relaunch
  <1>2. /\ accounts \subseteq accounts' /\ accounts' \subseteq Users
        /\ avatars \subseteq avatars' /\ avatars' \subseteq Users
        /\ profile' \in [Users -> Users \cup {None}]
        /\ ProfileIsComplete'
    <2>1. PICK done \in SUBSET calls :
            LET saved(u) == {c \in done : c.kind = "saveProfile" /\ c.user = u}
            IN  /\ accounts' = accounts \cup {c.user : c \in {b \in done : b.kind = "createUser"}}
                /\ avatars' = avatars \cup {c.user : c \in {b \in done : b.kind = "upload"}}
                /\ profile' \in {p \in [Users -> Users \cup {None}] :
                                   \A u \in Users :
                                     \/ saved(u) = {} /\ p[u] = profile[u]
                                     \/ \E c \in saved(u) : p[u] = c.pic}
      BY DEF Relaunch
    <2>2. \A c \in done : c \in calls /\ c \in CallType
      BY DEF Inv, TypeOK, CallType
    <2>3. /\ accounts \subseteq accounts' /\ accounts' \subseteq Users
          /\ avatars \subseteq avatars' /\ avatars' \subseteq Users
      BY <2>1, <2>2 DEF Inv, TypeOK, CallType
    <2>4. ASSUME NEW u \in Users
          PROVE  \/ profile'[u] = profile[u]
                 \/ \E c \in calls : c.kind = "saveProfile" /\ c.user = u /\ profile'[u] = c.pic
      BY <2>1, <2>2
    <2>5. ProfileIsComplete'
      BY <2>3, <2>4 DEF Inv, ProfileIsComplete, CallPlaced
    <2> QED
      BY <2>1, <2>3, <2>5
  <1>3. CASE auth = None
    <2> DEFINE v == View("login", None, screen')
    <2>1. v \in ViewType /\ v.kind = "login" /\ v.of = screen'
      BY <1>1, ViewFields DEF Screens
    <2>2. stack' \in Seq(ViewType) /\ Range(stack') = {v} /\ calls' = {}
      <3>1. stack' = <<v>> /\ calls' = {}
        BY <1>3 DEF Relaunch
      <3> QED
        BY <2>1, <3>1, OneView
    <2>3. TypeOK'
      <3>1. /\ auth' \in Users \cup {None} /\ current' \in Users \cup {None}
            /\ screen' \in Nat /\ form' \in 0 .. MaxForms
            /\ model' \in [1 .. MaxForms -> [id : Users \cup {None}, avatar : Users \cup {None}]]
        BY <1>1 DEF Inv, TypeOK
      <3>2. /\ busy' \in [1 .. MaxForms -> BOOLEAN] /\ listening' \in BOOLEAN
            /\ crash' \in {"no", "listener", "currentUser", "path"} /\ hasty' \in BOOLEAN
            /\ taps' \in 0 .. MaxTaps
        BY <1>1 DEF Inv, TypeOK
      <3> QED
        BY <1>1, <1>2, <2>2, <3>1, <3>2 DEF TypeOK, ViewType
    <2>4. \A w \in Range(stack') : ViewPlaced(w)'
      BY <2>1, <2>2 DEF ViewPlaced, Forms
    <2> QED
      BY <1>1, <1>2, <2>2, <2>3, <2>4 DEF Inv, Launching, ModelsNamed
  <1>4. CASE auth # None
    <2> DEFINE c == Call("launch", auth, screen', None)
    <2>1. c \in CallType /\ c.kind = "launch" /\ c.of = screen'
      BY <1>1, <1>4 DEF Inv, TypeOK, Call, CallType, CallKinds
    <2>2. stack' = <<>> /\ stack' \in Seq(ViewType) /\ Range(stack') = {} /\ calls' = {c}
      BY <1>4, NoView DEF Relaunch
    <2>3. TypeOK'
      BY <1>1, <1>2, <2>1, <2>2 DEF Inv, TypeOK, ViewType, CallType
    <2>4. \A d \in calls' : CallPlaced(d)'
      BY <1>1, <2>1, <2>2 DEF CallPlaced, Registering
    <2> QED
      BY <1>1, <1>2, <1>4, <2>1, <2>2, <2>3, <2>4 DEF Inv, Launching, ModelsNamed
  <1> QED
    BY <1>3, <1>4

LEMMA InvNext == ASSUME Inv, [Next]_vars PROVE Inv'
  <1>1. CASE UNCHANGED vars
    BY <1>1 DEF Inv, TypeOK, ProfileIsComplete, Launching, ViewPlaced, CallPlaced, ModelsNamed,
                vars, server, client, forms
  <1>2. CASE \E u \in Users : LoginTapped(u) \/ RegisterTapped(u) \/ OtherRegisters(u)
    BY <1>2, LoginTappedInv, RegisterTappedInv, OtherRegistersInv
  <1>3. CASE \E c \in calls : Answered(c) \/ CallFails(c)
    BY <1>3, LaunchAnsweredInv, SignInAnsweredInv, UserDataAnsweredInv, CreateUserAnsweredInv,
       UploadAnsweredInv, SaveProfileAnsweredInv, CallFailsInv DEF Answered
  <1>4. CASE AlertConfirmed \/ RegistrationOpened \/ NextTapped \/ BackTapped
    BY <1>4, AlertConfirmedInv, RegistrationOpenedInv, NextTappedInv, BackTappedInv
  <1>5. CASE SignOut \/ Relaunch
    BY <1>5, SignOutInv, RelaunchInv
  <1>6. CASE OperationStarted
    BY <1>6 DEF Inv, TypeOK, ProfileIsComplete, Launching, ViewPlaced, CallPlaced, ModelsNamed,
                OperationStarted, server, client, forms
  <1> QED
    BY <1>1, <1>2, <1>3, <1>4, <1>5, <1>6 DEF Next

(* The inductive invariant holds in every behaviour: what SceneDelegate    *)
(* and the forms put on the stack, or send, is good for what follows.      *)
THEOREM InvAlways == Spec => []Inv
  BY InvInit, InvNext, PTL DEF Spec

-----------------------------------------------------------------------------
(* What follows from it.                                                   *)

(* Every reachable state has its types, every profile is of an account and *)
(* names a photo that has arrived, and a main screen has a profile and     *)
(* somebody signed in behind it, whatever is tapped while calls are under  *)
(* way and whenever the app is killed.                                     *)
THEOREM ProfilesTheorem == Spec => []Profiles
  <1>1. ASSUME Inv PROVE Profiles
    <2>1. ASSUME NEW i \in DOMAIN stack PROVE stack[i] \in Range(stack)
      BY DEF Range
    <2>2. MainHasProfile
      BY <1>1, <2>1 DEF Inv, ViewPlaced, MainHasProfile
    <2> QED
      BY <1>1, <2>2 DEF Inv, Profiles
  <1> QED
    BY <1>1, InvAlways, PTL

LEMMA AbandonedStays ==
  ASSUME Inv, [Next]_vars, NEW u \in Users, Abandoned(u)
  PROVE  Abandoned(u)'
  <1> USE SessionAssumption DEF server, client, forms, Inv, TypeOK
  (* A step that writes neither the profile of u nor a call about it.       *)
  <1> DEFINE Harmless ==
        /\ u \in accounts' /\ profile'[u] = profile[u]
        /\ \A f \in 1 .. MaxForms : model'[f].id = u => model[f].id = u
        /\ \A d \in calls' :
             \/ d \in calls
             \/ d.kind \notin {"saveProfile", "upload"}
  <1>1. ASSUME Harmless PROVE Abandoned(u)'
    <2>1. \A c \in calls : c.kind = "upload" => c.of \in 1 .. MaxForms
      BY DEF CallPlaced, Registering
    <2> QED
      BY <1>1, <2>1 DEF Abandoned
  <1>2. CASE UNCHANGED vars
    BY <1>2 DEF Abandoned, vars
  <1>3. ASSUME NEW v \in Users, LoginTapped(v) \/ RegisterTapped(v) \/ OtherRegisters(v)
        PROVE  Abandoned(u)'
    BY <1>1, <1>3 DEF Abandoned, LoginTapped, RegisterTapped, OtherRegisters, Call
  <1>4. ASSUME NEW c \in calls, LaunchAnswered(c) \/ SignInAnswered(c) \/ UserDataAnswered(c)
        PROVE  Abandoned(u)'
    BY <1>1, <1>4 DEF Abandoned, LaunchAnswered, SignInAnswered, UserDataAnswered, Answer
  <1>5. ASSUME NEW c \in calls, CreateUserAnswered(c) PROVE Abandoned(u)'
    <2>1. c \in CallType /\ c.of \in 1 .. MaxForms
      BY <1>5 DEF CallType, CallPlaced, Registering, CreateUserAnswered
    <2>2. CASE c.user \notin accounts
      <3> DEFINE n == [c EXCEPT !.kind = "upload"]
      <3>1. /\ c.user # u /\ n.user = c.user /\ n.of = c.of /\ n.kind = "upload"
            /\ calls' = (calls \ {c}) \cup {n} /\ accounts' = accounts \cup {c.user}
            /\ model' = [model EXCEPT ![c.of].id = c.user] /\ profile' = profile
        BY <1>5, <2>1, <2>2 DEF Abandoned, CreateUserAnswered, Answer, CallType
      <3>2. \A f \in 1 .. MaxForms : model'[f].id = u => model[f].id = u
        BY <2>1, <3>1
      <3>3. model'[c.of].id # u
        BY <2>1, <3>1
      <3>4. \A d \in calls : d.kind = "upload" => d.of \in 1 .. MaxForms
        BY DEF CallPlaced, Registering
      <3> QED
        BY <3>1, <3>2, <3>3, <3>4 DEF Abandoned
    <2>3. CASE c.user \in accounts
      BY <1>1, <1>5, <2>3 DEF Abandoned, CreateUserAnswered, Answer
    <2> QED
      BY <2>2, <2>3
  <1>6. ASSUME NEW c \in calls, UploadAnswered(c) PROVE Abandoned(u)'
    <2> DEFINE n == [c EXCEPT !.kind = "saveProfile", !.user = model[c.of].id, !.pic = c.user]
    <2>1. /\ c \in CallType /\ c.of \in 1 .. MaxForms /\ model[c.of].id # u
          /\ model' = [model EXCEPT ![c.of].avatar = c.user]
          /\ accounts' = accounts /\ profile' = profile
      BY <1>6 DEF Abandoned, CallType, CallPlaced, Registering, UploadAnswered
    <2>2. \A f \in 1 .. MaxForms : model'[f].id = model[f].id
      BY <2>1
    <2>3. \A d \in calls' : d \in calls \/ (d.kind = "saveProfile" /\ d.user # u)
      <3>1. n.kind = "saveProfile" /\ n.user = model[c.of].id
        BY <2>1 DEF CallType
      <3> QED
        BY ZenonT(60), <1>6, <2>1, <3>1 DEF UploadAnswered, Answer
    <2>4. \A d \in calls : d.kind = "upload" => d.of \in 1 .. MaxForms
      BY DEF CallPlaced, Registering
    <2> QED
      BY <2>1, <2>2, <2>3, <2>4 DEF Abandoned
  <1>7. ASSUME NEW c \in calls, SaveProfileAnswered(c) \/ CallFails(c) PROVE Abandoned(u)'
    BY <1>1, <1>7 DEF Abandoned, SaveProfileAnswered, CallFails, Answer
  <1>8. CASE AlertConfirmed \/ RegistrationOpened \/ BackTapped
    BY <1>1, <1>8 DEF Abandoned, AlertConfirmed, RegistrationOpened, BackTapped, Call
  <1>11. CASE NextTapped
    <2>1. \A f \in 1 .. MaxForms : model'[f].id = u => model[f].id = u
      BY <1>11 DEF NextTapped, NoModel
    <2> QED
      BY <1>1, <1>11, <2>1 DEF Abandoned, NextTapped
  <1>9. CASE SignOut \/ OperationStarted
    BY <1>1, <1>9 DEF Abandoned, SignOut, OperationStarted
  <1>10. CASE Relaunch
    BY <1>1, <1>10 DEF Abandoned, Relaunch, Call
  <1> QED
    BY <1>2, <1>3, <1>4, <1>5, <1>6, <1>7, <1>8, <1>9, <1>10, <1>11 DEF Next, Answered

(* An account whose photo or profile is no longer under way never gets a   *)
(* profile: no step of the app or of anybody else leads back.              *)
THEOREM NoWayBackTheorem == Spec => NoWayBack
  <1>1. ASSUME Inv, [Next]_vars, NEW u \in Users, Abandoned(u) PROVE Abandoned(u)'
    BY <1>1, AbandonedStays
  <1>2. ASSUME Inv, [Next]_vars PROVE \A u \in Users : Abandoned(u) => Abandoned(u)'
    BY <1>1, <1>2
  <1> QED
    BY <1>2, InvAlways, PTL DEF Spec, NoWayBack

-----------------------------------------------------------------------------
(* A user who waits for every answer: the invariant behind SessionAgrees.  *)

Base == {"login", "form", "credentials"}
Welcome == {"authorized", "registered", "main"}

(* What lies on what: a registration ends on the fourth screen, and only   *)
(* screens that have not been left lie under another.                      *)
Piled(s) ==
  \A i \in DOMAIN s :
    /\ s[i].kind = "credentials" => i > 1
    /\ s[i].kind = "registered" => i > 2
    /\ i < Len(s) => s[i].kind \in Base

(* The one call is of whoever is signed in, and under its own name.        *)
CallAgrees(c) ==
  /\ c.kind = "upload" => c.user = model[c.of].id
  /\ c.kind = "saveProfile" => c.pic = c.user
  /\ c.kind \in {"upload", "saveProfile", "getUserData", "launch"} => auth = c.user

(* Whoever is welcomed is the one who is signed in.                        *)
TopAgrees ==
  stack # <<>> =>
    LET top == Last(stack)
    IN  /\ top.kind \in Welcome => auth = top.user
        /\ top.kind = "main" => current = top.user \/ Len(stack) > 2

Patient ==
  /\ \A c, d \in calls : c = d
  /\ calls # {} => stack = <<>> \/ Last(stack).kind \in Base
  /\ \A c \in calls : CallAgrees(c)
  /\ TopAgrees
  /\ \A u \in Users : profile[u] \in {None, u}
  /\ crash # "path"

AgreeInv == Inv /\ Piled(stack) /\ (~hasty => Patient)

LEMMA PiledOne == ASSUME NEW v \in ViewType, v.kind \in {"login", "main"} PROVE Piled(<<v>>)
  BY DEF Piled

LEMMA PiledNone == Piled(<<>>)
  BY DEF Piled

LEMMA PiledFront ==
  ASSUME NEW s \in Seq(ViewType), s # <<>>, Piled(s)
  PROVE  /\ Piled(Front(s))
         /\ Front(s) # <<>> => Last(Front(s)).kind \in Base
         /\ Last(s).kind = "registered" => Len(Front(s)) > 1
  <1>1. /\ Len(s) \in Nat /\ Len(s) > 0 /\ DOMAIN s = 1 .. Len(s)
        /\ Front(s) \in Seq(ViewType) /\ Len(Front(s)) = Len(s) - 1
        /\ DOMAIN Front(s) = 1 .. Len(s) - 1
        /\ \A i \in 1 .. Len(s) - 1 : Front(s)[i] = s[i]
    BY FrontViews
  <1>2. Front(s) # <<>> => Len(s) - 1 \in 1 .. Len(s) - 1
    BY <1>1
  <1> QED
    BY <1>1, <1>2 DEF Piled, Last

LEMMA PiledAppend ==
  ASSUME NEW s \in Seq(ViewType), Piled(s), NEW v \in ViewType,
         s # <<>> => Last(s).kind \in Base,
         v.kind = "credentials" => s # <<>>,
         v.kind = "registered" => s # <<>> /\ Last(s).kind = "credentials"
  PROVE  Piled(Append(s, v))
  <1>1. /\ Len(s) \in Nat /\ DOMAIN s = 1 .. Len(s) /\ (s # <<>> => Len(s) \in 1 .. Len(s))
        /\ Len(Append(s, v)) = Len(s) + 1 /\ DOMAIN Append(s, v) = 1 .. Len(s) + 1
        /\ Append(s, v)[Len(s) + 1] = v
        /\ \A i \in 1 .. Len(s) : Append(s, v)[i] = s[i]
    OBVIOUS
  <1> QED
    BY <1>1 DEF Piled, Last

(* present(_:animated:), once more: the stack is left alone or gets a top. *)
LEMMA PresentPiled ==
  ASSUME NEW kind \in Base, NEW of, NEW v \in ViewType, stack \in Seq(ViewType), Piled(stack),
         Present(kind, of, v), v.kind # "credentials",
         v.kind = "registered" => kind = "credentials"
  PROVE  /\ Piled(stack')
         /\ \/ stack' = stack
            \/ stack' # <<>> /\ Last(stack') = v
  <1>1. CASE OnTop(kind, of)
    <2>1. stack # <<>> /\ Last(stack).kind = kind /\ stack' = Append(stack, v)
      BY <1>1 DEF Present, OnTop
    <2> QED
      BY <2>1, PiledAppend, AppendViews
  <1>2. CASE ~OnTop(kind, of)
    BY <1>2 DEF Present
  <1> QED
    BY <1>1, <1>2

LEMMA CallFields ==
  ASSUME NEW kind, NEW user, NEW of, NEW pic
  PROVE  /\ Call(kind, user, of, pic).kind = kind
         /\ Call(kind, user, of, pic).user = user
  BY DEF Call

LEMMA AgreeInit == ASSUME Init PROVE AgreeInv
  <1>1. View("login", None, 1) \in ViewType /\ View("login", None, 1).kind = "login"
    BY ViewFields DEF Screens
  <1>2. Piled(stack) /\ stack # <<>> /\ Last(stack).kind = "login"
    BY <1>1, PiledOne, OneView DEF Init
  <1>3. Patient
    BY <1>2 DEF Init, Patient, TopAgrees, Welcome
  <1> QED
    BY <1>2, <1>3, InvInit DEF AgreeInv

(* What a patient user taps: there is no call yet.                         *)
LEMMA TapAgrees ==
  ASSUME AgreeInv, Inv', Next,
         \/ \E u \in Users : LoginTapped(u) \/ RegisterTapped(u)
         \/ RegistrationOpened \/ NextTapped \/ BackTapped \/ SignOut
  PROVE  AgreeInv'
  <1> USE SessionAssumption DEF server, client, forms
  <1>1. /\ stack \in Seq(ViewType) /\ stack # <<>> /\ screen \in Nat /\ form \in Nat
    BY DEF AgreeInv, Inv, TypeOK, ViewType, LoginTapped, RegisterTapped, RegistrationOpened,
           NextTapped, BackTapped, SignOut, OnTop, Shows
  <1>2. ~hasty' => ~hasty /\ calls = {}
    BY DEF LoginTapped, RegisterTapped, RegistrationOpened, NextTapped, BackTapped, SignOut, Tap
  <1>3. UNCHANGED <<server, current, crash>>
    BY DEF LoginTapped, RegisterTapped, RegistrationOpened, NextTapped, BackTapped, SignOut
  <1>4. /\ Piled(stack')
        /\ \/ stack' = stack /\ auth' = auth
           \/ stack' # <<>> => Last(stack').kind \in Base
    <2>1. CASE \E u \in Users : LoginTapped(u) \/ RegisterTapped(u)
      BY <2>1 DEF AgreeInv, LoginTapped, RegisterTapped
    <2>2. CASE RegistrationOpened
      <3> DEFINE v == View("form", None, form')
      <3>1. v \in ViewType /\ v.kind = "form" /\ Last(stack).kind = "login"
        BY <1>1, <2>2, ViewFields DEF Screens, RegistrationOpened, OnTop
      <3>2. stack' = Append(stack, v)
        BY <2>2 DEF RegistrationOpened
      <3> QED
        BY <1>1, <3>1, <3>2, PiledAppend, AppendViews DEF AgreeInv, Base
    <2>3. CASE NextTapped
      <3> DEFINE v == View("credentials", None, form)
      <3>1. v \in ViewType /\ v.kind = "credentials" /\ Last(stack).kind = "form"
        BY <1>1, <2>3, ViewFields DEF Screens, NextTapped, OnTop
      <3>2. stack' = Append(stack, v)
        BY <2>3 DEF NextTapped
      <3> QED
        BY <1>1, <3>1, <3>2, PiledAppend, AppendViews DEF AgreeInv, Base
    <2>4. CASE BackTapped
      BY <1>1, <2>4, PiledFront DEF AgreeInv, BackTapped
    <2>5. CASE SignOut
      <3> DEFINE v == View("login", None, screen')
      <3>1. v \in ViewType /\ v.kind = "login" /\ stack' = <<v>>
        BY <1>1, <2>5, ViewFields DEF Screens, SignOut
      <3> QED
        BY <3>1, PiledOne, OneView DEF Base
    <2> QED
      BY <2>1, <2>2, <2>3, <2>4, <2>5
  <1>5. ~hasty' => TopAgrees'
    BY <1>2, <1>3, <1>4 DEF AgreeInv, Patient, TopAgrees, Base, Welcome
  <1>6. ASSUME ~hasty' PROVE \A c, d \in calls' : c = d /\ CallAgrees(c)'
    <2>1. CASE \E u \in Users : LoginTapped(u) \/ RegisterTapped(u)
      <3>1. PICK u \in Users : LoginTapped(u) \/ RegisterTapped(u)
        BY <2>1
      <3>2. PICK c : calls' = {c} /\ c.kind \in {"signIn", "createUser"}
        <4>1. calls = {}
          BY <1>2, <1>6
        <4>2. CASE LoginTapped(u)
          BY <4>1, <4>2, CallFields DEF LoginTapped
        <4>3. CASE RegisterTapped(u)
          BY <4>1, <4>3, CallFields DEF RegisterTapped
        <4> QED
          BY <3>1, <4>2, <4>3
      <3> QED
        BY <3>2 DEF CallAgrees
    <2>2. CASE ~ \E u \in Users : LoginTapped(u) \/ RegisterTapped(u)
      BY <1>2, <1>6, <2>2 DEF RegistrationOpened, NextTapped, BackTapped, SignOut
    <2> QED
      BY <2>1, <2>2
  <1>7. ASSUME calls' # {}, ~hasty' PROVE stack' = <<>> \/ Last(stack').kind \in Base
    BY <1>2, <1>4, <1>7
    DEF LoginTapped, RegisterTapped, RegistrationOpened, NextTapped, BackTapped, SignOut, OnTop, Base
  <1>8. ASSUME ~hasty' PROVE Patient'
    <2>1. (\A u \in Users : profile'[u] \in {None, u}) /\ crash' # "path"
      BY <1>2, <1>3, <1>8 DEF AgreeInv, Patient
    <2> QED
      BY <1>5, <1>6, <1>7, <1>8, <2>1 DEF Patient
  <1> QED
    BY <1>4, <1>8 DEF AgreeInv

LEMMA AlertAgrees ==
  ASSUME AgreeInv, Inv', AlertConfirmed PROVE AgreeInv'
  <1> USE SessionAssumption DEF server, client, forms
  <1> DEFINE top == Last(stack)
             main == View("main", top.user, 0)
             read == Call("getUserData", top.user, top.of, None)
  <1>1. /\ stack \in Seq(ViewType) /\ stack # <<>> /\ top \in ViewType
        /\ top.kind \in {"error", "authorized", "registered"} /\ top.kind \notin Base
        /\ UNCHANGED <<server, client, forms, crash, hasty>>
    BY FrontViews DEF AgreeInv, Inv, TypeOK, ViewType, AlertConfirmed, Shows, Base
  <1>2. /\ Front(stack) \in Seq(ViewType) /\ Piled(Front(stack))
        /\ Front(stack) # <<>> => Last(Front(stack)).kind \in Base
        /\ top.kind = "registered" => Len(Front(stack)) > 1
    BY <1>1, FrontViews, PiledFront DEF AgreeInv
  <1>3. ~hasty => calls = {} /\ (top.kind \in Welcome => auth = top.user)
    BY <1>1 DEF AgreeInv, Patient, TopAgrees
  <1>4. ~hasty => (\A u \in Users : profile'[u] \in {None, u}) /\ crash' # "path"
    BY <1>1 DEF AgreeInv, Patient
  <1>5. CASE Shows("registered")
    <2>1. main \in ViewType /\ main.kind = "main" /\ main.user = top.user
      BY <1>1, ViewFields DEF ViewType, Screens
    <2>2. stack' = Append(Front(stack), main) /\ calls' = calls /\ top.kind = "registered"
      BY <1>5 DEF AlertConfirmed, Shows
    <2>3. /\ Piled(stack') /\ stack' # <<>> /\ Last(stack') = main
          /\ Len(stack') = Len(Front(stack)) + 1 /\ Len(Front(stack)) \in Nat
      BY <1>2, <2>1, <2>2, PiledAppend, AppendViews
    <2>4. ~hasty => TopAgrees'
      BY <1>1, <1>2, <1>3, <2>1, <2>2, <2>3 DEF TopAgrees, Welcome
    <2> QED
      BY <1>1, <1>3, <1>4, <2>2, <2>3, <2>4 DEF AgreeInv, Patient
  <1>6. CASE Shows("authorized")
    <2>1. PICK c :
            /\ stack' = Front(stack) /\ calls' = calls \cup {c} /\ top.kind = "authorized"
            /\ c.kind = "getUserData" /\ c.user = top.user
      BY <1>6, CallFields DEF AlertConfirmed, Shows
    <2>2. ~hasty => TopAgrees'
      BY <1>2, <2>1 DEF TopAgrees, Welcome, Base
    <2>3. ~hasty => CallAgrees(c)'
      BY <1>1, <1>3, <2>1 DEF CallAgrees, Welcome
    <2> QED
      BY <1>1, <1>2, <1>3, <1>4, <2>1, <2>2, <2>3 DEF AgreeInv, Patient
  <1>7. CASE Shows("error")
    <2>1. stack' = Front(stack) /\ calls' = calls
      BY <1>7 DEF AlertConfirmed, Shows
    <2>2. ~hasty => TopAgrees'
      BY <1>2, <2>1 DEF TopAgrees, Welcome, Base
    <2> QED
      BY <1>1, <1>2, <1>3, <1>4, <2>1, <2>2 DEF AgreeInv, Patient
  <1> QED
    BY <1>5, <1>6, <1>7 DEF AlertConfirmed

(* The last call of a chain is answered, and a view presented.             *)
LEMMA LastAnswerAgrees ==
  ASSUME AgreeInv, Inv', NEW c \in calls, calls' = calls \ {c},
         NEW kind \in Base, NEW of, NEW v \in ViewType, Present(kind, of, v),
         v.kind # "credentials", v.kind = "registered" => kind = "credentials",
         hasty' = hasty,
         ~hasty /\ Patient => /\ v.kind \in Welcome => auth' = v.user
                              /\ v.kind = "main" => current' = v.user
                              /\ \A u \in Users : profile'[u] \in {None, u}
                              /\ crash' # "path"
  PROVE  AgreeInv'
  <1>1. stack \in Seq(ViewType)
    BY DEF AgreeInv, Inv, TypeOK, ViewType
  <1>2. /\ Piled(stack')
        /\ \/ stack' = stack
           \/ stack' # <<>> /\ Last(stack') = v
    BY <1>1, PresentPiled DEF AgreeInv
  <1>3. ASSUME ~hasty PROVE Patient'
    <2>1. calls' = {} /\ (stack = <<>> \/ Last(stack).kind \in Base)
      BY <1>3 DEF AgreeInv, Patient
    <2>2. TopAgrees'
      BY <1>2, <1>3, <2>1 DEF AgreeInv, TopAgrees, Base, Welcome
    <2> QED
      BY <1>3, <2>1, <2>2 DEF AgreeInv, Patient
  <1> QED
    BY <1>2, <1>3 DEF AgreeInv

LEMMA LaunchAgrees ==
  ASSUME AgreeInv, Inv', NEW c \in calls, LaunchAnswered(c) PROVE AgreeInv'
  <1> USE SessionAssumption DEF server, forms
  <1> DEFINE main == View("main", c.user, 0)
             login == View("login", None, c.of)
  <1>1. /\ c \in CallType /\ c.kind = "launch" /\ calls' = {}
        /\ UNCHANGED <<server, auth, crash, hasty>>
    BY DEF AgreeInv, Inv, TypeOK, CallType, Launching, LaunchAnswered, Answer
  <1>2. /\ main \in ViewType /\ main.kind = "main" /\ main.user = c.user
        /\ login \in ViewType /\ login.kind = "login"
    BY <1>1, ViewFields DEF CallType, Screens
  <1>3. ~hasty => /\ auth = c.user /\ crash' # "path"
                  /\ \A u \in Users : profile'[u] \in {None, u}
    BY <1>1 DEF AgreeInv, Patient, CallAgrees
  <1>4. CASE profile[c.user] # None
    <2>1. stack' = <<main>> /\ current' = c.user
      BY <1>4 DEF LaunchAnswered
    <2>2. Piled(stack') /\ stack' # <<>> /\ Last(stack') = main
      BY <1>2, <2>1, PiledOne, OneView
    <2>3. ~hasty => TopAgrees'
      BY <1>1, <1>2, <1>3, <2>1, <2>2 DEF TopAgrees
    <2> QED
      BY <1>1, <1>3, <2>2, <2>3 DEF AgreeInv, Patient
  <1>5. CASE profile[c.user] = None
    <2>1. stack' = <<login>>
      BY <1>5 DEF LaunchAnswered
    <2>2. Piled(stack') /\ stack' # <<>> /\ Last(stack') = login
      BY <1>2, <2>1, PiledOne, OneView
    <2>3. TopAgrees'
      BY <1>2, <2>2 DEF TopAgrees, Welcome
    <2> QED
      BY <1>1, <1>3, <2>2, <2>3 DEF AgreeInv, Patient
  <1> QED
    BY <1>4, <1>5

LEMMA SignInAgrees ==
  ASSUME AgreeInv, Inv', NEW c \in calls, SignInAnswered(c) PROVE AgreeInv'
  <1> USE SessionAssumption DEF server, forms
  <1> DEFINE welcome == View("authorized", c.user, c.of)
             error == View("error", None, 0)
  <1>1. /\ c \in CallType /\ calls' = calls \ {c} /\ UNCHANGED <<server, crash, hasty>>
        /\ "login" \in Base
    BY DEF AgreeInv, Inv, TypeOK, CallType, SignInAnswered, Answer, Base
  <1>2. /\ welcome \in ViewType /\ welcome.kind = "authorized" /\ welcome.user = c.user
        /\ error \in ViewType /\ error.kind = "error"
    BY <1>1, ViewFields DEF CallType, Screens
  <1>3. CASE c.user \in accounts
    <2>1. auth' = c.user /\ Present("login", c.of, welcome)
      BY <1>3 DEF SignInAnswered
    <2> QED
      BY <1>1, <1>2, <2>1, LastAnswerAgrees DEF Patient
  <1>4. CASE c.user \notin accounts
    <2>1. Present("login", c.of, error)
      BY <1>4 DEF SignInAnswered
    <2> QED
      BY <1>1, <1>2, <2>1, LastAnswerAgrees DEF Patient, Welcome
  <1> QED
    BY <1>3, <1>4

LEMMA UserDataAgrees ==
  ASSUME AgreeInv, Inv', NEW c \in calls, UserDataAnswered(c) PROVE AgreeInv'
  <1> USE SessionAssumption DEF server, forms
  <1> DEFINE main == View("main", c.user, 0)
             error == View("error", None, 0)
  <1>1. /\ c \in CallType /\ calls' = calls \ {c} /\ UNCHANGED <<server, auth, crash, hasty>>
        /\ "login" \in Base /\ c.kind = "getUserData"
    BY DEF AgreeInv, Inv, TypeOK, CallType, UserDataAnswered, Answer, Base
  <1>2. /\ main \in ViewType /\ main.kind = "main" /\ main.user = c.user
        /\ error \in ViewType /\ error.kind = "error"
    BY <1>1, ViewFields DEF CallType, Screens
  <1>3. CASE profile[c.user] # None
    <2>1. current' = c.user /\ Present("login", c.of, main)
      BY <1>3 DEF UserDataAnswered
    <2> QED
      BY <1>1, <1>2, <2>1, LastAnswerAgrees DEF Patient, CallAgrees
  <1>4. CASE profile[c.user] = None
    <2>1. Present("login", c.of, error)
      BY <1>4 DEF UserDataAnswered
    <2> QED
      BY <1>1, <1>2, <2>1, LastAnswerAgrees DEF Patient, Welcome
  <1> QED
    BY <1>3, <1>4

LEMMA CreateUserAgrees ==
  ASSUME AgreeInv, Inv', NEW c \in calls, CreateUserAnswered(c) PROVE AgreeInv'
  <1> USE SessionAssumption
  <1>1. /\ c \in CallType /\ c.of \in 1 .. MaxForms
        /\ UNCHANGED <<profile, crash, hasty>> /\ "credentials" \in Base
    BY DEF AgreeInv, Inv, TypeOK, CallType, CallPlaced, CreateUserAnswered, Registering, Base
  <1>2. CASE c.user \notin accounts
    <2> DEFINE n == [c EXCEPT !.kind = "upload"]
    <2>1. /\ n.kind = "upload" /\ n.user = c.user /\ n.of = c.of
          /\ calls' = (calls \ {c}) \cup {n} /\ auth' = c.user /\ stack' = stack
          /\ model' = [model EXCEPT ![c.of].id = c.user]
      BY <1>1, <1>2 DEF CreateUserAnswered, Answer, CallType
    <2>2. model'[c.of].id = c.user
      BY <1>1, <2>1 DEF AgreeInv, Inv, TypeOK
    <2>3. ASSUME ~hasty PROVE Patient'
      <3>1. calls' = {n} /\ (stack = <<>> \/ Last(stack).kind \in Base)
        BY <2>1, <2>3 DEF AgreeInv, Patient
      <3>2. TopAgrees'
        BY <2>1, <3>1 DEF TopAgrees, Base, Welcome
      <3>3. \A d \in calls' : CallAgrees(d)'
        BY <2>1, <2>2, <3>1 DEF CallAgrees
      <3> QED
        BY <1>1, <2>1, <2>3, <3>1, <3>2, <3>3 DEF AgreeInv, Patient
    <2> QED
      BY <1>1, <2>1, <2>3 DEF AgreeInv
  <1>3. CASE c.user \in accounts
    <2> DEFINE error == View("error", None, 0)
    <2>1. error \in ViewType /\ error.kind = "error"
      BY ViewFields DEF Screens
    <2>2. calls' = calls \ {c} /\ Present("credentials", c.of, error)
      BY <1>3 DEF CreateUserAnswered, Answer
    <2> QED
      BY <1>1, <2>1, <2>2, LastAnswerAgrees DEF Patient, Welcome
  <1> QED
    BY <1>2, <1>3

LEMMA UploadAgrees ==
  ASSUME AgreeInv, Inv', NEW c \in calls, UploadAnswered(c) PROVE AgreeInv'
  <1> USE SessionAssumption DEF client
  <1> DEFINE n == [c EXCEPT !.kind = "saveProfile", !.user = model[c.of].id, !.pic = c.user]
  <1>1. /\ c \in CallType /\ c.kind = "upload" /\ UNCHANGED <<profile, client, stack, hasty>>
    BY DEF AgreeInv, Inv, TypeOK, CallType, UploadAnswered
  <1>2. ASSUME ~hasty PROVE Patient'
    <2>1. model[c.of].id = c.user /\ c.user # None /\ auth = c.user
      BY <1>1, <1>2 DEF AgreeInv, Patient, CallAgrees, CallType
    <2>2. /\ n.kind = "saveProfile" /\ n.user = c.user /\ n.pic = c.user
          /\ calls' = (calls \ {c}) \cup {n} /\ crash' = crash
      BY <1>1, <2>1 DEF UploadAnswered, Answer, CallType
    <2>3. calls' = {n} /\ (stack = <<>> \/ Last(stack).kind \in Base) /\ TopAgrees'
      BY <1>1, <1>2, <2>2 DEF AgreeInv, Patient, TopAgrees
    <2>4. \A d \in calls' : CallAgrees(d)'
      BY <1>1, <2>1, <2>2, <2>3 DEF CallAgrees
    <2> QED
      BY <1>1, <1>2, <2>2, <2>3, <2>4 DEF AgreeInv, Patient
  <1> QED
    BY <1>1, <1>2 DEF AgreeInv

LEMMA SaveProfileAgrees ==
  ASSUME AgreeInv, Inv', NEW c \in calls, SaveProfileAnswered(c) PROVE AgreeInv'
  <1> USE SessionAssumption DEF client
  <1> DEFINE v == View("registered", c.user, c.of)
  <1>1. /\ c \in CallType /\ c.kind = "saveProfile" /\ calls' = calls \ {c}
        /\ Present("credentials", c.of, v) /\ UNCHANGED <<client, hasty>>
        /\ profile' = [profile EXCEPT ![c.user] = c.pic] /\ "credentials" \in Base
    BY DEF AgreeInv, Inv, TypeOK, CallType, SaveProfileAnswered, Answer, Base
  <1>2. v \in ViewType /\ v.kind = "registered" /\ v.user = c.user
    BY <1>1, ViewFields DEF CallType, Screens
  <1>3. ~hasty => /\ auth' = c.user /\ crash' # "path"
                  /\ \A u \in Users : profile'[u] \in {None, u}
    BY <1>1 DEF AgreeInv, Inv, TypeOK, Patient, CallAgrees, CallType, SaveProfileAnswered, Added
  <1> QED
    BY <1>1, <1>2, <1>3, LastAnswerAgrees

LEMMA FailureAgrees ==
  ASSUME AgreeInv, Inv', NEW c \in calls, CallFails(c) PROVE AgreeInv'
  <1> USE SessionAssumption DEF server, client
  <1>1. /\ c \in CallType /\ calls' = calls \ {c}
        /\ UNCHANGED <<server, client, crash, hasty>>
    BY DEF AgreeInv, Inv, TypeOK, CallType, CallFails
  <1>2. CASE c.kind # "launch"
    <2> DEFINE error == View("error", None, 0)
    <2>1. error \in ViewType /\ error.kind = "error"
      BY ViewFields DEF Screens
    <2>2. PICK kind \in Base : Present(kind, c.of, error)
      BY <1>2 DEF CallFails, Base
    <2> QED
      BY <1>1, <2>1, <2>2, LastAnswerAgrees DEF Patient, Welcome
  <1>3. CASE c.kind = "launch"
    <2> DEFINE login == View("login", None, c.of)
    <2>1. login \in ViewType /\ login.kind = "login" /\ stack' = <<login>> /\ calls' = {}
      BY <1>1, <1>3, ViewFields DEF CallFails, CallType, Screens, AgreeInv, Inv, Launching
    <2>2. Piled(stack') /\ stack' # <<>> /\ Last(stack') = login
      BY <2>1, PiledOne, OneView
    <2>3. TopAgrees'
      BY <2>1, <2>2 DEF TopAgrees, Welcome
    <2> QED
      BY <1>1, <2>1, <2>2, <2>3 DEF AgreeInv, Patient
  <1> QED
    BY <1>2, <1>3

LEMMA WorldAgrees ==
  ASSUME AgreeInv, Inv', OperationStarted \/ \E u \in Users : OtherRegisters(u)
  PROVE  AgreeInv'
  <1> USE SessionAssumption DEF server, client, forms
  <1>1. UNCHANGED <<client, stack, forms, calls, hasty>>
    BY DEF OperationStarted, OtherRegisters
  <1>2. Patient => crash' # "path" /\ \A u \in Users : profile'[u] \in {None, u}
    BY DEF AgreeInv, Inv, TypeOK, Patient, OperationStarted, OtherRegisters, Added
  <1>3. Patient => TopAgrees' /\ \A d \in calls' : CallAgrees(d)'
    BY <1>1 DEF Patient, TopAgrees, CallAgrees
  <1> QED
    BY <1>1, <1>2, <1>3 DEF AgreeInv, Patient

LEMMA RelaunchAgrees ==
  ASSUME AgreeInv, Inv', Relaunch PROVE AgreeInv'
  <1> USE SessionAssumption DEF forms
  <1>1. screen' \in Nat /\ UNCHANGED <<auth, forms, crash, hasty>>
    BY DEF AgreeInv, Inv, TypeOK, Relaunch
  <1>2. ASSUME ~hasty, NEW u \in Users PROVE profile'[u] \in {None, u}
    <2>1. \/ profile'[u] = profile[u]
          \/ \E c \in calls : c.kind = "saveProfile" /\ c.user = u /\ profile'[u] = c.pic
      BY DEF Relaunch
    <2> QED
      BY <1>2, <2>1 DEF AgreeInv, Patient, CallAgrees
  <1>3. CASE auth = None
    <2> DEFINE login == View("login", None, screen')
    <2>1. login \in ViewType /\ login.kind = "login" /\ stack' = <<login>> /\ calls' = {}
      BY <1>1, <1>3, ViewFields DEF Relaunch, Screens
    <2>2. Piled(stack') /\ stack' # <<>> /\ Last(stack') = login
      BY <2>1, PiledOne, OneView
    <2>3. TopAgrees'
      BY <2>1, <2>2 DEF TopAgrees, Welcome
    <2> QED
      BY <1>1, <1>2, <2>1, <2>2, <2>3 DEF AgreeInv, Patient
  <1>4. CASE auth # None
    <2>1. PICK c : /\ stack' = <<>> /\ calls' = {c} /\ c.kind = "launch" /\ c.user = auth
      BY <1>4, CallFields DEF Relaunch
    <2>2. Piled(stack') /\ TopAgrees' /\ CallAgrees(c)'
      BY <1>1, <2>1, PiledNone DEF TopAgrees, CallAgrees
    <2> QED
      BY <1>1, <1>2, <2>1, <2>2 DEF AgreeInv, Patient
  <1> QED
    BY <1>3, <1>4

LEMMA AgreeNext == ASSUME AgreeInv, [Next]_vars PROVE AgreeInv'
  <1>1. Inv'
    BY InvNext DEF AgreeInv
  <1>2. CASE UNCHANGED vars
    BY <1>1, <1>2 DEF AgreeInv, Patient, TopAgrees, CallAgrees, vars, server, client, forms
  <1>3. CASE Next
    <2>1. CASE \/ \E u \in Users : LoginTapped(u) \/ RegisterTapped(u)
               \/ RegistrationOpened \/ NextTapped \/ BackTapped \/ SignOut
      BY <1>1, <1>3, <2>1, TapAgrees
    <2>2. CASE OperationStarted \/ \E u \in Users : OtherRegisters(u)
      BY <1>1, <2>2, WorldAgrees
    <2>3. CASE \E c \in calls : Answered(c) \/ CallFails(c)
      BY <1>1, <2>3, LaunchAgrees, SignInAgrees, UserDataAgrees, CreateUserAgrees, UploadAgrees,
         SaveProfileAgrees, FailureAgrees DEF Answered
    <2>4. CASE AlertConfirmed
      BY <1>1, <2>4, AlertAgrees
    <2>5. CASE Relaunch
      BY <1>1, <2>5, RelaunchAgrees
    <2> QED
      BY <1>3, <2>1, <2>2, <2>3, <2>4, <2>5 DEF Next
  <1> QED
    BY <1>2, <1>3

(* For a user who waits for every answer, Auth, FirestoreManager and the   *)
(* main screen agree on who is signed in, up to a registration of which    *)
(* FirestoreManager does not learn; every profile names its owner's photo, *)
(* and none is saved without a name.                                       *)
THEOREM SessionAgreesTheorem == Spec => []SessionAgrees
  <1>1. ASSUME AgreeInv PROVE SessionAgrees
    BY <1>1 DEF AgreeInv, Patient, TopAgrees, Welcome, SessionAgrees, Shows
  <1>2. Init => AgreeInv
    BY AgreeInit
  <1> QED
    BY <1>1, <1>2, AgreeNext, PTL DEF Spec

=============================================================================
