------------------------------ MODULE Session ------------------------------
(***************************************************************************)
(* Who is signed in, in one running copy of the PostPigeon app: Firebase's *)
(* Auth, FirestoreManager.currentUser and the account on screen, from      *)
(* launch, login and registration to sign-out.                             *)
(*                                                                         *)
(* The handlers of the screens are chains of asynchronous calls.  They     *)
(* keep running when their screen has gone; what they present is then      *)
(* ignored by UIKit, and what they write is not.                           *)
(***************************************************************************)
EXTENDS Naturals, SequencesExt

CONSTANTS
  Users,       \* e-mail addresses, each the name of at most one account
  Registered,  \* those that have an account when the app is installed
  None,        \* nobody, an empty identifier
  MaxTaps,     \* bound: login and registration attempts
  MaxForms,    \* bound: registration forms opened
  MaxScreens,  \* bound: login screens shown by launches and sign-outs
  MaxFaults    \* bound: failed calls and relaunches together

ASSUME SessionAssumption ==
  /\ Registered \subseteq Users
  /\ None \notin Users
  /\ MaxTaps \in Nat /\ MaxForms \in Nat /\ MaxScreens \in Nat /\ MaxFaults \in Nat

VARIABLES
  accounts,   \* Auth's accounts
  avatars,    \* owners of a photo in the folder "avatars"
  profile,    \* documents of "users": whose photo each account's names
  auth,       \* Auth.auth().currentUser, which outlives the process
  current,    \* FirestoreManager.shared.currentUser, which does not
  stack,      \* the root view controller and what is presented on it
  screen,     \* number of the last LoginViewController
  form,       \* number of the last FirstRegistrViewController
  model,      \* userModel of every ThirdRegistrViewController
  busy,       \* whether its buttons are hidden
  listening,  \* whether a PeopleViewController observes "users"
  calls,      \* outstanding calls
  crash,      \* what the process has died of
  hasty,      \* history: a button was tapped while a call was outstanding
  taps,       \* login and registration attempts so far
  faults      \* failed calls and relaunches so far

server == <<accounts, avatars, profile>>
client == <<auth, current>>
forms == <<form, model, busy>>
vars == <<server, client, stack, screen, forms, listening, calls, crash, hasty,
          taps, faults>>

-----------------------------------------------------------------------------
(* Data.                                                                   *)

Screens == {"login", "form", "credentials", "error", "authorized", "registered",
            "main"}
CallKinds == {"launch", "signIn", "getUserData", "createUser", "upload",
              "saveProfile"}

(* `of' is the number of the controller, `user' the account it is about.   *)
View(kind, user, of) == [kind |-> kind, user |-> user, of |-> of]

(* `of' is the controller whose closure handles the answer, `pic' the      *)
(* owner of the photo a profile is saved with, `tap' the attempt.          *)
Call(kind, user, of, pic) ==
  [kind |-> kind, user |-> user, of |-> of, pic |-> pic, tap |-> taps]

(* MUser(): empty strings.                                                 *)
NoModel == [id |-> None, avatar |-> None]

OnTop(kind, of) ==
  stack # <<>> /\ Last(stack).kind = kind /\ Last(stack).of = of
Shows(kind) == stack # <<>> /\ Last(stack).kind = kind

(* present(_:animated:): a controller that is not on top presents nothing. *)
Present(kind, of, view) ==
  stack' = IF OnTop(kind, of) THEN Append(stack, view) ELSE stack

(* The handler of c is done and issues `next'.                             *)
Answer(c, next) == calls' = (calls \ {c}) \cup next

Tap == hasty' = (hasty \/ calls # {})

(* usersObserve asks Auth for the account to leave out of the list, once   *)
(* for every document that has been added.                                 *)
Added == crash' = IF listening /\ auth = None THEN "listener" ELSE crash

-----------------------------------------------------------------------------
Init ==
  /\ accounts = Registered /\ avatars = Registered
  /\ profile = [u \in Users |-> IF u \in Registered THEN u ELSE None]
  /\ auth = None /\ current = None
  /\ stack = <<View("login", None, 1)>>
  /\ screen = 1
  /\ form = 0
  /\ model = [f \in 1 .. MaxForms |-> NoModel]
  /\ busy = [f \in 1 .. MaxForms |-> FALSE]
  /\ listening = FALSE
  /\ calls = {}
  /\ crash = "no"
  /\ hasty = FALSE
  /\ taps = 0
  /\ faults = 0

-----------------------------------------------------------------------------
(* Launch and login.                                                       *)

(* The app is killed and started again: what was on its way to the server  *)
(* arrives or does not.  SceneDelegate shows the login screen, or nothing  *)
(* until the profile of Auth's account has been read.                      *)
Relaunch ==
  /\ faults < MaxFaults /\ screen < MaxScreens
  /\ faults' = faults + 1
  /\ screen' = screen + 1
  /\ \E done \in SUBSET calls :
       LET saved(u) == {c \in done : c.kind = "saveProfile" /\ c.user = u}
       IN  /\ accounts' = accounts \cup {c.user : c \in {b \in done : b.kind = "createUser"}}
           /\ avatars' = avatars \cup {c.user : c \in {b \in done : b.kind = "upload"}}
           /\ profile' \in {p \in [Users -> Users \cup {None}] :
                              \A u \in Users :
                                \/ saved(u) = {} /\ p[u] = profile[u]
                                \/ \E c \in saved(u) : p[u] = c.pic}
  /\ current' = None
  /\ listening' = FALSE
  /\ IF auth = None
     THEN stack' = <<View("login", None, screen')>> /\ calls' = {}
     ELSE stack' = <<>> /\ calls' = {Call("launch", auth, screen', None)}
  /\ UNCHANGED <<auth, forms, crash, hasty, taps>>

LaunchAnswered(c) ==
  /\ c.kind = "launch"
  /\ Answer(c, {})
  /\ IF profile[c.user] # None
     THEN /\ current' = c.user
          /\ stack' = <<View("main", c.user, 0)>>
          /\ listening' = TRUE
     ELSE /\ stack' = <<View("login", None, c.of)>>
          /\ UNCHANGED <<current, listening>>
  /\ UNCHANGED <<server, auth, screen, forms, crash, hasty, taps, faults>>

LoginTapped(u) ==
  /\ OnTop("login", screen)
  /\ taps < MaxTaps
  /\ taps' = taps + 1
  /\ Tap
  /\ calls' = calls \cup {Call("signIn", u, screen, None)}
  /\ UNCHANGED <<server, client, stack, screen, forms, listening, crash, faults>>

(* Auth answers: the alert that is to be confirmed, or an error.           *)
SignInAnswered(c) ==
  /\ c.kind = "signIn"
  /\ Answer(c, {})
  /\ IF c.user \in accounts
     THEN auth' = c.user /\ Present("login", c.of, View("authorized", c.user, c.of))
     ELSE Present("login", c.of, View("error", None, 0)) /\ UNCHANGED auth
  /\ UNCHANGED <<server, current, screen, forms, listening, crash, hasty, taps, faults>>

(* Mutant: the profile that was read does not become the current user.     *)
UserDataIgnored(c) ==
  /\ c.kind = "getUserData"
  /\ Answer(c, {})
  /\ IF profile[c.user] # None
     THEN Present("login", c.of, View("main", c.user, 0))
     ELSE Present("login", c.of, View("error", None, 0))
  /\ listening' = (listening \/ (profile[c.user] # None /\ OnTop("login", c.of)))
  /\ UNCHANGED <<server, client, screen, forms, crash, hasty, taps, faults>>

(* Mutant: an account without a profile is let in.                         *)
UserDataUnchecked(c) ==
  /\ c.kind = "getUserData"
  /\ Answer(c, {})
  /\ current' = c.user
  /\ Present("login", c.of, View("main", c.user, 0))
  /\ listening' = (listening \/ OnTop("login", c.of))
  /\ UNCHANGED <<server, auth, screen, forms, crash, hasty, taps, faults>>

(* The profile is read: it becomes current, on screen or not.              *)
UserDataAnswered(c) ==
  /\ c.kind = "getUserData"
  /\ Answer(c, {})
  /\ IF profile[c.user] # None
     THEN current' = c.user /\ Present("login", c.of, View("main", c.user, 0))
     ELSE Present("login", c.of, View("error", None, 0)) /\ UNCHANGED current
  /\ listening' = (listening \/ (profile[c.user] # None /\ OnTop("login", c.of)))
  /\ UNCHANGED <<server, auth, screen, forms, crash, hasty, taps, faults>>

(* Mutant: a confirmed alert leads nowhere.                                *)
AlertSwallowed ==
  /\ stack # <<>> /\ Last(stack).kind \in {"error", "authorized", "registered"}
  /\ stack' = Front(stack)
  /\ UNCHANGED <<server, client, screen, forms, listening, calls, crash, hasty,
                 taps, faults>>

(* The button of an alert.  The completion of the first alert reads the    *)
(* profile, that of the last one presents the main screen.                 *)
AlertConfirmed ==
  /\ \/ /\ Shows("error")
        /\ stack' = Front(stack)
        /\ UNCHANGED <<calls, listening>>
     \/ /\ Shows("authorized")
        /\ stack' = Front(stack)
        /\ calls' = calls \cup {Call("getUserData", Last(stack).user, Last(stack).of, None)}
        /\ UNCHANGED listening
     \/ /\ Shows("registered")
        /\ stack' = Append(Front(stack), View("main", Last(stack).user, 0))
        /\ listening' = TRUE
        /\ UNCHANGED calls
  /\ UNCHANGED <<server, client, screen, forms, crash, hasty, taps, faults>>

-----------------------------------------------------------------------------
(* Registration.                                                           *)

(* FirstRegistrViewController: a new one, with a second and a third.       *)
RegistrationOpened ==
  /\ OnTop("login", screen)
  /\ form < MaxForms
  /\ form' = form + 1
  /\ stack' = Append(stack, View("form", None, form'))
  /\ Tap
  /\ UNCHANGED <<server, client, screen, model, busy, listening, calls, crash,
                 taps, faults>>

(* The "next" of SecondRegistrViewController: the third one is presented   *)
(* with a fresh model.                                                     *)
NextTapped ==
  /\ OnTop("form", form)
  /\ model' = [model EXCEPT ![form] = NoModel]
  /\ stack' = Append(stack, View("credentials", None, form))
  /\ Tap
  /\ UNCHANGED <<server, client, screen, form, busy, listening, calls, crash,
                 taps, faults>>

(* "Back" and "Cancel"; the third screen hides its button when an account  *)
(* has been created.                                                       *)
BackTapped ==
  /\ \/ OnTop("form", form)
     \/ OnTop("credentials", form) /\ ~busy[form]
  /\ stack' = Front(stack)
  /\ Tap
  /\ UNCHANGED <<server, client, screen, forms, listening, calls, crash, taps,
                 faults>>

RegisterTapped(u) ==
  /\ OnTop("credentials", form) /\ ~busy[form]
  /\ taps < MaxTaps
  /\ taps' = taps + 1
  /\ Tap
  /\ calls' = calls \cup {Call("createUser", u, form, None)}
  /\ UNCHANGED <<server, client, stack, screen, forms, listening, crash, faults>>

(* Mutant: an e-mail address that is in use is accepted.                   *)
CreateUserAgain(c) ==
  /\ c.kind = "createUser"
  /\ accounts' = accounts \cup {c.user}
  /\ auth' = c.user
  /\ busy' = [busy EXCEPT ![c.of] = TRUE]
  /\ model' = [model EXCEPT ![c.of].id = c.user]
  /\ Answer(c, {[c EXCEPT !.kind = "upload"]})
  /\ UNCHANGED <<avatars, profile, current, stack, screen, form, listening, crash,
                 hasty, taps, faults>>

(* An address in use is an error.  A new account is signed in, and its     *)
(* photo is uploaded under its identifier.                                 *)
CreateUserAnswered(c) ==
  /\ c.kind = "createUser"
  /\ \/ /\ c.user \notin accounts
        /\ accounts' = accounts \cup {c.user}
        /\ auth' = c.user
        /\ busy' = [busy EXCEPT ![c.of] = TRUE]
        /\ model' = [model EXCEPT ![c.of].id = c.user]
        /\ Answer(c, {[c EXCEPT !.kind = "upload"]})
        /\ UNCHANGED stack
     \/ /\ c.user \in accounts
        /\ Answer(c, {})
        /\ Present("credentials", c.of, View("error", None, 0))
        /\ UNCHANGED <<accounts, auth, busy, model>>
  /\ UNCHANGED <<avatars, profile, current, screen, form, listening, crash, hasty,
                 taps, faults>>

(* The profile is saved under the identifier the model has by now; a       *)
(* document without a name is fatal.                                       *)
UploadAnswered(c) ==
  /\ c.kind = "upload"
  /\ avatars' = avatars \cup {c.user}
  /\ model' = [model EXCEPT ![c.of].avatar = c.user]
  /\ IF model[c.of].id = None
     THEN Answer(c, {}) /\ crash' = "path"
     ELSE /\ Answer(c, {[c EXCEPT !.kind = "saveProfile", !.user = model[c.of].id,
                                  !.pic = c.user]})
          /\ UNCHANGED crash
  /\ UNCHANGED <<accounts, profile, client, stack, screen, form, busy, listening,
                 hasty, taps, faults>>

(* The profile is there.  The account becomes the main screen's, and       *)
(* nobody tells FirestoreManager.                                          *)
SaveProfileAnswered(c) ==
  /\ c.kind = "saveProfile"
  /\ profile' = [profile EXCEPT ![c.user] = c.pic]
  /\ Answer(c, {})
  /\ Present("credentials", c.of, View("registered", c.user, c.of))
  /\ IF profile[c.user] = None THEN Added ELSE UNCHANGED crash
  /\ UNCHANGED <<accounts, avatars, client, screen, forms, listening, hasty, taps,
                 faults>>

-----------------------------------------------------------------------------
(* The main screen, and the rest of the world.                             *)

(* PeopleViewController.sighOut: nothing is dismissed or removed, and the  *)
(* window gets a new login screen.                                         *)
SignOut ==
  /\ Shows("main")
  /\ screen < MaxScreens
  /\ screen' = screen + 1
  /\ auth' = None
  /\ stack' = <<View("login", None, screen')>>
  /\ Tap
  /\ UNCHANGED <<server, current, forms, listening, calls, crash, taps, faults>>

(* Every operation of FirestoreManager unwraps its current user.           *)
OperationStarted ==
  /\ Shows("main")
  /\ crash' = IF current = None THEN "currentUser" ELSE crash
  /\ UNCHANGED <<server, client, stack, screen, forms, listening, calls, hasty,
                 taps, faults>>

(* Somebody registers on another device.                                   *)
OtherRegisters(u) ==
  /\ u \notin accounts
  /\ accounts' = accounts \cup {u}
  /\ avatars' = avatars \cup {u}
  /\ profile' = [profile EXCEPT ![u] = u]
  /\ Added
  /\ UNCHANGED <<client, stack, screen, forms, listening, calls, hasty, taps, faults>>

Answered(c) ==
  \/ LaunchAnswered(c) \/ SignInAnswered(c) \/ UserDataAnswered(c)
  \/ CreateUserAnswered(c) \/ UploadAnswered(c) \/ SaveProfileAnswered(c)

(* .failure: an alert on the screen that made the call; after a launch the *)
(* login screen.  A password that is not the right one is one of them.     *)
CallFails(c) ==
  /\ faults < MaxFaults
  /\ faults' = faults + 1
  /\ calls' = calls \ {c}
  /\ CASE c.kind = "launch" -> stack' = <<View("login", None, c.of)>>
       [] c.kind \in {"signIn", "getUserData"} ->
            Present("login", c.of, View("error", None, 0))
       [] OTHER -> Present("credentials", c.of, View("error", None, 0))
  /\ UNCHANGED <<server, client, screen, forms, listening, crash, hasty, taps>>

Next ==
  /\ crash = "no"
  /\ \/ \E u \in Users : LoginTapped(u) \/ RegisterTapped(u) \/ OtherRegisters(u)
     \/ \E c \in calls : Answered(c) \/ CallFails(c)
     \/ AlertConfirmed
     \/ RegistrationOpened \/ NextTapped \/ BackTapped
     \/ SignOut \/ OperationStarted
     \/ Relaunch

Spec == Init /\ [][Next]_vars

(* Firebase answers, and the user reads what an alert says.                *)
Fairness ==
  /\ WF_vars(crash = "no" /\ \E c \in calls : Answered(c))
  /\ WF_vars(crash = "no" /\ AlertConfirmed)

FairSpec == Spec /\ Fairness

-----------------------------------------------------------------------------
(* Properties.                                                             *)

TypeOK ==
  /\ accounts \subseteq Users /\ avatars \subseteq Users
  /\ profile \in [Users -> Users \cup {None}]
  /\ auth \in Users \cup {None} /\ current \in Users \cup {None}
  /\ stack \in Seq([kind : Screens, user : Users \cup {None}, of : Nat])
  /\ screen \in Nat /\ form \in 0 .. MaxForms
  /\ model \in [1 .. MaxForms -> [id : Users \cup {None}, avatar : Users \cup {None}]]
  /\ busy \in [1 .. MaxForms -> BOOLEAN]
  /\ listening \in BOOLEAN
  /\ calls \subseteq [kind : CallKinds, user : Users, of : Nat,
                      pic : Users \cup {None}, tap : Nat]
  /\ crash \in {"no", "listener", "currentUser", "path"}
  /\ hasty \in BOOLEAN
  /\ taps \in 0 .. MaxTaps /\ faults \in 0 .. MaxFaults

(* `var currentUser: MUser!' of FirestoreManager is never nil when it is   *)
(* unwrapped.                                                              *)
CurrentUserIsSet == crash # "currentUser"

(* `Auth.auth().currentUser!' of ListenerManager is never nil when it is   *)
(* unwrapped.                                                              *)
ListenerHasUser == crash # "listener"

(* A profile exists only of an account, and names a photo that has arrived,*)
(* whatever is tapped while calls are under way.                           *)
ProfileIsComplete ==
  \A u \in Users : profile[u] # None => u \in accounts /\ profile[u] \in avatars

(* The main screen belongs to an account with a profile, and somebody is   *)
(* signed in behind it.                                                    *)
MainHasProfile ==
  \A i \in DOMAIN stack :
    stack[i].kind = "main" => profile[stack[i].user] # None /\ auth # None

(* For a user who waits for every answer, the three places that know who   *)
(* is signed in agree, except that FirestoreManager does not learn of a    *)
(* registration; every profile names its owner's photo; and none is saved  *)
(* without a name.                                                         *)
SessionAgrees ==
  ~hasty =>
    /\ Shows("main") => /\ auth = Last(stack).user
                        /\ current = Last(stack).user \/ Len(stack) > 2
    /\ \A u \in Users : profile[u] \in {None, u}
    /\ crash # "path"

(* An account whose photo or profile is no longer under way.               *)
Abandoned(u) ==
  /\ u \in accounts /\ profile[u] = None
  /\ \A c \in calls : /\ c.kind = "saveProfile" => c.user # u
                      /\ c.kind = "upload" => u \notin {c.user, model[c.of].id}

(* It never gets a profile: logging in fails for want of one, and          *)
(* registering again because the address is in use.                        *)
NoWayBack == [][\A u \in Users : Abandoned(u) => Abandoned(u)']_vars

(* A registration of a patient user ends on a main screen, with an alert   *)
(* or, when the app is killed, where a launch leads: the spinner of the    *)
(* third screen does not turn for ever without a word.                     *)
RegistrationEnds ==
  (\E c \in calls : c.kind = "createUser")
    ~> Shows("main") \/ Shows("error") \/ Shows("login") \/ hasty \/ crash # "no"

(* What AuthManager, the registration and the login make of the accounts:  *)
(* complete profiles, and main screens that have one.                      *)
Profiles == TypeOK /\ ProfileIsComplete /\ MainHasProfile
=============================================================================
