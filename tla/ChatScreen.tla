----------------------------- MODULE ChatScreen -----------------------------
(***************************************************************************)
(* The screen of an open chat in PostPigeon (ChatsViewController): a       *)
(* listener reports the messages of the chat one by one, texts are shown   *)
(* at once and photos when they have been downloaded.                      *)
(*                                                                         *)
(* The closure of the listener holds the controller, so leaving the chat   *)
(* removes neither; a chat that is opened again has a second screen, and   *)
(* both go on.                                                             *)
(***************************************************************************)
EXTENDS Naturals, FiniteSets, SequencesExt

CONSTANTS
  MaxMessages,  \* bound: messages written
  MaxDate,      \* bound: dates of the clocks of the two devices
  MaxScreens    \* bound: how often the chat is opened

ASSUME ChatScreenAssumption ==
  MaxMessages \in Nat /\ MaxDate \in Nat /\ MaxScreens \in Nat

VARIABLES
  written,    \* messages written so far
  docs,       \* documents of the chat, as the Firestore client knows them
  pending,    \* those of this device, which the server may refuse
  opened,     \* screens so far
  alive,      \* whether the listener of each has not reported an error
  seen,       \* what it has reported
  messages,   \* the messages shown, the latest last
  downloads,  \* photos that are being downloaded
  failed      \* history: photos whose failure an alert has reported

chat == <<written, docs, pending>>
vars == <<chat, opened, alive, seen, messages, downloads, failed>>

-----------------------------------------------------------------------------
Screens == 1 .. MaxScreens

(* MMessage: `n' is the identifier of the document; a message with a       *)
(* downloadURL is a photo.                                                 *)
Message == [n : 1 .. MaxMessages, date : 1 .. MaxDate, photo : BOOLEAN]

Init ==
  /\ written = 0
  /\ docs = {} /\ pending = {}
  /\ opened = 0
  /\ alive = [s \in Screens |-> FALSE]
  /\ seen = [s \in Screens |-> {}]
  /\ messages = [s \in Screens |-> <<>>]
  /\ downloads = [s \in Screens |-> {}]
  /\ failed = [s \in Screens |-> {}]

(* A message is written: by the friend, or by this device, whose client    *)
(* knows the document before the server has it.                            *)
Write(date, photo, mine) ==
  LET m == [n |-> written + 1, date |-> date, photo |-> photo]
  IN  /\ written < MaxMessages
      /\ written' = written + 1
      /\ docs' = docs \cup {m}
      /\ pending' = IF mine THEN pending \cup {m} ELSE pending
      /\ UNCHANGED <<opened, alive, seen, messages, downloads, failed>>

(* The server refuses a message of this device.                            *)
Refuse(m) ==
  /\ m \in pending
  /\ docs' = docs \ {m}
  /\ pending' = pending \ {m}
  /\ UNCHANGED <<written, opened, alive, seen, messages, downloads, failed>>

-----------------------------------------------------------------------------
(* The screen.                                                             *)

(* viewDidLoad.                                                            *)
Open ==
  /\ opened < MaxScreens
  /\ opened' = opened + 1
  /\ alive' = [alive EXCEPT ![opened + 1] = TRUE]
  /\ UNCHANGED <<chat, seen, messages, downloads, failed>>

(* Mutant: the new message is the last one.                                *)
InsertLast(shown, m) == Append(shown, m)

(* Mutant: only a message later than the last one is inserted.             *)
InsertLatest(shown, m) ==
  IF shown = <<>> \/ Last(shown).date < m.date THEN Append(shown, m) ELSE shown

(* Where a message comes among those in the order of their dates: after    *)
(* those of the same date, as the sort of Swift's library is stable.       *)
After(shown, m) == Min({i \in DOMAIN shown : shown[i].date > m.date} \cup {Len(shown) + 1})

(* insertNewMessage: appended unless it is there, and sorted by date.      *)
Insert(shown, m) ==
  IF \E i \in DOMAIN shown : shown[i].n = m.n THEN shown
  ELSE InsertAt(shown, After(shown, m), m)

(* The listener reports what is new, in any order; what has gone is        *)
(* ignored.                                                                *)
Report(s) ==
  LET new == docs \ seen[s]
      texts == {m \in new : ~ m.photo}
  IN  /\ alive[s]
      /\ seen[s] # docs
      /\ seen' = [seen EXCEPT ![s] = docs]
      /\ \E order \in SetToSeqs(texts) :
           messages' = [messages EXCEPT ![s] = FoldLeft(Insert, @, order)]
      /\ downloads' = [downloads EXCEPT ![s] = @ \cup (new \ texts)]
      /\ UNCHANGED <<chat, opened, alive, failed>>

(* Mutant: a download that ends cancels the others.                        *)
DownloadEndsAlone(s, m) ==
  /\ m \in downloads[s]
  /\ downloads' = [downloads EXCEPT ![s] = {}]
  /\ messages' = [messages EXCEPT ![s] = Insert(@, m)]
  /\ UNCHANGED <<chat, opened, alive, seen, failed>>

DownloadEnds(s, m) ==
  /\ m \in downloads[s]
  /\ downloads' = [downloads EXCEPT ![s] = @ \ {m}]
  /\ messages' = [messages EXCEPT ![s] = Insert(@, m)]
  /\ UNCHANGED <<chat, opened, alive, seen, failed>>

(* An alert, and the photo is never shown.                                 *)
DownloadFails(s, m) ==
  /\ m \in downloads[s]
  /\ downloads' = [downloads EXCEPT ![s] = @ \ {m}]
  /\ failed' = [failed EXCEPT ![s] = @ \cup {m}]
  /\ UNCHANGED <<chat, opened, alive, seen, messages>>

(* An error ends the listener; downloads go on.                            *)
ListenerFails(s) ==
  /\ alive[s]
  /\ alive' = [alive EXCEPT ![s] = FALSE]
  /\ UNCHANGED <<chat, opened, seen, messages, downloads, failed>>

-----------------------------------------------------------------------------
Next ==
  \/ \E date \in 1 .. MaxDate, photo, mine \in BOOLEAN : Write(date, photo, mine)
  \/ \E m \in pending : Refuse(m)
  \/ Open
  \/ \E s \in Screens :
       \/ Report(s) \/ ListenerFails(s)
       \/ \E m \in downloads[s] : DownloadEnds(s, m) \/ DownloadFails(s, m)

Spec == Init /\ [][Next]_vars

(* Firestore reports what it knows, and a download ends in one way or the  *)
(* other.                                                                  *)
Fairness ==
  \A s \in Screens :
    /\ WF_vars(Report(s))
    /\ WF_vars(\E m \in downloads[s] : DownloadEnds(s, m) \/ DownloadFails(s, m))

FairSpec == Spec /\ Fairness

-----------------------------------------------------------------------------
(* Properties.                                                             *)

(* The type invariant.                                                     *)
TypeOK ==
  /\ written \in 0 .. MaxMessages
  /\ docs \subseteq Message /\ pending \subseteq docs
  /\ opened \in 0 .. MaxScreens
  /\ alive \in [Screens -> BOOLEAN]
  /\ \A s \in Screens :
       /\ seen[s] \subseteq Message
       /\ messages[s] \in Seq(Message)
       /\ downloads[s] \subseteq Message /\ failed[s] \subseteq Message

(* However late a photo has been downloaded, and whatever order the        *)
(* messages were reported in, they are shown in the order of their dates.  *)
InOrder ==
  \A s \in Screens : \A i, j \in DOMAIN messages[s] :
    i < j => messages[s][i].date <= messages[s][j].date

(* What a screen has been told of is on it, once, or still being           *)
(* downloaded, or its failure was reported; nothing else is on it but what *)
(* the server has refused since.                                           *)
NothingForgotten ==
  \A s \in Screens :
    /\ seen[s] \subseteq ToSet(messages[s]) \cup downloads[s] \cup failed[s]
    /\ IsInjective(messages[s])
    /\ ToSet(messages[s]) \cap (downloads[s] \cup failed[s]) = {}
    /\ \A m \in downloads[s] \cup failed[s] : m.photo

(* A message of the chat comes to the screen, or the alert that its photo  *)
(* could not be downloaded, unless the listener ends or the server refuses *)
(* the message.                                                            *)
EverythingShown ==
  \A s \in Screens, n \in 1 .. MaxMessages :
    (\E m \in docs : m.n = n) /\ alive[s]
      ~> \/ \E m \in ToSet(messages[s]) \cup failed[s] : m.n = n
         \/ ~ alive[s]
         \/ ~ \E m \in docs : m.n = n

(* What messagesObserve and insertNewMessage leave of ChatsViewController. *)
ScreenStands == TypeOK /\ InOrder
=============================================================================
