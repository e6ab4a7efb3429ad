---------------------------- MODULE GameSession ----------------------------
(***************************************************************************)
(* WarFly: the scenes of the game, the contacts of one physics step, the   *)
(* lives, and what is kept in UserDefaults.                                *)
(*                                                                         *)
(* Every scene reads UserDefaults into a GameSettings of its own when it   *)
(* is created; a game works on that copy until it is over.  SpriteKit      *)
(* delivers the contacts of a step one after the other, to the end of the  *)
(* step even if the first of them has ended the game, and a contact may be *)
(* with a node that an earlier one has removed.                            *)
(***************************************************************************)
EXTENDS Integers, FiniteSets, SequencesExt

CONSTANTS
  Enemies,     \* enemies that can be in contact in one step
  Shots,       \* shots that can be in contact in one step
  MaxGames,    \* bound: games started
  MaxScore,    \* bound: score of one game
  MaxLives     \* bound: lives that blue power-ups can add up to

ASSUME GameAssumption ==
  /\ MaxGames \in Nat \ {0} /\ MaxScore \in Nat /\ MaxLives \in Nat \ (0 .. 2)
  /\ Enemies \cap Shots = {}

VARIABLES
  shown,     \* the scene of the view
  back,      \* backScene of a shown OptionsScene or BestScene
  opt,       \* isMusic and isSound of a shown OptionsScene
  last,      \* number of the last GameScene
  game,      \* the GameScenes that the view or SceneManager holds
  playing,   \* the GameScene that is, or was last, in the view
  managed,   \* SceneManager.shared.gameScene, 0 for nil
  gone,      \* nodes removed by the contacts of this step
  late,      \* the contacts of the step in which the game was over still come
  scores,    \* UserDefaults: "highscore"
  settings,  \* UserDefaults: "music" and "sound"
  results    \* history: every result that was saved

nodes == <<gone, late>>
vars == <<shown, back, opt, last, game, playing, managed, nodes, scores,
          settings, results>>

-----------------------------------------------------------------------------
(* Data.                                                                   *)

Scenes == {"menu", "game", "pause", "over", "options", "best"}
Settings == [music : BOOLEAN, sound : BOOLEAN]
PowerUps == {"green", "blue"}

(* A new GameScene: its GameSettings has read UserDefaults.  `revived' is  *)
(* a history: a power-up was caught with no life left.                     *)
NewScene ==
  [configured |-> FALSE, lives |-> 3, hearts |-> 3, score |-> 0, plane |-> TRUE,
   node |-> FALSE, own |-> settings, high |-> scores, saves |-> 0,
   revived |-> FALSE]

(* didSet of `lives'.                                                      *)
Hearts(hearts, lives) == IF lives \in 1 .. 3 THEN lives ELSE hearts

(* Where `new' comes in a list in descending order.                        *)
Place(s, new) == Min({i \in DOMAIN s : s[i] < new} \cup {Len(s) + 1})

(* saveScores adds the result to its list, sorts in descending order and   *)
(* keeps three; the list was in order already.                             *)
BestThree(s, new) == SubSeq(InsertAt(s, Place(s, new), new), 1, Min({3, Len(s) + 1}))

SetLives(g, lives) ==
  [g EXCEPT !.lives = lives, !.hearts = Hearts(@, lives)]

(* Mutant: a game that is resumed keeps the settings it had.               *)
DidMoveOnce(scene, manager) ==
  IF scene.configured THEN scene
  ELSE [scene EXCEPT !.node = scene.own.music, !.configured = manager = 0]

(* didMove: settings are read again; music is started and never stopped;   *)
(* only a scene that finds no managed game sets itself up.                 *)
DidMove(scene, manager) ==
  [scene EXCEPT !.own = settings, !.node = @ \/ settings.music,
                !.configured = @ \/ manager = 0]

-----------------------------------------------------------------------------
Init ==
  /\ shown = "menu" /\ back = "menu"
  /\ settings = [music |-> TRUE, sound |-> TRUE]
  /\ opt = settings
  /\ scores = <<>>
  /\ last = 0
  /\ game = <<>>
  /\ playing = 0 /\ managed = 0
  /\ gone = {} /\ late = FALSE
  /\ results = <<>>

-----------------------------------------------------------------------------
(* The buttons.  Touches come between two physics steps.                   *)

Touch == gone = {} /\ ~late

(* presentScene of game g, while SceneManager knows of `manager': the view *)
(* and SceneManager let go of every other game.                            *)
Present(g, scene, manager) ==
  /\ shown' = "game"
  /\ playing' = g
  /\ game' = [x \in {g, manager} \ {0} |->
                IF x = g THEN DidMove(scene, manager) ELSE game[x]]
  /\ managed' = IF manager = 0 THEN g ELSE manager
  /\ UNCHANGED <<back, opt, nodes, scores, settings, results>>

Start(manager) ==
  /\ last < MaxGames
  /\ last' = last + 1
  /\ Present(last + 1, NewScene, manager)

(* "play" of MenuScene.                                                    *)
Play ==
  /\ shown = "menu" /\ Touch
  /\ Start(managed)

(* Mutant: the game that is over or paused is still the managed one.       *)
RestartManaged ==
  /\ shown \in {"pause", "over"} /\ Touch
  /\ Start(managed)

(* "restart" of PauseScene and GameOverScene.                              *)
Restart ==
  /\ shown \in {"pause", "over"} /\ Touch
  /\ Start(0)

(* The pause button of the HUD.                                            *)
Pause ==
  /\ shown = "game" /\ Touch
  /\ managed' = playing
  /\ shown' = "pause"
  /\ UNCHANGED <<back, opt, last, game, playing, nodes, scores, settings, results>>

(* "resume" of PauseScene.                                                 *)
Resume ==
  /\ shown = "pause" /\ Touch
  /\ managed # 0
  /\ Present(managed, game[managed], managed)
  /\ UNCHANGED last

(* "options" of three scenes, "best" of two.                               *)
Open(scene) ==
  /\ \/ shown \in {"menu", "over"}
     \/ shown = "pause" /\ scene = "options"
  /\ Touch
  /\ shown' = scene
  /\ back' = shown
  /\ opt' = settings
  /\ UNCHANGED <<last, game, playing, managed, nodes, scores, settings, results>>

(* The switches of OptionsScene.                                           *)
Switch(key) ==
  /\ shown = "options" /\ Touch
  /\ opt' = [opt EXCEPT ![key] = ~@]
  /\ UNCHANGED <<shown, back, last, game, playing, managed, nodes, scores,
                 settings, results>>

(* "back" of OptionsScene saves what its switches say.                     *)
Back ==
  /\ shown \in {"options", "best"} /\ Touch
  /\ shown' = back
  /\ settings' = IF shown = "options" THEN opt ELSE settings
  /\ UNCHANGED <<back, opt, last, game, playing, managed, nodes, scores, results>>

-----------------------------------------------------------------------------
(* The contacts of one physics step, in any order.                         *)

Step == shown = "game" \/ late

(* Mutant: the result is saved in a list that is read again.               *)
SaveResultElsewhere(g) ==
  /\ game' = [game EXCEPT ![playing] = [g EXCEPT !.saves = @ + 1]]
  /\ scores' = BestThree(g.high, g.score)
  /\ results' = Append(results, g.score)
  /\ shown' = "over"
  /\ late' = TRUE

(* saveResult: the score joins the best the game knew of when it was made. *)
SaveResult(g) ==
  /\ LET best == BestThree(g.high, g.score)
     IN  /\ game' = [game EXCEPT ![playing] = [g EXCEPT !.high = best, !.saves = @ + 1]]
         /\ scores' = best
  /\ results' = Append(results, g.score)
  /\ shown' = "over"
  /\ late' = TRUE

(* Mutant: `lives <= 0'.                                                   *)
LoseLifeAtMost(g) ==
  IF g.lives <= 1
  THEN SaveResult(SetLives(g, g.lives - 1))
  ELSE /\ game' = [game EXCEPT ![playing] = SetLives(g, g.lives - 1)]
       /\ UNCHANGED <<shown, late, scores, results>>

LoseLife(g) ==
  IF g.lives = 1
  THEN SaveResult(SetLives(g, 0))
  ELSE /\ game' = [game EXCEPT ![playing] = SetLives(g, g.lives - 1)]
       /\ UNCHANGED <<shown, late, scores, results>>

(* Enemy and player.  An enemy that is gone has no parent and is passed    *)
(* over; or it has been released, the contact has no node, and the plane   *)
(* is taken for the enemy.                                                 *)
EnemyMeetsPlayer(e) ==
  /\ Step
  /\ game[playing].plane \/ "plane" \in gone
  /\ \/ e \notin gone /\ gone' = gone \cup {e} /\ LoseLife(game[playing])
     \/ /\ e \in gone /\ game[playing].plane
        /\ gone' = gone \cup {"plane"}
        /\ LoseLife([game[playing] EXCEPT !.plane = FALSE])
  /\ UNCHANGED <<back, opt, last, playing, managed, settings>>

(* Power-up and player: three lives, or one more.                          *)
PowerUpMeetsPlayer(p) ==
  /\ Step
  /\ p \notin gone /\ game[playing].plane
  /\ game[playing].lives < MaxLives
  /\ gone' = gone \cup {p}
  /\ LET g == game[playing]
         lives == IF p = "green" THEN 3 ELSE g.lives + 1
     IN  game' = [game EXCEPT ![playing] =
                    [SetLives(g, lives) EXCEPT !.revived = @ \/ g.lives <= 0]]
  /\ UNCHANGED <<shown, back, opt, last, playing, managed, late, scores, settings,
                 results>>

(* Enemy and shot.                                                         *)
EnemyMeetsShot(e, s) ==
  /\ Step
  /\ {e, s} \cap gone = {}
  /\ game[playing].score + 5 <= MaxScore
  /\ gone' = gone \cup {e, s}
  /\ game' = [game EXCEPT ![playing].score = @ + 5]
  /\ UNCHANGED <<shown, back, opt, last, playing, managed, late, scores, settings,
                 results>>

(* The end of the step: other nodes meet in the next one.                  *)
StepEnds ==
  /\ gone # {} \/ late
  /\ gone' = {} /\ late' = FALSE
  /\ UNCHANGED <<shown, back, opt, last, game, playing, managed, scores, settings,
                 results>>

(* The app is killed and started again.                                    *)
Relaunch ==
  /\ shown # "menu"
  /\ shown' = "menu"
  /\ game' = <<>> /\ playing' = 0 /\ managed' = 0
  /\ gone' = {} /\ late' = FALSE
  /\ back' = "menu" /\ opt' = settings
  /\ UNCHANGED <<last, scores, settings, results>>

Next ==
  \/ Play \/ Restart \/ Pause \/ Resume \/ Back
  \/ \E scene \in {"options", "best"} : Open(scene)
  \/ \E key \in {"music", "sound"} : Switch(key)
  \/ \E e \in Enemies : \/ EnemyMeetsPlayer(e)
                       \/ \E s \in Shots : EnemyMeetsShot(e, s)
  \/ \E p \in PowerUps : PowerUpMeetsPlayer(p)
  \/ StepEnds
  \/ Relaunch

Spec == Init /\ [][Next]_vars

-----------------------------------------------------------------------------
(* Properties.                                                             *)

TypeOK ==
  /\ shown \in Scenes /\ back \in Scenes \ {"game"}
  /\ opt \in Settings /\ settings \in Settings
  /\ last \in 0 .. MaxGames /\ playing \in 0 .. last /\ managed \in 0 .. last
  /\ DOMAIN game = {playing, managed} \ {0}
  /\ \A g \in DOMAIN game : game[g] \in
                        [configured : BOOLEAN, lives : Int, hearts : 1 .. 3,
                         score : 0 .. MaxScore, plane : BOOLEAN, node : BOOLEAN,
                         own : Settings, high : Seq(0 .. MaxScore), saves : Nat,
                         revived : BOOLEAN]
  /\ gone \subseteq Enemies \cup Shots \cup PowerUps \cup {"plane"}
  /\ late \in BOOLEAN
  /\ scores \in Seq(0 .. MaxScore) /\ results \in Seq(0 .. MaxScore)

(* The game in the view has set itself up, is the one that a pause comes   *)
(* back to, and has a life left: nothing leads back to a game that is over.*)
GameIsOn ==
  shown = "game" =>
    /\ game[playing].configured /\ managed = playing
    /\ game[playing].lives >= 1 /\ game[playing].saves = 0

(* The hearts of the game in the view show its lives, and at most three.   *)
HeartsShowLives ==
  shown = "game" =>
    LET g == game[playing]
    IN  g.hearts = IF g.lives > 3 THEN 3 ELSE g.lives

(* "best" lists the three best of all results that were ever saved, though *)
(* every game adds its own to a copy of the list as old as the game.       *)
BestAreBest ==
  /\ Len(scores) = IF Len(results) < 3 THEN Len(results) ELSE 3
  /\ \A i \in DOMAIN scores :
       /\ Cardinality({j \in DOMAIN results : results[j] > scores[i]}) < i
       /\ Cardinality({j \in DOMAIN results : results[j] >= scores[i]}) >= i

(* A game saves one result, unless the step that ended it held a power-up  *)
(* and another enemy.                                                      *)
SavedOnce == \A g \in DOMAIN game : game[g].saves > 1 => game[g].revived

(* The game in the view obeys the switches as they were saved last.        *)
SettingsObeyed ==
  shown = "game" =>
    /\ game[playing].own = settings
    /\ settings.music => game[playing].node

(* What GameScene, SceneManager and the menus leave in the view.           *)
GameStands == TypeOK /\ GameIsOn /\ HeartsShowLives
=============================================================================
