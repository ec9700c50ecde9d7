-------------------------------- MODULE Tetris --------------------------------
(***************************************************************************)
(* The game loop of the Tetris view (src/ui/tetris.js): start, pause,      *)
(* reset and the asynchronous turn, in the browser's single thread.  A     *)
(* step is the code between two awaits or timers.                          *)
(*                                                                         *)
(* start() begins a chain of turns, each turn scheduling the next; a chain *)
(* that is paused ends only when it next looks at `running`, so several    *)
(* can be alive.  Board and piece are abstracted to what changes them:     *)
(* current[l] says whether they are still those chain l chose a move for.  *)
(***************************************************************************)
EXTENDS Integers, FiniteSets

CONSTANTS
  Loop,        \* chains of turns (bound on those alive at once)
  NoLoop,
  PathLength   \* bound on the steps of a move's animation

ASSUME TetrisAssumption == NoLoop \notin Loop /\ PathLength \in Nat \ {0}

VARIABLES
  running, gameOver,
  blocked,   \* the piece does not fit its spawn position on this board
  timer,     \* the chain whose timeout `timer` names
  at,        \* chain -> where it waits
  left,      \* chain -> steps of its animation to come
  current,   \* chain -> nothing has moved since it chose
  placed     \* flips with every piece placed

gameVars == <<running, gameOver, blocked, placed>>
vars == <<gameVars, timer, at, left, current>>

Nobody == [l \in Loop |-> FALSE]

Init ==
  /\ running = FALSE /\ gameOver = FALSE /\ blocked = FALSE
  /\ timer = NoLoop
  /\ at = [l \in Loop |-> "none"]
  /\ left = [l \in Loop |-> 0]
  /\ current = Nobody
  /\ placed = FALSE

\* reset() of a game that is over, or of any.
Fresh == blocked' = FALSE /\ gameOver' = FALSE

\* turn() up to its first await, on a board where a piece has a place to go.
Asks(l, valid) ==
  /\ at' = [at EXCEPT ![l] = "asking"]
  /\ current' = [valid EXCEPT ![l] = TRUE]

\* The chain ends, and the game with it.
Ends(l) ==
  /\ running' = FALSE /\ gameOver' = TRUE
  /\ at' = [at EXCEPT ![l] = "none"]

Start(l) ==
  /\ ~running
  /\ at[l] = "none"
  /\ \/ gameOver /\ Fresh /\ Asks(l, Nobody)
     \/ ~gameOver /\ ~blocked /\ UNCHANGED <<gameOver, blocked>> /\ Asks(l, current)
  /\ running' = TRUE
  /\ UNCHANGED <<timer, left, placed>>

\* clearTimeout(timer): it stops the chain scheduled last, if it still waits.
Cleared == [l \in Loop |-> IF l = timer /\ at[l] = "scheduled" THEN "none" ELSE at[l]]

\* The button while running, or leaving the view at any time.
Pause ==
  /\ running' = FALSE
  /\ at' = Cleared
  /\ UNCHANGED <<gameOver, blocked, timer, left, current, placed>>

Reset ==
  /\ running' = FALSE
  /\ at' = Cleared
  /\ Fresh
  /\ current' = Nobody
  /\ UNCHANGED <<timer, left, placed>>

\* What a turn asks after every await.
GoesOn == running

Stops(l) ==
  /\ at[l] \in {"asking", "moving", "flashing"}
  /\ ~GoesOn
  /\ at' = [at EXCEPT ![l] = "none"]
  /\ UNCHANGED <<gameVars, timer, left, current>>

\* decide() returns with a move.
Answered(l) ==
  /\ at[l] = "asking"
  /\ GoesOn
  /\ at' = [at EXCEPT ![l] = "moving"]
  /\ \E n \in 1 .. PathLength : left' = [left EXCEPT ![l] = n]
  /\ UNCHANGED <<gameVars, timer, current>>

Fails_StillRunning(l) ==
  /\ at[l] = "asking"
  /\ at' = [at EXCEPT ![l] = "none"]
  /\ UNCHANGED <<gameVars, timer, left, current>>

\* decide() throws, whether the game runs or not.
Fails(l) ==
  /\ at[l] = "asking"
  /\ running' = FALSE
  /\ at' = [at EXCEPT ![l] = "none"]
  /\ UNCHANGED <<gameOver, blocked, timer, left, current, placed>>

\* Another step of the animation.
Moves(l) ==
  /\ at[l] = "moving" /\ left[l] > 1
  /\ GoesOn
  /\ left' = [left EXCEPT ![l] = @ - 1]
  /\ UNCHANGED <<gameVars, timer, at, current>>

\* place() of a move chosen for another piece may reach below the last row; nobody
\* catches the TypeError, so the chain ends, and nothing else changes.
Throws(l) ==
  /\ at[l] = "moving" /\ left[l] = 1
  /\ GoesOn
  /\ ~current[l]
  /\ at' = [at EXCEPT ![l] = "none"]
  /\ UNCHANGED <<gameVars, timer, left, current>>

\* The board after the move is computed, and shown with its full rows first.
Flashes(l) ==
  /\ at[l] = "moving" /\ left[l] = 1
  /\ GoesOn
  /\ at' = [at EXCEPT ![l] = "flashing"]
  /\ UNCHANGED <<gameVars, timer, left, current>>

Arrived(l) == at[l] = "flashing" \/ (at[l] = "moving" /\ left[l] = 1)

Places_NotScheduling(l) ==
  /\ Arrived(l)
  /\ GoesOn
  /\ at' = [at EXCEPT ![l] = "none"]
  /\ current' = Nobody /\ placed' = ~placed
  /\ UNCHANGED <<running, gameOver, blocked, timer, left>>

\* The board is the one computed, the next piece comes, and the next turn is
\* scheduled unless the game is over.
Places(l) ==
  /\ Arrived(l)
  /\ GoesOn
  /\ current' = Nobody /\ placed' = ~placed
  /\ \/ blocked' = TRUE /\ Ends(l) /\ UNCHANGED timer
     \/ /\ blocked' = FALSE
        /\ at' = [at EXCEPT ![l] = "scheduled"]
        /\ timer' = l
        /\ UNCHANGED <<running, gameOver>>
  /\ UNCHANGED left

\* The timeout: turn() again, which does not look at `running` first.
Fires(l) ==
  /\ at[l] = "scheduled"
  /\ \/ blocked /\ Ends(l) /\ UNCHANGED current
     \/ ~blocked /\ Asks(l, current) /\ UNCHANGED <<running, gameOver>>
  /\ UNCHANGED <<blocked, timer, left, placed>>

Goes(l) ==
  \/ Stops(l) \/ Answered(l) \/ Fails(l) \/ Moves(l) \/ Flashes(l)
  \/ Throws(l) \/ Places(l) \/ Fires(l)

Next == Pause \/ Reset \/ \E l \in Loop : Start(l) \/ Goes(l)

Spec == Init /\ [][Next]_vars

\* Requests are answered or fail, and timers fire.
FairSpec == Spec /\ \A l \in Loop : WF_vars(Goes(l))

-----------------------------------------------------------------------------
Plays(l) == at[l] = "scheduled" \/ (at[l] # "none" /\ current[l])

\* While the game runs, some chain is about to choose a move or has chosen one for
\* this very board and piece: the chains left over from before a pause or a reset
\* may stop, fail, or throw in place() (tetris.js:222) without ending the play.
RunningIsPlayed == running => \E l \in Loop : Plays(l)

\* A game that keeps running keeps placing pieces: no order of pauses, restarts,
\* errors, late answers and moves that throw leaves a running game that nobody plays.
PlayGoesOn ==
  \A p \in BOOLEAN : (running /\ placed = p) ~> (~running \/ placed # p)

\* README.md:227, "The board is the context, legal placements are the allowed
\* values": a piece is put where it was chosen to go on this very board.
PlacedAsChosen ==
  [][\A l \in Loop : placed' # placed /\ at'[l] # at[l] => current[l]]_vars
=============================================================================
