--------------------------- MODULE UpdateDelivery ---------------------------
(***************************************************************************)
(* What the Telegram API server promises of the updates of a bot, however  *)
(* the bot gets them: the server keeps an update until the bot has had it, *)
(* unless the update is excused.  The bot may get an update more than      *)
(* once, and also when the server no longer keeps it.                      *)
(***************************************************************************)
VARIABLES
  arrived,   \* the updates that came from Telegram
  kept,      \* those the server keeps
  handed,    \* those the bot has had
  excused    \* those the server may let go of unseen
vars == <<arrived, kept, handed, excused>>

Init ==
  /\ arrived = {}
  /\ kept = {}
  /\ handed = {}

Taken == kept \cup (arrived' \ arrived)

Step ==
  /\ arrived \subseteq arrived'
  /\ kept' \subseteq arrived'
  /\ handed \subseteq handed'
  /\ handed' \subseteq arrived
  /\ Taken \ kept' \subseteq handed \cup excused'

Spec == Init /\ [][Step]_vars
=============================================================================
