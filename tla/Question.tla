------------------------------ MODULE Question ------------------------------
(***************************************************************************)
(* What RoutePlanner takes a question to Siggy for: one step, after which  *)
(* the process has all Siggy meant to say, or nothing, or is dying of an   *)
(* exception.  SiggyFetch is shown to be such a step.                      *)
(***************************************************************************)
EXTENDS Sequences

VARIABLES
  meant,    \* the text Siggy has
  state,    \* "asked", then "told", "untold" or "thrown"
  told      \* the text the caller gets

questionVars == <<meant, state, told>>

QuestionInit == meant \in Seq(STRING) /\ state = "asked" /\ told = << >>

Tell == state' = "told" /\ told' = meant
Refuse == state' = "untold" /\ UNCHANGED told
Throw == state' = "thrown" /\ UNCHANGED told

QuestionNext == state = "asked" /\ UNCHANGED meant /\ (Tell \/ Refuse \/ Throw)

QuestionSpec == QuestionInit /\ [][QuestionNext]_questionVars
=============================================================================
