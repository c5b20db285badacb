--------------------------- MODULE OncePerIntent ----------------------------
(***************************************************************************)
(* What the commands that change an environment promise their user: an       *)
(* intent takes effect at most once, however often it is sent, by one        *)
(* command or by several with the same key; and of its outcome a command    *)
(* says "done" of what was done, "refused" of what it did not do and never   *)
(* will, and otherwise that it does not know.                                *)
(***************************************************************************)
CONSTANTS Clients,   \* commands, one intent each
          Intents,
          Things     \* what an intent takes effect on

VARIABLES asks,      \* the intent of each command, once it has one
          effects,   \* the effects intents had, and the command each came by
          told       \* what each command has told its user

vars == <<asks, effects, told>>

Answers == {"done", "refused", "unknown"}

Init ==
  /\ asks = [c \in Clients |-> {}]
  /\ effects = {}
  /\ told = [c \in Clients |-> "nothing"]

Ask(c, intent) ==
  /\ asks[c] = {}
  /\ asks' = [asks EXCEPT ![c] = {intent}]
  /\ UNCHANGED <<effects, told>>

\* A command that does not know may still be served after it has ended.
Serve(c, intent, thing) ==
  /\ intent \in asks[c] /\ told[c] \in {"nothing", "unknown"}
  /\ \A f \in effects : f.intent # intent
  /\ effects' = effects \cup {[intent |-> intent, client |-> c, thing |-> thing]}
  /\ UNCHANGED <<asks, told>>

Tell(c, answer) ==
  /\ asks[c] # {} /\ told[c] = "nothing"
  /\ answer = "done"    => \E f \in effects : f.intent \in asks[c]
  /\ answer = "refused" => \A f \in effects : f.client # c
  /\ told' = [told EXCEPT ![c] = answer]
  /\ UNCHANGED <<asks, effects>>

Next ==
  \E c \in Clients :
    \/ \E intent \in Intents : Ask(c, intent) \/ \E thing \in Things : Serve(c, intent, thing)
    \/ \E answer \in Answers : Tell(c, answer)

Spec == Init /\ [][Next]_vars
=============================================================================
